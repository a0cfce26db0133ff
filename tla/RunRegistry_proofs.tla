------------------------- MODULE RunRegistry_proofs -------------------------
(*************************************************************************)
(* Proofs about RunRegistry, alone and beside the Reconciler, for any    *)
(* runs, hierarchy, budgets, scopes, overlap relation, claims,           *)
(* processes, leaders, grace and bounds, with failing statements and,    *)
(* where the property says so, lost named locks.                         *)
(*************************************************************************)
EXTENDS Reconciler, FiniteSetTheorems, TLAPS

(***************************************************************************)
(* What the rows and writes of LockTable look like, for any runs, scopes,  *)
(* overlap relation and lease.                                             *)
(***************************************************************************)
Table == [Keys -> Row \cup {Absent}]

\* A write whose row is HELD once it has happened.
Holds(w) == Held(w.row) /\ w.throws # "before"

LEMMA AbsentIsNoRow == Absent \notin Row
BY DEF Absent, Row, States

LEMMA RowsMade ==
    ASSUME NEW row \in Row, NEW t \in Nat, NEW state \in States
    PROVE  /\ Renewed(row, t) \in Row
           /\ Renewed(row, t).state = row.state
           /\ Renewed(row, t).fence = row.fence
           /\ Renewed(row, t).rev = row.rev + 1
           /\ Renewed(row, t).expires = t + Lease
           /\ Closed(row, state) \in Row
           /\ Closed(row, state).state = state
           /\ Closed(row, state).fence = row.fence
           /\ Closed(row, state).rev = row.rev + 1
<1>1. t + Lease \in Nat
  BY LeaseAssumption
<1>2. row.rev + 1 \in Nat \ {0}
  BY DEF Row
<1>3. /\ Renewed(row, t) \in Row
      /\ Renewed(row, t).state = row.state
      /\ Renewed(row, t).fence = row.fence
      /\ Renewed(row, t).rev = row.rev + 1
      /\ Renewed(row, t).expires = t + Lease
  BY <1>1, <1>2 DEF Renewed, Row
<1>4. /\ Closed(row, state) \in Row
      /\ Closed(row, state).state = state
      /\ Closed(row, state).fence = row.fence
      /\ Closed(row, state).rev = row.rev + 1
  BY <1>2 DEF Closed, Row
<1>5. QED
  BY <1>3, <1>4

LEMMA FreshMade ==
    ASSUME NEW f \in Nat \ {0}, NEW t \in Nat
    PROVE  /\ Fresh(f, t) \in Row
           /\ Fresh(f, t).state = "HELD"
           /\ Fresh(f, t).fence = f
           /\ Fresh(f, t).rev = 1
           /\ Fresh(f, t).expires = t + Lease
<1>1. t + Lease \in Nat
  BY LeaseAssumption
<1>2. QED
  BY <1>1 DEF Fresh, Row, States

LEMMA KeyParts ==
    ASSUME NEW k \in Keys
    PROVE  k = <<k[1], k[2]>> /\ k[1] \in Scopes /\ k[2] \in Runs
BY DEF Keys

LEMMA CollideSymmetric ==
    ASSUME NEW s \in Scopes, NEW t \in Scopes
    PROVE  Collide(s, s) /\ (Collide(s, t) => Collide(t, s))
BY OverlapAssumption DEF Collide

LEMMA PlainIsWrite ==
    ASSUME NEW k \in Keys, NEW row \in Row
    PROVE  /\ Plain(k, row) \in Write
           /\ Plain(k, row).key = k
           /\ Plain(k, row).row = row
           /\ Plain(k, row).throws = "never"
           /\ Plain(k, row).order = 1
BY DEF Plain, Write

LEMMA HeldRow ==
    ASSUME NEW table \in Table, NEW k \in Keys, Held(table[k])
    PROVE  table[k] \in Row /\ table[k] # Absent
BY AbsentIsNoRow DEF Table, Held, Absent

\* renewCollisionLocks: each HELD row of the run is renewed under its token, closed
\* because its lease ran out, or refused for its token.
LEMMA RenewWriteMade ==
    ASSUME NEW table \in Table, NEW k \in Keys, Held(table[k]),
           NEW f, NEW t \in Nat
    PROVE  LET w == RenewWrite(table, k, f, t) IN
           /\ w \in Write /\ w.key = k
           /\ w.throws = "before" <=> table[k].fence # f
           /\ w.throws = "after" => table[k].expires <= t /\ ~Held(w.row)
           /\ w.throws = "never" => /\ Held(w.row) /\ w.row.fence = f
                                    /\ w.row.expires = t + Lease
           /\ table[k].fence = f /\ ~(table[k].expires <= t) => w.throws = "never"
<1> DEFINE w == RenewWrite(table, k, f, t)
<1>1. table[k] \in Row
  BY HeldRow
<1>2. CASE table[k].fence # f
  <2>1. w = [key |-> k, row |-> table[k], throws |-> "before", order |-> 1]
    BY <1>2 DEF RenewWrite
  <2>2. QED
    BY <1>1, <1>2, <2>1 DEF Write
<1>3. CASE table[k].fence = f /\ table[k].expires <= t
  <2>1. w = [key |-> k, row |-> Closed(table[k], "EXPIRED"), throws |-> "after", order |-> 1]
    BY <1>3 DEF RenewWrite
  <2>2. Closed(table[k], "EXPIRED") \in Row /\ Closed(table[k], "EXPIRED").state = "EXPIRED"
    BY <1>1, RowsMade DEF States
  <2>3. QED
    BY <1>3, <2>1, <2>2 DEF Write, Held
<1>4. CASE table[k].fence = f /\ ~(table[k].expires <= t)
  <2>1. w = Plain(k, Renewed(table[k], t))
    BY <1>4 DEF RenewWrite
  <2>2. /\ Renewed(table[k], t) \in Row /\ Renewed(table[k], t).state = "HELD"
        /\ Renewed(table[k], t).fence = f /\ Renewed(table[k], t).expires = t + Lease
    BY <1>1, <1>4, RowsMade DEF States, Held
  <2>3. w \in Write /\ w.key = k /\ w.throws = "never" /\ w.row = Renewed(table[k], t)
    BY <2>1, <2>2, PlainIsWrite
  <2>4. QED
    BY <1>4, <2>2, <2>3 DEF Held
<1>5. QED
  BY <1>2, <1>3, <1>4

\* releaseCollisionLocks: each HELD row of the run is closed, or refused for its token.
LEMMA ReleaseWriteMade ==
    ASSUME NEW table \in Table, NEW k \in Keys, Held(table[k]), NEW f
    PROVE  LET w == ReleaseWrite(table, k, f) IN
           w \in Write /\ w.key = k /\ ~Holds(w) /\ w.throws # "after"
<1> DEFINE w == ReleaseWrite(table, k, f)
<1>1. table[k] \in Row
  BY HeldRow
<1>2. CASE table[k].fence # f
  <2>1. w = [key |-> k, row |-> table[k], throws |-> "before", order |-> 1]
    BY <1>2 DEF ReleaseWrite
  <2>2. QED
    BY <1>1, <2>1 DEF Write, Holds
<1>3. CASE table[k].fence = f
  <2>1. w = Plain(k, Closed(table[k], "RELEASED"))
    BY <1>3 DEF ReleaseWrite
  <2>2. /\ Closed(table[k], "RELEASED") \in Row
        /\ Closed(table[k], "RELEASED").state = "RELEASED"
    BY <1>1, RowsMade DEF States
  <2>3. /\ w \in Write /\ w.key = k /\ w.throws = "never"
        /\ w.row = Closed(table[k], "RELEASED")
    BY <2>1, <2>2, PlainIsWrite
  <2>4. QED
    BY <2>2, <2>3 DEF Held, Holds
<1>4. QED
  BY <1>2, <1>3

(***************************************************************************)
(* The inductive invariant.                                                *)
(***************************************************************************)
\* What a pending run row needs, whatever other processes do meanwhile.
WellLeased(row) == row.expires # NoLease <=> IsLeased(row)

PutsAreSound ==
    \A p \in Procs : put[p] # NoPut =>
        /\ put[p].run \in served
        /\ WellLeased(put[p].row)
        /\ put[p].row.expires <= now + Lease

RunsAreServed ==
    /\ IsFiniteSet(served)
    /\ \A r \in Runs : run[r] # Unregistered => r \in served
    /\ \A r \in Runs : run[r].expires <= now + Lease

Common == TypeOK /\ PutsAreSound /\ RunsAreServed

\* The rest holds as long as no process lost the named lock.
Serial == \A p \in Procs : Busy(p) => mutex = p

\* Locks belong to registrations and stay within what the run claimed.
LocksAreClaimed ==
    /\ \A k \in Keys : Held(lock[k]) => k[2] \in served
    /\ \A k \in Keys : Held(lock[k]) /\ run[k[2]] # Unregistered =>
                           k[1] \in run[k[2]].scopes

\* A lock row that outlives, under the same token, what the run row says.
Fits(l, row) == Held(l) /\ l.fence = row.fence /\ l.expires >= row.expires

\* A live run's locks last as long as the run.
InStep ==
    \A r \in Runs : RunLive(r) /\ r \notin torn /\ ~BeingClosed(r) =>
        \A s \in run[r].scopes : Fits(lock[<<s, r>>], run[r])

ClosedHoldNothing == \A r \in Runs : IsTerminal(run[r]) => HeldBy(lock, r) = {}

ScopesApart(S, T) == \A s \in S : \A t \in T : ~Collide(s, t)

RunsApart ==
    \A q, r \in Runs \ torn : RunLive(q) /\ RunLive(r) /\ q # r =>
        ScopesApart(run[q].scopes, run[r].scopes)

BudgetsKept == \A q \in Runs : Cardinality(GovernedChildren(q)) <= Budget[q]

\* The run that a pending row updates is as the operation read it; only the
\* reconciler rewrites a closed run, and keeps its outcome.
UpdatesOwnRun(r, row) ==
    run[r] # Unregistered =>
        /\ IsTerminal(run[r]) => row.state = run[r].state
        /\ row.fence = run[r].fence
        /\ row.state # "QUEUED"
        /\ IsLeased(row) => row.scopes = run[r].scopes /\ run[r].expires <= row.expires

\* Pending HELD locks are the run's, as good as the run row they precede.
WritesFit(W, r, row) ==
    \A w \in W :
        /\ w.key[2] = r
        /\ Holds(w) => /\ IsLeased(row)
                       /\ w.key[1] \in row.scopes
                       /\ Fits(w.row, row)

\* A run is closed after each of its locks: those still held are pending.
ClosesAfterLocks(W, r, row) ==
    IsTerminal(row) => \A k \in HeldBy(lock, r) : \E w \in W : w.key = k

\* A lease is written after each of its locks, and none of those is closed.
LeasesAfterLocks(W, r, row) ==
    IsLeased(row) /\ r \notin torn =>
        /\ \A w \in W : w.throws # "before" => Holds(w) /\ w.throws = "never"
        /\ \A s \in row.scopes :
              \/ Fits(lock[<<s, r>>], row)
              \/ \E w \in W : w.key = <<s, r>> /\ Holds(w)
              \/ \E w \in W : w.throws = "before"

\* What was checked about the other runs still holds.
ChecksHold(r, row) ==
    /\ ~IsTerminal(row) => \A k \in HeldBy(lock, r) : k[1] \in row.scopes
    /\ IsLeased(row) /\ r \notin torn =>
          \A q \in Runs \ torn : RunLive(q) /\ q # r =>
              ScopesApart(run[q].scopes, row.scopes)
    /\ run[r] = Unregistered /\ Governed(r) =>
          Cardinality(ActiveChildren(Parent[r])) < Budget[Parent[r]]

Prepared(W, r, row) ==
    /\ UpdatesOwnRun(r, row)
    /\ WritesFit(W, r, row)
    /\ ClosesAfterLocks(W, r, row)
    /\ LeasesAfterLocks(W, r, row)
    /\ ChecksHold(r, row)

\* Writes without a run row only close locks whose lease ran out.
Sweeping(W) ==
    \A w \in W : /\ ~Held(w.row)
                 /\ Held(lock[w.key]) => lock[w.key].expires <= now

PutsArePrepared ==
    \A p \in Procs : IF put[p] = NoPut
                     THEN Sweeping(todo[p])
                     ELSE Prepared(todo[p], put[p].run, put[p].row)

Orderly ==
    /\ Serial
    /\ LocksAreClaimed
    /\ InStep
    /\ ClosedHoldNothing
    /\ RunsApart
    /\ BudgetsKept
    /\ PutsArePrepared

\* What the board keeps, whether the registry is alone or beside the reconciler.
Board == Common /\ (~dropped => Orderly)

\* In the registry alone, a pending row is an insert or, under the run's token, at
\* most one revision ahead of the run, and not ahead of a closed one.
PutNearby(r, row) ==
    IF run[r] = Unregistered
    THEN row.rev = 1
    ELSE run[r].fence = row.fence =>
            /\ row.rev <= run[r].rev + 1
            /\ IsTerminal(run[r]) => row.rev <= run[r].rev

PutsAreNear == \A p \in Procs : put[p] # NoPut => PutNearby(put[p].run, put[p].row)
StaysNear == PutsAreNear => PutsAreNear'

IInv == Board /\ PutsAreNear

(***************************************************************************)
(* Rows, and what an idle board looks like.                                *)
(***************************************************************************)
LEMMA UnregisteredIsNoRow ==
    /\ Unregistered \notin RunRow
    /\ ~IsLeased(Unregistered) /\ ~IsTerminal(Unregistered)
BY DEF Unregistered, RunRow, RunStates, LeasedStates, TerminalStates, IsLeased, IsTerminal

LEMMA RegisteredRow ==
    ASSUME TypeOK, NEW r \in Runs, run[r] # Unregistered
    PROVE  run[r] \in RunRow
BY DEF TypeOK

LEMMA LeasedRow ==
    ASSUME TypeOK, NEW r \in Runs, IsLeased(run[r])
    PROVE  run[r] \in RunRow /\ run[r] # Unregistered /\ ~IsTerminal(run[r])
BY UnregisteredIsNoRow DEF TypeOK, IsLeased, IsTerminal, LeasedStates, TerminalStates

LEMMA PendingRow ==
    ASSUME TypeOK, NEW p \in Procs, put[p] # NoPut
    PROVE  put[p] \in RunPut /\ put[p].run \in Runs /\ put[p].row \in RunRow
BY DEF TypeOK, RunPut

LEMMA LiveRow ==
    ASSUME TypeOK, NEW r \in Runs, RunLive(r)
    PROVE  IsLeased(run[r]) /\ run[r] \in RunRow /\ run[r].expires > now
<1>1. IsLeased(run[r]) /\ run[r] \in RunRow
  BY LeasedRow DEF RunLive
<1>2. run[r].expires # NoLease /\ run[r].expires \in Nat /\ now \in Nat
  BY <1>1 DEF TypeOK, RunRow
<1>3. QED
  BY <1>1, <1>2 DEF RunLive, LeaseOut

\* While no process lost the named lock, only its holder is at work.
LEMMA Alone ==
    ASSUME Board, ~dropped, NEW p \in Procs, mutex \in {p, NoProc}
    PROVE  \A q \in Procs \ {p} : put[q] = NoPut /\ todo[q] = {} /\ Closing(q) = {}
BY NamesAssumption DEF Board, Orderly, Serial, Busy, Closing

LEMMA BusyAlone ==
    ASSUME Board, ~dropped, NEW p \in Procs, Busy(p)
    PROVE  /\ mutex = p
           /\ \A q \in Procs \ {p} : put[q] = NoPut /\ todo[q] = {} /\ Closing(q) = {}
<1>1. mutex = p
  BY DEF Board, Orderly, Serial
<1>2. QED
  BY <1>1, Alone

LEMMA LockIsFree ==
    ASSUME Board, ~dropped, mutex = NoProc
    PROVE  /\ \A p \in Procs : put[p] = NoPut /\ todo[p] = {}
           /\ \A r \in Runs : ~BeingClosed(r)
<1>1. \A p \in Procs : put[p] = NoPut /\ todo[p] = {}
  BY NamesAssumption DEF Board, Orderly, Serial, Busy
<1>2. QED
  BY <1>1 DEF BeingClosed, Closing

\* Closed a run's locks, its row may be changed: nobody closes a run when all are idle.
LEMMA NobodyCloses ==
    ASSUME Board, ~dropped, NEW p \in Procs, mutex \in {p, NoProc}, put[p] = NoPut
    PROVE  \A r \in Runs : ~BeingClosed(r)
BY Alone DEF BeingClosed, Closing

(***************************************************************************)
(* Starting an operation, or an item of a reconcile plan.                  *)
(***************************************************************************)
LEMMA LoadKeeps ==
    ASSUME Board, NEW p \in Procs, NEW W \in SUBSET Write, NEW r \in Runs, NEW row \in RunRow,
           run' = run, lock' = lock, now' = now, torn' = torn, dropped' = dropped,
           todo[p] = {}, put[p] = NoPut, mutex' \in Procs \cup {NoProc},
           todo' = [todo EXCEPT ![p] = W],
           put' = [put EXCEPT ![p] = [run |-> r, row |-> row]],
           fences' \in Nat,
           served' \in SUBSET Runs, served \subseteq served', IsFiniteSet(served'),
           r \in served', WellLeased(row), row.expires <= now + Lease,
           ~dropped => mutex \in {p, NoProc} /\ mutex' = p /\ Prepared(W, r, row)
    PROVE  Board'
<1> DEFINE pt == [run |-> r, row |-> row]
<1>0. pt \in RunPut /\ pt # NoPut /\ pt.run = r /\ pt.row = row
  BY NoPutAssumption DEF RunPut
<1>2. /\ \A q \in Procs : todo'[q] = IF q = p THEN W ELSE todo[q]
      /\ \A q \in Procs : put'[q] = IF q = p THEN pt ELSE put[q]
  BY DEF Board, Common, TypeOK
<1>3. TypeOK'
  BY <1>0 DEF Board, Common, TypeOK
<1>4. PutsAreSound'
  <2> SUFFICES ASSUME NEW q \in Procs, put'[q] # NoPut
               PROVE  /\ put'[q].run \in served'
                      /\ WellLeased(put'[q].row)
                      /\ put'[q].row.expires <= now + Lease
    BY DEF PutsAreSound
  <2>1. CASE q = p
    BY <1>0, <1>2, <2>1
  <2>2. CASE q # p
    BY <1>2, <2>2 DEF Board, Common, PutsAreSound
  <2>3. QED
    BY <2>1, <2>2
<1>5. RunsAreServed'
  BY DEF Board, Common, RunsAreServed
<1>6. ASSUME ~dropped PROVE Orderly'
  <2>1. /\ \A q \in Procs \ {p} : put[q] = NoPut /\ todo[q] = {}
        /\ \A q \in Runs : ~BeingClosed(q)
    <3>1. mutex \in {p, NoProc}
      BY <1>6
    <3>2. \A q \in Procs \ {p} : put[q] = NoPut /\ todo[q] = {}
      BY <1>6, <3>1, Alone
    <3>3. \A q \in Runs : ~BeingClosed(q)
      BY <1>6, <3>1, NobodyCloses
    <3>4. QED
      BY <3>2, <3>3
  <2>2. Serial'
    BY <1>2, <1>6, <2>1 DEF Serial, Busy
  <2>3. LocksAreClaimed'
    BY <1>6 DEF Board, Orderly, LocksAreClaimed
  <2>4. InStep'
    BY <1>6, <2>1 DEF Board, Orderly, InStep, RunLive, Fits
  <2>5. ClosedHoldNothing' /\ RunsApart' /\ BudgetsKept'
    BY <1>6 DEF Board, Orderly, ClosedHoldNothing, HeldBy, RunsApart, RunLive,
                BudgetsKept, GovernedChildren, ActiveChildren
  <2>6. PutsArePrepared'
    <3>1. Prepared(W, r, row)'
      BY <1>6 DEF Prepared, UpdatesOwnRun, WritesFit, ClosesAfterLocks, HeldBy,
                  LeasesAfterLocks, Fits, ChecksHold, RunLive, ActiveChildren, Governed
    <3>2. QED
      BY <1>0, <1>2, <2>1, <3>1 DEF PutsArePrepared, Sweeping
  <2>7. QED
    BY <2>2, <2>3, <2>4, <2>5, <2>6 DEF Orderly
<1>7. QED
  BY <1>3, <1>4, <1>5, <1>6 DEF Board, Common

LEMMA BeginKeeps ==
    ASSUME Board, NEW p \in Procs, NEW W \in SUBSET Write, NEW r \in Runs, NEW row \in RunRow,
           Begin(p, W, [run |-> r, row |-> row]),
           fences' \in Nat,
           served' \in SUBSET Runs, served \subseteq served', IsFiniteSet(served'),
           r \in served', WellLeased(row), row.expires <= now + Lease, PutNearby(r, row),
           ~dropped => Prepared(W, r, row)
    PROVE  Board' /\ StaysNear
<1>1. Board'
  BY LoadKeeps DEF Begin
<1>2. StaysNear
  <2> SUFFICES ASSUME PutsAreNear, NEW q \in Procs, put'[q] # NoPut
               PROVE  PutNearby(put'[q].run, put'[q].row)
    BY DEF StaysNear, PutsAreNear, PutNearby, Begin
  <2>1. put'[q] = IF q = p THEN [run |-> r, row |-> row] ELSE put[q]
    BY DEF Begin, Board, Common, TypeOK
  <2>2. QED
    BY <2>1 DEF PutsAreNear
<1>3. QED
  BY <1>1, <1>2

(***************************************************************************)
(* register_run.                                                           *)
(***************************************************************************)
LEMMA NewRunMade ==
    ASSUME TypeOK, NEW init \in {"QUEUED", "STARTING"}, NEW f \in Nat, NEW S \in SUBSET Scopes
    PROVE  LET row == NewRun(init, f, S) IN
           /\ row \in RunRow /\ WellLeased(row)
           /\ row.state = init /\ row.fence = f /\ row.rev = 1 /\ row.scopes = S
           /\ row.expires <= now + Lease
           /\ init = "STARTING" => row.expires = now + Lease
           /\ IsLeased(row) <=> init = "STARTING"
           /\ ~IsTerminal(row)
<1>1. now \in Nat /\ now + Lease \in Nat \ {0} /\ 0 <= now + Lease
  BY LeaseAssumption DEF TypeOK
<1>2. QED
  BY <1>1 DEF NewRun, RunRow, RunStates, LeasedStates, TerminalStates, NoLease,
              WellLeased, IsLeased, IsTerminal

\* A run that is not registered and not served holds nothing and has budget.
LEMMA FreshRun ==
    ASSUME Board, ~dropped, NEW r \in Runs, r \notin served, SpawnAllowed(r)
    PROVE  /\ HeldBy(lock, r) = {}
           /\ Governed(r) =>
                 Cardinality(ActiveChildren(Parent[r])) < Budget[Parent[r]]
BY DEF Board, Orderly, LocksAreClaimed, HeldBy, SpawnAllowed

LEMMA ServedGrows ==
    ASSUME Board, NEW r \in Runs, served' = served \cup {r}
    PROVE  served' \in SUBSET Runs /\ served \subseteq served' /\ IsFiniteSet(served')
           /\ r \in served'
<1>1. IsFiniteSet(served \cup {r})
  BY FS_AddElement DEF Board, Common, RunsAreServed
<1>2. QED
  BY <1>1 DEF Board, Common, TypeOK

LEMMA RegisterQueuedKeeps ==
    ASSUME Board, NEW p \in Procs, NEW r \in Runs, NEW S \in Claims,
           r \notin served, run[r] = Unregistered, SpawnAllowed(r),
           served' = served \cup {r}, RegisterQueued(p, r, S)
    PROVE  Board' /\ StaysNear
<1> DEFINE row == NewRun("QUEUED", NoFence, S)
<1>1. S \in SUBSET Scopes /\ TypeOK /\ NoFence \in Nat
  BY RequestsAssumption DEF Board, Common, NoFence
<1>2. /\ row \in RunRow /\ WellLeased(row) /\ row.rev = 1 /\ row.scopes = S
      /\ row.expires <= now + Lease /\ ~IsLeased(row) /\ ~IsTerminal(row)
  BY <1>1, NewRunMade
<1>3. Begin(p, {}, [run |-> r, row |-> row]) /\ fences' \in Nat
  BY <1>1 DEF RegisterQueued, TypeOK
<1>4. PutNearby(r, row)
  BY <1>2 DEF PutNearby
<1>5. ASSUME ~dropped PROVE Prepared({}, r, row)
  <2>1. UpdatesOwnRun(r, row) /\ WritesFit({}, r, row) /\ ClosesAfterLocks({}, r, row)
        /\ LeasesAfterLocks({}, r, row)
    BY <1>2 DEF UpdatesOwnRun, WritesFit, ClosesAfterLocks, LeasesAfterLocks
  <2>2. ChecksHold(r, row)
    BY <1>2, <1>5, FreshRun DEF ChecksHold
  <2>3. QED
    BY <2>1, <2>2 DEF Prepared
<1> HIDE DEF row
<1>6. QED
  BY <1>2, <1>3, <1>4, <1>5, ServedGrows, BeginKeeps

LEMMA RegisterLeasedKeeps ==
    ASSUME Board, NEW p \in Procs, NEW r \in Runs, NEW S \in Claims,
           r \notin served, run[r] = Unregistered, SpawnAllowed(r),
           served' = served \cup {r}, RegisterLeased(p, r, S)
    PROVE  Board' /\ StaysNear
<1> DEFINE row == NewRun("STARTING", fences + 1, S)
           W == AcquireWrites(lock, r, S, fences + 1, now)
<1>1. /\ S \in SUBSET Scopes /\ TypeOK /\ fences + 1 \in Nat \ {0} /\ now \in Nat
      /\ lock \in Table
  BY RequestsAssumption DEF Board, Common, TypeOK, Table
<1>2. /\ row \in RunRow /\ WellLeased(row) /\ row.rev = 1 /\ row.scopes = S
      /\ row.fence = fences + 1 /\ row.expires = now + Lease /\ row.expires <= now + Lease
      /\ IsLeased(row) /\ ~IsTerminal(row)
  BY <1>1, NewRunMade
<1>3. Begin(p, W, [run |-> r, row |-> row]) /\ fences' \in Nat
  BY <1>1 DEF RegisterLeased
<1>4. PutNearby(r, row)
  BY <1>2 DEF PutNearby
<1>5. W \in SUBSET Write
  <2>1. ASSUME NEW s \in S
        PROVE  Plain(<<s, r>>, Granted(lock, r, s, fences + 1, now)) \in Write
    <3>1. <<s, r>> \in Keys
      BY <1>1 DEF Keys
    <3>2. CASE Live(lock[<<s, r>>], now)
      BY <1>1, <3>1, <3>2, HeldRow, RowsMade, PlainIsWrite DEF Live, Granted, States
    <3>3. CASE ~Live(lock[<<s, r>>], now)
      BY <1>1, <3>1, <3>3, FreshMade, PlainIsWrite DEF Granted
    <3>4. QED
      BY <3>2, <3>3
  <2>2. QED
    BY <2>1 DEF AcquireWrites
<1>6. ASSUME ~dropped PROVE Prepared(W, r, row)
  <2>1. HeldBy(lock, r) = {}
    BY <1>6, FreshRun
  <2>2. Fits(Fresh(fences + 1, now), row)
    <3>1. Fresh(fences + 1, now).expires = now + Lease /\ now + Lease >= now + Lease
      BY <1>1, FreshMade, LeaseAssumption
    <3>2. QED
      BY <1>1, <1>2, <3>1, FreshMade DEF Fits, Held
  <2>3. ASSUME NEW w \in W
        PROVE  /\ w.key[2] = r /\ w.key[1] \in S /\ w.throws = "never"
               /\ Fits(w.row, row) /\ Holds(w)
    <3>1. w.key[2] = r /\ w.key[1] \in S /\ w.throws = "never" /\ w.row = Fresh(fences + 1, now)
      <4>1. PICK s \in S : w = Plain(<<s, r>>, Granted(lock, r, s, fences + 1, now))
        BY DEF AcquireWrites
      <4>2. <<s, r>> \in Keys /\ Granted(lock, r, s, fences + 1, now) = Fresh(fences + 1, now)
        BY <1>1, <2>1 DEF Keys, HeldBy, Live, Granted
      <4>3. QED
        BY <1>1, <4>1, <4>2, FreshMade, PlainIsWrite
    <3>2. Fits(w.row, row)
      BY <2>2, <3>1
    <3>3. QED
      BY <3>1, <3>2 DEF Holds, Fits
  <2>4. ASSUME NEW s \in S PROVE \E w \in W : w.key = <<s, r>>
    <3>1. Plain(<<s, r>>, Granted(lock, r, s, fences + 1, now)) \in W
      BY DEF AcquireWrites
    <3>2. QED
      BY <3>1 DEF Plain
  <2>5. UpdatesOwnRun(r, row) /\ WritesFit(W, r, row) /\ ClosesAfterLocks(W, r, row)
    BY <1>2, <2>3 DEF UpdatesOwnRun, WritesFit, ClosesAfterLocks
  <2>6. LeasesAfterLocks(W, r, row)
    BY <1>2, <2>3, <2>4 DEF LeasesAfterLocks
  <2>7. ASSUME NEW q \in Runs \ torn, RunLive(q), q # r,
               NEW s \in run[q].scopes, NEW t \in S, Collide(s, t)
        PROVE  FALSE
    <3>1. \A c \in Runs : ~BeingClosed(c)
      BY <1>3, <1>6, LockIsFree DEF Begin
    <3>2. IsLeased(run[q]) /\ run[q] \in RunRow /\ run[q].expires > now
      BY <1>1, <2>7, LiveRow
    <3>3. Fits(lock[<<s, q>>], run[q])
      BY <1>6, <2>7, <3>1 DEF Board, Orderly, InStep
    <3>4. s \in Scopes /\ t \in Scopes /\ <<s, q>> \in Keys
      BY <1>1, <3>2 DEF RunRow, Keys
    <3>5. Live(lock[<<s, q>>], now)
      <4>1. lock[<<s, q>>] \in Row
        BY <1>1, <3>3, <3>4, HeldRow DEF Fits
      <4>2. QED
        BY <1>1, <3>2, <3>3, <4>1 DEF Fits, Live, Row, RunRow
    <3>6. Collide(t, s)
      BY <2>7, <3>4, CollideSymmetric
    <3>7. Blocked(lock, r, S, now)
      BY <2>7, <3>4, <3>5, <3>6 DEF Blocked
    <3>8. QED
      BY <3>7 DEF RegisterLeased
  <2>8. ChecksHold(r, row)
    BY <1>2, <1>6, <2>1, <2>7, FreshRun DEF ChecksHold, ScopesApart
  <2>9. QED
    BY <2>5, <2>6, <2>8 DEF Prepared
<1> HIDE DEF row, W
<1>7. QED
  BY <1>2, <1>3, <1>4, <1>5, <1>6, ServedGrows, BeginKeeps

LEMMA RegisterKeeps ==
    ASSUME Board, NEW p \in Procs, NEW r \in Runs, NEW S \in Claims, Register(p, r, S)
    PROVE  Board' /\ StaysNear
BY RegisterQueuedKeeps, RegisterLeasedKeeps DEF Register

(***************************************************************************)
(* heartbeat_run and terminate_run.                                        *)
(***************************************************************************)
LEMMA EndedMade ==
    ASSUME NEW old \in RunRow, NEW to \in TerminalStates
    PROVE  LET ended == Ended(old, to)
           IN  /\ ended \in RunRow /\ ended.state = to /\ ended.expires = 0
               /\ ended.rev = old.rev + 1 /\ ended.fence = old.fence
               /\ ended.scopes = old.scopes
<1>1. to \in RunStates /\ old.rev + 1 \in Nat \ {0}
  BY DEF RunStates, RunRow
<1>2. QED
  BY <1>1 DEF RunRow, Ended, NoLease

\* Both write one revision on, under the token and the scopes of the run as it is.
LEMMA UpdateIsSound ==
    ASSUME Board, NEW p \in Procs, NEW r \in Runs, IsLeased(run[r]), NEW W \in SUBSET Write,
           NEW row \in RunRow, row.fence = run[r].fence, row.rev = run[r].rev + 1,
           Begin(p, W, [run |-> r, row |-> row]),
           UNCHANGED <<fences, served>>,
           WellLeased(row), row.expires <= now + Lease,
           ~dropped => Prepared(W, r, row)
    PROVE  Board' /\ StaysNear
<1>1. run[r] # Unregistered /\ ~IsTerminal(run[r]) /\ run[r] \in RunRow
  BY LeasedRow DEF Board, Common
<1>2. PutNearby(r, row)
  BY <1>1 DEF PutNearby, RunRow
<1>3. /\ fences' \in Nat /\ served' \in SUBSET Runs /\ served \subseteq served'
      /\ IsFiniteSet(served') /\ r \in served'
  BY <1>1 DEF Board, Common, TypeOK, RunsAreServed
<1>4. QED
  BY <1>2, <1>3, BeginKeeps

LEMMA HeartbeatKeeps ==
    ASSUME Board, NEW p \in Procs, NEW r \in Runs, NEW stalled \in BOOLEAN,
           Heartbeat(p, r, stalled)
    PROVE  Board' /\ StaysNear
<1> DEFINE row == [run[r] EXCEPT !.state = "RUNNING", !.expires = now + Lease,
                                 !.rev = run[r].rev + 1, !.stalled = stalled]
           W == IF run[r].scopes = {} THEN {} ELSE RenewWrites(lock, r, run[r].fence, now)
<1>1. /\ TypeOK /\ now \in Nat /\ now + Lease \in Nat \ {0} /\ now + Lease <= now + Lease
      /\ lock \in Table
  BY LeaseAssumption DEF Board, Common, TypeOK, Table
<1>2. /\ IsLeased(run[r]) /\ run[r] \in RunRow /\ run[r] # Unregistered
      /\ ~IsTerminal(run[r]) /\ RunLive(r) /\ run[r].expires > now
  BY <1>1, LeasedRow, LiveRow DEF Heartbeat, RunLive
<1>3. /\ row \in RunRow /\ row.state = "RUNNING" /\ row.expires = now + Lease
      /\ row.rev = run[r].rev + 1 /\ row.fence = run[r].fence /\ row.scopes = run[r].scopes
  <2>1. /\ run[r].rev + 1 \in Nat \ {0}
        /\ "RUNNING" \in RunStates
    BY <1>2 DEF RunRow, RunStates, LeasedStates
  <2>2. QED
    BY <1>1, <1>2, <2>1 DEF RunRow
<1>4. IsLeased(row) /\ ~IsTerminal(row) /\ WellLeased(row) /\ row.expires <= now + Lease
  BY <1>1, <1>3 DEF IsLeased, IsTerminal, LeasedStates, TerminalStates, WellLeased, NoLease
<1>5. Begin(p, W, [run |-> r, row |-> row]) /\ UNCHANGED <<fences, served>>
  BY DEF Heartbeat
<1>6. ASSUME NEW k \in HeldBy(lock, r)
      PROVE  LET w == RenewWrite(lock, k, run[r].fence, now) IN
             /\ w \in Write /\ w.key = k
             /\ w.throws = "after" => lock[k].expires <= now
             /\ w.throws # "before" => lock[k].fence = run[r].fence
             /\ Holds(w) => w.throws = "never" /\ Fits(w.row, row)
             /\ w.throws = "never" => Holds(w)
             /\ lock[k].fence = run[r].fence /\ ~(lock[k].expires <= now) => w.throws = "never"
  <2> DEFINE w == RenewWrite(lock, k, run[r].fence, now)
  <2>1. k \in Keys /\ Held(lock[k])
    BY DEF HeldBy
  <2>2. /\ w \in Write /\ w.key = k
        /\ w.throws = "before" <=> lock[k].fence # run[r].fence
        /\ w.throws = "after" => lock[k].expires <= now /\ ~Held(w.row)
        /\ w.throws = "never" => /\ Held(w.row) /\ w.row.fence = run[r].fence
                                 /\ w.row.expires = now + Lease
        /\ lock[k].fence = run[r].fence /\ ~(lock[k].expires <= now) => w.throws = "never"
    BY <1>1, <2>1, RenewWriteMade
  <2>3. w.throws = "never" => Fits(w.row, row)
    BY <1>1, <1>3, <2>2 DEF Fits
  <2>4. w.throws \in {"never", "before", "after"}
    BY <2>2 DEF Write
  <2> HIDE DEF w
  <2>5. /\ Holds(w) => w.throws = "never" /\ Fits(w.row, row)
        /\ w.throws = "never" => Holds(w)
    BY <2>2, <2>3, <2>4 DEF Holds
  <2>6. QED
    BY <2>2, <2>5 DEF w
<1>7. ASSUME NEW w \in W
      PROVE  \E k \in HeldBy(lock, r) : w = RenewWrite(lock, k, run[r].fence, now) /\ w.key = k
  BY <1>6 DEF RenewWrites
<1>8. W \in SUBSET Write
  BY <1>6, <1>7
<1>9. ASSUME ~dropped PROVE Prepared(W, r, row)
  <2>1. /\ LocksAreClaimed /\ RunsApart
        /\ r \notin torn => \A s \in run[r].scopes : Fits(lock[<<s, r>>], run[r])
    BY <1>2, <1>5, <1>9, LockIsFree DEF Board, Orderly, InStep, Begin
  <2>2. \A k \in HeldBy(lock, r) : k \in Keys /\ k[2] = r /\ k = <<k[1], r>> /\ k[1] \in row.scopes
    BY <1>2, <1>3, <2>1, KeyParts DEF HeldBy, LocksAreClaimed
  <2>3. UpdatesOwnRun(r, row)
    BY <1>1, <1>2, <1>3, <1>9 DEF UpdatesOwnRun, Board, Common, RunsAreServed
  <2>4. WritesFit(W, r, row) /\ ClosesAfterLocks(W, r, row)
    <3>1. ASSUME NEW w \in W
          PROVE  w.key[2] = r /\ (Holds(w) => w.key[1] \in row.scopes /\ Fits(w.row, row))
      BY <1>6, <1>7, <2>2
    <3>2. QED
      BY <1>4, <3>1 DEF WritesFit, ClosesAfterLocks
  <2>5. ASSUME r \notin torn, NEW k \in HeldBy(lock, r)
        PROVE  lock[k].fence = run[r].fence /\ ~(lock[k].expires <= now)
    <3>1. Fits(lock[k], run[r])
      BY <1>3, <2>1, <2>2, <2>5
    <3>2. lock[k] \in Row
      BY <1>1, <2>2, HeldRow DEF HeldBy
    <3>3. QED
      BY <1>1, <1>2, <3>1, <3>2 DEF Fits, Row, RunRow
  <2>6. LeasesAfterLocks(W, r, row)
    <3> SUFFICES ASSUME r \notin torn
                 PROVE  /\ \A w \in W : Holds(w) /\ w.throws = "never"
                        /\ \A s \in row.scopes : \E w \in W : w.key = <<s, r>> /\ Holds(w)
      BY DEF LeasesAfterLocks
    <3>1. ASSUME NEW w \in W PROVE Holds(w) /\ w.throws = "never"
      BY <1>6, <1>7, <2>5
    <3>2. ASSUME NEW s \in row.scopes PROVE \E w \in W : w.key = <<s, r>> /\ Holds(w)
      <4> DEFINE k == <<s, r>>
      <4>1. k \in HeldBy(lock, r)
        BY <1>2, <1>3, <2>1 DEF HeldBy, Keys, Fits, RunRow
      <4>2. RenewWrite(lock, k, run[r].fence, now) \in W
        BY <1>3, <4>1 DEF RenewWrites
      <4>3. QED
        BY <1>6, <3>1, <4>1, <4>2
    <3>3. QED
      BY <3>1, <3>2
  <2>7. ChecksHold(r, row)
    BY <1>2, <1>3, <2>1, <2>2 DEF ChecksHold, RunsApart
  <2>8. QED
    BY <2>3, <2>4, <2>6, <2>7 DEF Prepared
<1> HIDE DEF row, W
<1>10. QED
  BY <1>2, <1>3, <1>4, <1>5, <1>8, <1>9, UpdateIsSound

LEMMA TerminateKeeps ==
    ASSUME Board, NEW p \in Procs, NEW r \in Runs, NEW to \in Outcomes, Terminate(p, r, to)
    PROVE  Board' /\ StaysNear
<1> DEFINE row == Ended(run[r], to)
           W == IF run[r].scopes = {} THEN {} ELSE ReleaseWrites(lock, r, run[r].fence)
<1>1. /\ TypeOK /\ now \in Nat /\ 0 <= now + Lease /\ lock \in Table /\ to \in TerminalStates
  BY LeaseAssumption, RequestsAssumption DEF Board, Common, TypeOK, Table
<1>2. /\ IsLeased(run[r]) /\ run[r] \in RunRow /\ run[r] # Unregistered
      /\ ~IsTerminal(run[r])
  BY <1>1, LeasedRow DEF Terminate
<1>3. /\ row \in RunRow /\ row.state = to /\ row.expires = 0
      /\ row.rev = run[r].rev + 1 /\ row.fence = run[r].fence /\ row.scopes = run[r].scopes
  BY <1>1, <1>2, EndedMade
<1>4. ~IsLeased(row) /\ IsTerminal(row) /\ WellLeased(row) /\ row.expires <= now + Lease
      /\ row.state # "QUEUED"
  BY <1>1, <1>3 DEF IsLeased, IsTerminal, LeasedStates, TerminalStates, WellLeased, NoLease
<1>5. Begin(p, W, [run |-> r, row |-> row]) /\ UNCHANGED <<fences, served>>
  BY DEF Terminate
<1>6. ASSUME NEW k \in HeldBy(lock, r)
      PROVE  LET w == ReleaseWrite(lock, k, run[r].fence) IN
             w \in Write /\ w.key = k /\ ~Holds(w) /\ w.throws # "after"
  BY <1>1, ReleaseWriteMade DEF HeldBy
<1>7. ASSUME NEW w \in W
      PROVE  \E k \in HeldBy(lock, r) : w = ReleaseWrite(lock, k, run[r].fence) /\ w.key = k
  BY <1>6 DEF ReleaseWrites
<1>8. W \in SUBSET Write
  BY <1>6, <1>7
<1>9. ASSUME ~dropped PROVE Prepared(W, r, row)
  <2>1. \A k \in HeldBy(lock, r) : k[2] = r /\ k[1] \in row.scopes
    BY <1>2, <1>3, <1>9 DEF Board, Orderly, LocksAreClaimed, HeldBy
  <2>2. UpdatesOwnRun(r, row)
    BY <1>2, <1>3, <1>4 DEF UpdatesOwnRun
  <2>3. WritesFit(W, r, row)
    BY <1>6, <1>7, <2>1 DEF WritesFit
  <2>4. ClosesAfterLocks(W, r, row)
    <3>1. ASSUME NEW k \in HeldBy(lock, r) PROVE \E w \in W : w.key = k
      <4>1. run[r].scopes # {}
        BY <1>3, <2>1
      <4>2. ReleaseWrite(lock, k, run[r].fence) \in W
        BY <4>1 DEF ReleaseWrites
      <4>3. QED
        BY <1>6, <4>2
    <3>2. QED
      BY <3>1 DEF ClosesAfterLocks
  <2>5. LeasesAfterLocks(W, r, row) /\ ChecksHold(r, row)
    BY <1>2, <1>4, <2>1 DEF LeasesAfterLocks, ChecksHold
  <2>6. QED
    BY <2>2, <2>3, <2>4, <2>5 DEF Prepared
<1> HIDE DEF row, W
<1>10. QED
  BY <1>2, <1>3, <1>4, <1>5, <1>8, <1>9, UpdateIsSound

(***************************************************************************)
(* The statements of an operation.                                         *)
(***************************************************************************)
LEMMA Returned ==
    ASSUME TypeOK, NEW p \in Procs, Return(p)
    PROVE  /\ \A q \in Procs : todo'[q] = IF q = p THEN {} ELSE todo[q]
           /\ \A q \in Procs : put'[q] = IF q = p THEN NoPut ELSE put[q]
           /\ todo' \in [Procs -> SUBSET Write] /\ put' \in [Procs -> RunPut \cup {NoPut}]
           /\ mutex' \in Procs \cup {NoProc} /\ (mutex # p => mutex' = mutex)
BY DEF TypeOK, Return, ReleaseMutex

LEMMA AbandonKeeps ==
    ASSUME Board, NEW p \in Procs, Abandon(p)
    PROVE  Board' /\ StaysNear
<1>1. /\ run' = run /\ lock' = lock /\ now' = now /\ fences' = fences /\ served' = served
      /\ dropped' = dropped /\ torn' = torn \cup Closing(p) /\ Return(p) /\ TypeOK
  BY DEF Abandon, Board, Common
<1>2. /\ \A q \in Procs : todo'[q] = IF q = p THEN {} ELSE todo[q]
      /\ \A q \in Procs : put'[q] = IF q = p THEN NoPut ELSE put[q]
      /\ mutex # p => mutex' = mutex
  BY <1>1, Returned
<1>3. TypeOK'
  BY <1>1, Returned DEF TypeOK, Closing
<1>4. PutsAreSound' /\ RunsAreServed' /\ StaysNear
  BY <1>1, <1>2 DEF Board, Common, PutsAreSound, PutNearby, RunsAreServed, StaysNear, PutsAreNear
<1>5. ASSUME ~dropped PROVE Orderly'
  <2>1. Serial'
    BY <1>2, <1>5 DEF Board, Orderly, Serial, Busy
  <2>2. LocksAreClaimed'
    BY <1>1, <1>5 DEF Board, Orderly, LocksAreClaimed
  <2>3. InStep'
    <3>1. ASSUME NEW r \in Runs, r \notin torn', ~BeingClosed(r)'
          PROVE  r \notin torn /\ ~BeingClosed(r)
      <4>1. r \notin torn /\ r \notin Closing(p)
        BY <1>1, <3>1
      <4>2. ASSUME NEW q \in Procs, q # p PROVE r \notin Closing(q)
        BY <1>2, <3>1, <4>2 DEF BeingClosed, Closing
      <4>3. QED
        BY <4>1, <4>2 DEF BeingClosed
    <3>2. QED
      BY <1>1, <1>5, <3>1 DEF Board, Orderly, InStep, RunLive, Fits
  <2>4. ClosedHoldNothing' /\ RunsApart' /\ BudgetsKept'
    BY <1>1, <1>5 DEF Board, Orderly, ClosedHoldNothing, HeldBy, RunsApart, RunLive,
                      BudgetsKept, GovernedChildren, ActiveChildren
  <2>5. PutsArePrepared'
    <3> SUFFICES ASSUME NEW q \in Procs
                 PROVE  IF put'[q] = NoPut THEN Sweeping(todo[q])'
                        ELSE Prepared(todo[q], put[q].run, put[q].row)'
      BY DEF PutsArePrepared
    <3>1. CASE q = p \/ ~Busy(q)
      BY <1>2, <3>1 DEF Sweeping, Busy
    <3>2. CASE q # p /\ Busy(q)
      <4>1. torn' = torn /\ todo'[q] = todo[q] /\ put'[q] = put[q]
        BY <1>1, <1>2, <1>5, <3>2, BusyAlone
      <4>2. IF put[q] = NoPut THEN Sweeping(todo[q])
            ELSE Prepared(todo[q], put[q].run, put[q].row)
        BY <1>5 DEF Board, Orderly, PutsArePrepared
      <4>3. CASE put[q] = NoPut
        BY <1>1, <4>1, <4>2, <4>3 DEF Sweeping
      <4>4. CASE put[q] # NoPut
        <5>1. /\ UpdatesOwnRun(put[q].run, put[q].row)'
              /\ WritesFit(todo[q], put[q].run, put[q].row)'
              /\ ClosesAfterLocks(todo[q], put[q].run, put[q].row)'
          BY <1>1, <4>1, <4>2, <4>4
          DEF Prepared, UpdatesOwnRun, WritesFit, ClosesAfterLocks, HeldBy, Fits
        <5>2. LeasesAfterLocks(todo[q], put[q].run, put[q].row)'
          BY <1>1, <4>1, <4>2, <4>4 DEF Prepared, LeasesAfterLocks, Fits
        <5>3. ChecksHold(put[q].run, put[q].row)'
          BY <1>1, <4>1, <4>2, <4>4
          DEF Prepared, ChecksHold, HeldBy, RunLive, ActiveChildren, Governed
        <5>4. QED
          BY <4>1, <4>4, <5>1, <5>2, <5>3 DEF Prepared
      <4>5. QED
        BY <4>3, <4>4
    <3>3. QED
      BY <3>1, <3>2
  <2>6. QED
    BY <2>1, <2>2, <2>3, <2>4, <2>5 DEF Orderly
<1>6. QED
  BY <1>1, <1>3, <1>4, <1>5 DEF Board, Common

\* A lock row is written: one of those that precede a run row, or one of a sweep.
LEMMA WriteLockKeeps ==
    ASSUME Board, NEW p \in Procs, WriteLock(p)
    PROVE  Board' /\ StaysNear
<1> DEFINE W == todo[p]
           r == put[p].run
           row == put[p].row
<1>1. PICK w \in todo[p] :
          /\ w.throws # "before"
          /\ lock' = Put(lock, w.key, w.row)
          /\ IF w.throws = "after"
             THEN Return(p) /\ torn' = torn \cup Closing(p)
             ELSE /\ todo' = [todo EXCEPT ![p] = todo[p] \ {w}]
                  /\ UNCHANGED <<put, mutex, torn>>
  BY DEF WriteLock
<1>2. /\ run' = run /\ now' = now /\ fences' = fences /\ served' = served
      /\ dropped' = dropped /\ TypeOK
  BY DEF WriteLock, Board, Common
<1>3. w \in Write /\ w.key \in Keys /\ w.row \in Row /\ (Holds(w) <=> Held(w.row))
  BY <1>1, <1>2 DEF TypeOK, Write, Holds
<1>4. /\ lock' \in [Keys -> Row \cup {Absent}]
      /\ \A k \in Keys : lock'[k] = IF k = w.key THEN w.row ELSE lock[k]
  BY <1>1, <1>2, <1>3 DEF TypeOK, Put
<1>5. /\ \A q \in Procs \ {p} : todo'[q] = todo[q] /\ put'[q] = put[q]
      /\ w.throws = "after" => put'[p] = NoPut /\ todo'[p] = {}
      /\ w.throws # "after" => put' = put /\ todo'[p] = W \ {w} /\ mutex' = mutex /\ torn' = torn
      /\ torn \subseteq torn' /\ torn' \subseteq torn \cup Closing(p)
  BY <1>1, <1>2, Returned DEF TypeOK
<1>6. TypeOK'
  <2>1. CASE w.throws = "after"
    BY <1>1, <1>2, <1>4, <2>1, Returned DEF TypeOK, Closing
  <2>2. CASE w.throws # "after"
    BY <1>1, <1>2, <1>4, <2>2 DEF TypeOK
  <2>3. QED
    BY <2>1, <2>2
<1>7. \A q \in Procs : put'[q] # NoPut => put'[q] = put[q]
  BY <1>5
<1>8. PutsAreSound' /\ RunsAreServed' /\ StaysNear
  <2>1. RunsAreServed'
    BY <1>2 DEF Board, Common, RunsAreServed
  <2>2. PutsAreSound'
    BY <1>2, <1>7 DEF Board, Common, PutsAreSound
  <2>3. StaysNear
    BY <1>2, <1>7 DEF StaysNear, PutsAreNear, PutNearby
  <2>4. QED
    BY <2>1, <2>2, <2>3
<1>9. ASSUME ~dropped
      PROVE  /\ mutex = p
             /\ \A q \in Procs \ {p} : put[q] = NoPut /\ todo[q] = {} /\ Closing(q) = {}
             /\ Serial' /\ RunsApart' /\ BudgetsKept'
  <2>1. /\ mutex = p
        /\ \A q \in Procs \ {p} : put[q] = NoPut /\ todo[q] = {} /\ Closing(q) = {}
    BY <1>1, <1>9, BusyAlone DEF Busy
  <2>2. Serial'
    BY <1>5, <2>1 DEF Serial, Busy
  <2>3. RunsApart' /\ BudgetsKept'
    BY <1>2, <1>5, <1>9 DEF Board, Orderly, RunsApart, RunLive, BudgetsKept,
                GovernedChildren, ActiveChildren
  <2>4. QED
    BY <2>1, <2>2, <2>3
<1>10. ASSUME ~dropped, put[p] # NoPut
       PROVE  LocksAreClaimed' /\ InStep' /\ ClosedHoldNothing' /\ PutsArePrepared'
  <2>1. r \in Runs /\ row \in RunRow /\ r \in served
    BY <1>2, <1>10, PendingRow DEF Board, Common, PutsAreSound
  <2>2. /\ UpdatesOwnRun(r, row) /\ WritesFit(W, r, row) /\ ClosesAfterLocks(W, r, row)
        /\ LeasesAfterLocks(W, r, row) /\ ChecksHold(r, row)
    BY <1>10 DEF Board, Orderly, PutsArePrepared, Prepared
  <2>3. /\ w.key[2] = r
        /\ Held(w.row) => IsLeased(row) /\ w.key[1] \in row.scopes /\ Fits(w.row, row)
    BY <1>1, <1>3, <2>2 DEF WritesFit
  <2>4. IsTerminal(row) => ~IsLeased(row)
    BY DEF IsTerminal, IsLeased, TerminalStates, LeasedStates
  <2>5. LocksAreClaimed'
    <3> SUFFICES ASSUME NEW k \in Keys, Held(lock'[k])
                 PROVE  k[2] \in served /\ (run[k[2]] # Unregistered => k[1] \in run[k[2]].scopes)
      BY <1>2 DEF LocksAreClaimed
    <3>1. CASE k = w.key
      BY <1>4, <2>1, <2>2, <2>3, <3>1 DEF UpdatesOwnRun
    <3>2. CASE k # w.key
      BY <1>4, <1>10, <3>2 DEF Board, Orderly, LocksAreClaimed
    <3>3. QED
      BY <3>1, <3>2
  <2>6. InStep'
    <3> SUFFICES ASSUME NEW c \in Runs, RunLive(c), c \notin torn', ~BeingClosed(c)',
                        NEW s \in run[c].scopes
                 PROVE  Fits(lock'[<<s, c>>], run[c])
      BY <1>2 DEF InStep, Fits, RunLive
    <3>1. run[c] \in RunRow /\ run[c] # Unregistered /\ ~IsTerminal(run[c]) /\ <<s, c>> \in Keys
      BY <1>2, LeasedRow DEF RunLive, RunRow, Keys
    <3>2. c \notin torn /\ c \notin Closing(p)
      BY <1>1, <1>5 DEF BeingClosed, Closing
    <3>3. ~BeingClosed(c)
      BY <1>9, <1>10, <3>2 DEF BeingClosed
    <3>4. CASE <<s, c>> # w.key
      BY <1>4, <1>10, <3>1, <3>2, <3>3, <3>4 DEF Board, Orderly, InStep
    <3>5. CASE <<s, c>> = w.key
      <4>1. c = r
        BY <2>3, <3>5
      <4>2. ~IsTerminal(row)
        BY <1>10, <3>2, <4>1 DEF Closing
      <4>3. IsLeased(row) /\ row.fence = run[c].fence /\ run[c].expires <= row.expires
        BY <2>1, <2>2, <3>1, <4>1, <4>2 DEF UpdatesOwnRun, RunRow, RunStates, IsLeased, IsTerminal
      <4>4. Held(w.row) /\ Fits(w.row, row)
        BY <1>1, <1>3, <2>2, <2>3, <3>2, <4>1, <4>3 DEF LeasesAfterLocks
      <4>5. QED
        BY <1>3, <1>4, <2>1, <3>1, <3>5, <4>3, <4>4 DEF Fits, Row, RunRow
    <3>6. QED
      BY <3>4, <3>5
  <2>7. ClosedHoldNothing'
    <3> SUFFICES ASSUME NEW c \in Runs, IsTerminal(run[c]), NEW k \in Keys,
                        k[2] = c, Held(lock'[k])
                 PROVE  FALSE
      BY <1>2 DEF ClosedHoldNothing, HeldBy
    <3>1. run[c] # Unregistered
      BY UnregisteredIsNoRow
    <3>2. CASE k = w.key
      BY <1>4, <2>2, <2>3, <2>4, <3>1, <3>2 DEF UpdatesOwnRun, IsTerminal
    <3>3. CASE k # w.key
      BY <1>4, <1>10, <3>3 DEF Board, Orderly, ClosedHoldNothing, HeldBy
    <3>4. QED
      BY <3>2, <3>3
  <2>8. PutsArePrepared'
    <3>1. ASSUME NEW q \in Procs, put'[q] = NoPut PROVE todo'[q] = {}
      BY <1>5, <1>9, <1>10, <3>1
    <3>2. ASSUME NEW q \in Procs, put'[q] # NoPut PROVE q = p /\ w.throws # "after"
      BY <1>5, <1>9, <1>10, <3>2
    <3>3. ASSUME w.throws # "after" PROVE Prepared(todo[p], put[p].run, put[p].row)'
      <4>1. put' = put /\ todo'[p] = W \ {w} /\ torn' = torn
        BY <1>5, <3>3
      <4>2. UpdatesOwnRun(put[p].run, put[p].row)'
        BY <1>2, <2>2, <4>1 DEF UpdatesOwnRun
      <4>3. WritesFit(todo[p], put[p].run, put[p].row)'
        BY <2>2, <4>1 DEF WritesFit
      <4>4. ClosesAfterLocks(todo[p], put[p].run, put[p].row)'
        <5> SUFFICES ASSUME IsTerminal(row), NEW k \in Keys, k[2] = r, Held(lock'[k])
                     PROVE  \E v \in W \ {w} : v.key = k
          BY <4>1 DEF ClosesAfterLocks, HeldBy
        <5>1. k # w.key
          BY <1>4, <2>3, <2>4
        <5>2. k \in HeldBy(lock, r)
          BY <1>4, <5>1 DEF HeldBy
        <5>3. QED
          BY <2>2, <5>1, <5>2 DEF ClosesAfterLocks
      <4>5. LeasesAfterLocks(todo[p], put[p].run, put[p].row)'
        <5> SUFFICES ASSUME IsLeased(row), r \notin torn
                     PROVE  /\ \A v \in W \ {w} : v.throws # "before" =>
                                  Holds(v) /\ v.throws = "never"
                            /\ \A s \in row.scopes :
                                  \/ Fits(lock'[<<s, r>>], row)
                                  \/ \E v \in W \ {w} : v.key = <<s, r>> /\ Holds(v)
                                  \/ \E v \in W \ {w} : v.throws = "before"
          BY <4>1 DEF LeasesAfterLocks, Fits
        <5>1. Holds(w) /\ Fits(w.row, row)
          BY <1>1, <1>3, <2>2, <2>3 DEF LeasesAfterLocks
        <5>2. ASSUME NEW s \in row.scopes
              PROVE  \/ Fits(lock'[<<s, r>>], row)
                     \/ \E v \in W \ {w} : v.key = <<s, r>> /\ Holds(v)
                     \/ \E v \in W \ {w} : v.throws = "before"
          <6>1. <<s, r>> \in Keys
            BY <2>1 DEF Keys, RunRow
          <6>2. CASE <<s, r>> = w.key
            BY <1>4, <5>1, <6>1, <6>2
          <6>3. CASE <<s, r>> # w.key
            BY <1>1, <1>4, <2>2, <6>1, <6>3 DEF LeasesAfterLocks
          <6>4. QED
            BY <6>2, <6>3
        <5>3. QED
          BY <2>2, <5>2 DEF LeasesAfterLocks
      <4>6. ChecksHold(put[p].run, put[p].row)'
        <5>1. ~IsTerminal(row) => \A k \in Keys : k[2] = r /\ Held(lock'[k]) => k[1] \in row.scopes
          BY <1>4, <2>2, <2>3 DEF ChecksHold, HeldBy
        <5>2. QED
          BY <1>2, <2>2, <4>1, <5>1 DEF ChecksHold, HeldBy, RunLive, ActiveChildren
      <4>7. QED
        BY <4>2, <4>3, <4>4, <4>5, <4>6 DEF Prepared
    <3>4. QED
      BY <3>1, <3>2, <3>3 DEF PutsArePrepared, Sweeping
  <2>9. QED
    BY <2>5, <2>6, <2>7, <2>8
<1>11. ASSUME ~dropped, put[p] = NoPut
       PROVE  LocksAreClaimed' /\ InStep' /\ ClosedHoldNothing' /\ PutsArePrepared'
  <2>1. /\ Sweeping(todo[p]) /\ torn' = torn /\ \A q \in Procs : put'[q] = put[q]
        /\ \A c \in Runs : ~BeingClosed(c)
    <3>1. Sweeping(todo[p])
      BY <1>11 DEF Board, Orderly, PutsArePrepared
    <3>2. torn' = torn
      BY <1>5, <1>11 DEF Closing
    <3>3. \A q \in Procs : put'[q] = put[q]
      BY <1>5, <1>11
    <3>4. \A c \in Runs : ~BeingClosed(c)
      BY <1>9, <1>11, NobodyCloses
    <3>5. QED
      BY <3>1, <3>2, <3>3, <3>4
  <2>2. \A k \in Keys : Held(lock'[k]) => k # w.key /\ lock'[k] = lock[k]
    BY <1>1, <1>4, <2>1 DEF Sweeping
  <2>3. LocksAreClaimed' /\ ClosedHoldNothing'
    BY <1>2, <1>11, <2>2 DEF Board, Orderly, LocksAreClaimed, ClosedHoldNothing, HeldBy
  <2>4. InStep'
    <3> SUFFICES ASSUME NEW c \in Runs, RunLive(c), c \notin torn, NEW s \in run[c].scopes
                 PROVE  Fits(lock'[<<s, c>>], run[c])
      BY <1>2, <2>1 DEF InStep, Fits, RunLive
    <3>1. run[c] \in RunRow /\ run[c].expires > now /\ <<s, c>> \in Keys /\ now \in Nat
      BY <1>2, LiveRow DEF RunRow, Keys, TypeOK
    <3>2. Fits(lock[<<s, c>>], run[c])
      BY <1>11, <2>1 DEF Board, Orderly, InStep
    <3>3. lock[<<s, c>>] \in Row
      BY <1>2, <3>1, <3>2, HeldRow DEF Fits, TypeOK, Table
    <3>4. <<s, c>> # w.key
      BY <1>1, <2>1, <3>1, <3>2, <3>3 DEF Sweeping, Fits, Row, RunRow
    <3>5. QED
      BY <1>4, <3>1, <3>2, <3>4
  <2>5. PutsArePrepared'
    <3> SUFFICES ASSUME NEW q \in Procs, put[q] = NoPut, NEW v \in todo'[q]
                 PROVE  ~Held(v.row) /\ (Held(lock'[v.key]) => lock'[v.key].expires <= now)
      BY <1>2, <1>9, <1>11, <2>1 DEF PutsArePrepared, Sweeping
    <3>1. q = p /\ v \in todo[p]
      BY <1>5, <1>9, <1>11
    <3>2. v.key \in Keys
      BY <1>2, <3>1 DEF TypeOK, Write
    <3>3. QED
      BY <2>1, <2>2, <3>1, <3>2 DEF Sweeping
  <2>6. QED
    BY <2>3, <2>4, <2>5
<1>12. QED
  BY <1>2, <1>6, <1>8, <1>9, <1>10, <1>11 DEF Board, Common, Orderly

\* The children of a run are finitely many: each was served.
LEMMA ChildrenAreFinite ==
    ASSUME Board, NEW q
    PROVE  /\ IsFiniteSet(ActiveChildren(q)) /\ Cardinality(ActiveChildren(q)) \in Nat
           /\ IsFiniteSet(GovernedChildren(q)) /\ Cardinality(GovernedChildren(q)) \in Nat
           /\ Cardinality(GovernedChildren(q)) <= Cardinality(ActiveChildren(q))
<1>1. ActiveChildren(q) \subseteq served /\ IsFiniteSet(served)
  BY DEF Board, Common, RunsAreServed, ActiveChildren
<1>2. GovernedChildren(q) \subseteq ActiveChildren(q)
  BY DEF GovernedChildren
<1>3. QED
  BY <1>1, <1>2, FS_Subset, FS_CardinalityType

\* The run row is written, after the last of its locks: the end of a registry
\* operation, or of an item of a reconcile plan.
LEMMA RowWritten ==
    ASSUME Board, NEW p \in Procs, todo[p] = {}, put[p] # NoPut,
           RunPutAllowed(put[p].run, put[p].row),
           run' = [run EXCEPT ![put[p].run] = put[p].row],
           lock' = lock, now' = now, fences' = fences, served' = served, torn' = torn,
           dropped' = dropped, mutex' \in Procs \cup {NoProc},
           todo' = [todo EXCEPT ![p] = {}], put' = [put EXCEPT ![p] = NoPut]
    PROVE  /\ Board' /\ StaysNear /\ SpawnStep
           /\ PutsAreNear \/ ~dropped => FirstTerminalStep
<1> DEFINE r == put[p].run
           row == put[p].row
<1>1. TypeOK
  BY DEF Board, Common
<1>2. r \in Runs /\ row \in RunRow /\ row # Unregistered
  BY <1>1, PendingRow, UnregisteredIsNoRow
<1>3. \A c \in Runs : run'[c] = IF c = r THEN row ELSE run[c]
  BY <1>1, <1>2 DEF TypeOK
<1>4. /\ \A q \in Procs : todo'[q] = IF q = p THEN {} ELSE todo[q]
      /\ \A q \in Procs : put'[q] = IF q = p THEN NoPut ELSE put[q]
  BY <1>1 DEF TypeOK
<1>5. r \in served /\ WellLeased(row) /\ row.expires <= now + Lease
  BY DEF Board, Common, PutsAreSound
<1>6. run[r] # Unregistered =>
          run[r] \in RunRow /\ run[r].fence = row.fence /\ run[r].rev < row.rev
  BY <1>1, <1>2 DEF TypeOK, RunPutAllowed
<1>7. PutsAreNear => FirstTerminalStep
  <2> SUFFICES ASSUME PutsAreNear, NEW c \in Runs, IsTerminal(run[c])
               PROVE  run'[c].state = run[c].state
    BY DEF FirstTerminalStep
  <2>1. run[c] # Unregistered /\ PutNearby(r, row)
    BY UnregisteredIsNoRow DEF PutsAreNear
  <2>2. c # r
    BY <1>2, <1>6, <2>1 DEF PutNearby, RunRow
  <2>3. QED
    BY <1>3, <2>2
<1>8. TypeOK'
  <2>1. run' \in [Runs -> RunRow \cup {Unregistered}]
    BY <1>1, <1>2 DEF TypeOK
  <2>2. \A c \in Runs : run'[c].expires # NoLease <=> IsLeased(run'[c])
    BY <1>1, <1>3, <1>5 DEF TypeOK, WellLeased
  <2>3. QED
    BY <1>1, <2>1, <2>2 DEF TypeOK
<1>9. PutsAreSound' /\ RunsAreServed'
  BY <1>3, <1>4, <1>5 DEF Board, Common, PutsAreSound, RunsAreServed
<1>10. StaysNear
  <2> SUFFICES ASSUME PutsAreNear, NEW q \in Procs, put'[q] # NoPut
               PROVE  PutNearby(put[q].run, put[q].row)'
    BY DEF StaysNear, PutsAreNear
  <2> DEFINE c == put[q].run
             new == put[q].row
  <2>1. put'[q] = put[q] /\ c \in Runs /\ new \in RunRow /\ PutNearby(c, new)
    BY <1>1, <1>4, PendingRow DEF PutsAreNear
  <2> SUFFICES IF run'[c] = Unregistered
               THEN new.rev = 1
               ELSE run'[c].fence = new.fence =>
                       /\ new.rev <= run'[c].rev + 1
                       /\ IsTerminal(run'[c]) => new.rev <= run'[c].rev
    BY <2>1 DEF PutNearby
  <2>2. CASE c # r
    BY <1>3, <2>1, <2>2 DEF PutNearby
  <2>3. CASE c = r /\ run[r] = Unregistered
    BY <1>2, <1>3, <2>1, <2>3 DEF PutNearby, RunRow
  <2>4. CASE c = r /\ run[r] # Unregistered
    BY <1>2, <1>3, <1>6, <2>1, <2>4 DEF PutNearby, RunRow
  <2>5. QED
    BY <2>2, <2>3, <2>4
<1>11. ASSUME ~dropped PROVE Orderly' /\ FirstTerminalStep /\ SpawnStep
  <2>1. \A q \in Procs \ {p} : put[q] = NoPut /\ todo[q] = {} /\ Closing(q) = {}
    BY <1>11, BusyAlone DEF Busy
  <2>2. /\ UpdatesOwnRun(r, row) /\ ClosesAfterLocks({}, r, row)
        /\ LeasesAfterLocks({}, r, row) /\ ChecksHold(r, row)
    BY <1>11 DEF Board, Orderly, PutsArePrepared, Prepared
  <2>3. Serial' /\ PutsArePrepared'
    BY <1>4, <2>1 DEF Serial, Busy, PutsArePrepared, Sweeping
  <2>4. FirstTerminalStep
    BY <1>3, <2>2, UnregisteredIsNoRow DEF FirstTerminalStep, UpdatesOwnRun
  <2>5. LocksAreClaimed'
    <3> SUFFICES ASSUME NEW k \in Keys, Held(lock[k])
                 PROVE  /\ k[2] \in served
                        /\ run'[k[2]] # Unregistered => k[1] \in run'[k[2]].scopes
      BY DEF LocksAreClaimed
    <3>1. CASE k[2] = r
      <4>1. ~IsTerminal(row)
        BY <2>2, <3>1 DEF ClosesAfterLocks, HeldBy
      <4>2. QED
        BY <1>2, <1>3, <1>5, <2>2, <3>1, <4>1 DEF ChecksHold, HeldBy
    <3>2. CASE k[2] # r
      BY <1>3, <1>11, <3>2, KeyParts DEF Board, Orderly, LocksAreClaimed
    <3>3. QED
      BY <3>1, <3>2
  <2>6. InStep'
    <3> SUFFICES ASSUME NEW c \in Runs, RunLive(c)', c \notin torn, NEW s \in run'[c].scopes
                 PROVE  Fits(lock[<<s, c>>], run'[c])
      BY DEF InStep, Fits
    <3>1. CASE c = r
      BY <1>3, <2>2, <3>1 DEF LeasesAfterLocks, RunLive
    <3>2. CASE c # r
      <4>1. ~BeingClosed(c)
        BY <2>1, <3>2 DEF BeingClosed, Closing
      <4>2. QED
        BY <1>3, <1>11, <3>2, <4>1 DEF Board, Orderly, InStep, RunLive
    <3>3. QED
      BY <3>1, <3>2
  <2>7. ClosedHoldNothing'
    BY <1>3, <1>11, <2>2 DEF Board, Orderly, ClosedHoldNothing, ClosesAfterLocks, HeldBy
  <2>8. RunsApart'
    <3> SUFFICES ASSUME NEW b \in Runs \ torn, NEW c \in Runs \ torn, b # c,
                        IsLeased(run'[b]), ~LeaseOut(run'[b], now),
                        IsLeased(run'[c]), ~LeaseOut(run'[c], now),
                        NEW s \in run'[b].scopes, NEW t \in run'[c].scopes, Collide(s, t)
                 PROVE  FALSE
      BY DEF RunsApart, RunLive, ScopesApart
    <3>1. CASE b # r /\ c # r
      BY <1>3, <1>11, <3>1 DEF Board, Orderly, RunsApart, RunLive, ScopesApart
    <3>2. CASE c = r
      BY <1>3, <2>2, <3>2 DEF ChecksHold, RunLive, ScopesApart
    <3>3. CASE b = r
      <4>1. s \in Scopes /\ t \in Scopes
        BY <1>8, UnregisteredIsNoRow DEF TypeOK, RunRow, Unregistered
      <4>2. Collide(t, s)
        BY <4>1, CollideSymmetric
      <4>3. QED
        BY <1>3, <2>2, <3>3, <4>2 DEF ChecksHold, RunLive, ScopesApart
    <3>4. QED
      BY <3>1, <3>2, <3>3
  <2>9. SpawnStep
    BY <1>3, <2>2, UnregisteredIsNoRow DEF SpawnStep, ChecksHold
  <2>10. BudgetsKept'
    <3> SUFFICES ASSUME NEW q \in Runs PROVE Cardinality(GovernedChildren(q)') <= Budget[q]
      BY DEF BudgetsKept
    <3> DEFINE A == GovernedChildren(q)
               B == GovernedChildren(q)'
    <3>1. IsFiniteSet(A) /\ Cardinality(A) \in Nat /\ Cardinality(A) <= Budget[q]
      BY <1>11, ChildrenAreFinite DEF Board, Orderly, BudgetsKept
    <3>2. Budget[q] \in Nat
      BY HierarchyAssumption
    <3>3. CASE B \subseteq A
      BY <3>1, <3>2, <3>3, FS_Subset, FS_CardinalityType
    <3>4. CASE ~(B \subseteq A)
      <4>1. B \subseteq A \cup {r} /\ r \in B /\ r \notin A
        BY <1>3, <3>4 DEF GovernedChildren, ActiveChildren
      <4>2. Parent[r] = q /\ ~IsTerminal(row) /\ Governed(r)
        BY <1>3, <4>1 DEF GovernedChildren, ActiveChildren
      <4>3. run[r] = Unregistered
        BY <2>2, <4>1, <4>2 DEF GovernedChildren, ActiveChildren, UpdatesOwnRun, IsTerminal
      <4>4. Cardinality(ActiveChildren(q)) < Budget[q]
        BY <2>2, <4>2, <4>3 DEF ChecksHold
      <4>5. Cardinality(A) < Budget[q]
        BY <3>2, <4>4, ChildrenAreFinite
      <4>6. IsFiniteSet(A \cup {r}) /\ Cardinality(A \cup {r}) = Cardinality(A) + 1
        BY <3>1, <4>1, FS_AddElement
      <4>7. Cardinality(B) <= Cardinality(A \cup {r}) /\ Cardinality(B) \in Nat
        BY <4>1, <4>6, FS_Subset, FS_CardinalityType
      <4>8. QED
        BY <3>1, <3>2, <4>5, <4>6, <4>7
    <3>5. QED
      BY <3>3, <3>4
  <2>11. QED
    BY <2>3, <2>4, <2>5, <2>6, <2>7, <2>8, <2>9, <2>10 DEF Orderly
<1>12. SpawnStep
  BY <1>11 DEF SpawnStep
<1>13. QED
  BY <1>7, <1>8, <1>9, <1>10, <1>11, <1>12 DEF Board, Common

LEMMA WriteRunKeeps ==
    ASSUME Board, NEW p \in Procs, WriteRun(p)
    PROVE  /\ Board' /\ StaysNear /\ SpawnStep
           /\ PutsAreNear \/ ~dropped => FirstTerminalStep
<1>1. mutex' \in Procs \cup {NoProc}
  BY DEF WriteRun, Return, ReleaseMutex, Board, Common, TypeOK
<1>2. QED
  BY <1>1, RowWritten DEF WriteRun, Return

LEMMA DropMutexKeeps ==
    ASSUME Board, NEW p \in Procs, DropMutex(p)
    PROVE  Board' /\ StaysNear
<1>1. /\ run' = run /\ lock' = lock /\ todo' = todo /\ put' = put /\ now' = now
      /\ fences' = fences /\ served' = served /\ torn' = torn /\ mutex' = NoProc
      /\ dropped' = TRUE
  BY DEF DropMutex
<1>2. Common' /\ StaysNear
  BY <1>1 DEF Board, Common, TypeOK, PutsAreSound, RunsAreServed, StaysNear, PutsAreNear,
              PutNearby
<1>3. QED
  BY <1>1, <1>2 DEF Board

LEMMA TickKeeps ==
    ASSUME Board, Tick
    PROVE  Board' /\ StaysNear
<1>1. /\ run' = run /\ lock' = lock /\ todo' = todo /\ put' = put /\ mutex' = mutex
      /\ fences' = fences /\ served' = served /\ torn' = torn /\ dropped' = dropped
      /\ now' = now + 1 /\ now \in Nat /\ TypeOK
  BY DEF Tick, Board, Common, TypeOK
<1>2. TypeOK' /\ StaysNear
  BY <1>1 DEF TypeOK, StaysNear, PutsAreNear, PutNearby
<1>3. /\ \A r \in Runs : run[r].expires \in Nat
      /\ \A p \in Procs : put[p] # NoPut => put[p].row.expires \in Nat
  <2>1. \A r \in Runs : run[r].expires \in Nat
    BY <1>1 DEF TypeOK, RunRow, Unregistered, NoLease
  <2>2. QED
    BY <1>1, <2>1, PendingRow DEF RunRow
<1>4. ASSUME NEW e \in Nat, e <= now + Lease PROVE e <= now' + Lease
  BY <1>1, <1>4, LeaseAssumption
<1>5. PutsAreSound'
  <2> SUFFICES ASSUME NEW q \in Procs, put[q] # NoPut
               PROVE  put[q].row.expires <= now' + Lease
    BY <1>1 DEF Board, Common, PutsAreSound
  <2>1. QED
    BY <1>3, <1>4 DEF Board, Common, PutsAreSound
<1>6. RunsAreServed'
  BY <1>1, <1>3, <1>4 DEF Board, Common, RunsAreServed
<1>7. ASSUME ~dropped PROVE Orderly'
  <2>1. ASSUME NEW r \in Runs, RunLive(r)' PROVE RunLive(r)
    BY <1>1, <1>3, <2>1 DEF RunLive, LeaseOut
  <2>2. Serial' /\ LocksAreClaimed' /\ ClosedHoldNothing' /\ BudgetsKept'
    BY <1>1, <1>7 DEF Board, Orderly, Serial, Busy, LocksAreClaimed,
                      ClosedHoldNothing, HeldBy, BudgetsKept, GovernedChildren, ActiveChildren
  <2>3. InStep'
    <3> SUFFICES ASSUME NEW r \in Runs, RunLive(r)', r \notin torn, ~BeingClosed(r)',
                        NEW s \in run[r].scopes
                 PROVE  Fits(lock[<<s, r>>], run[r])
      BY <1>1 DEF InStep, Fits
    <3>1. RunLive(r) /\ ~BeingClosed(r)
      BY <1>1, <2>1 DEF BeingClosed, Closing
    <3>2. QED
      BY <1>7, <3>1 DEF Board, Orderly, InStep
  <2>4. RunsApart'
    <3> SUFFICES ASSUME NEW q \in Runs \ torn, NEW r \in Runs \ torn,
                        RunLive(q)', RunLive(r)', q # r
                 PROVE  ScopesApart(run[q].scopes, run[r].scopes)
      BY <1>1 DEF RunsApart
    <3>1. QED
      BY <1>7, <2>1 DEF Board, Orderly, RunsApart
  <2>5. ASSUME NEW p \in Procs, put[p] # NoPut
        PROVE  Prepared(todo[p], put[p].run, put[p].row)'
    <3>1. Prepared(todo[p], put[p].run, put[p].row)
      BY <1>7, <2>5 DEF Board, Orderly, PutsArePrepared
    <3>2. ChecksHold(put[p].run, put[p].row)'
      BY <1>1, <2>1, <3>1 DEF Prepared, ChecksHold, HeldBy, ActiveChildren
    <3>3. QED
      BY <1>1, <3>1, <3>2 DEF Prepared, UpdatesOwnRun, WritesFit, ClosesAfterLocks, HeldBy,
                              LeasesAfterLocks, Fits
  <2>6. ASSUME NEW p \in Procs, put[p] = NoPut PROVE Sweeping(todo[p])'
    <3> SUFFICES ASSUME NEW w \in todo[p], Held(lock[w.key]) PROVE lock[w.key].expires <= now + 1
      BY <1>1, <1>7, <2>6 DEF Board, Orderly, PutsArePrepared, Sweeping
    <3>1. lock[w.key].expires <= now
      BY <1>7, <2>6 DEF Board, Orderly, PutsArePrepared, Sweeping
    <3>2. w.key \in Keys /\ lock \in Table
      BY <1>1 DEF TypeOK, Write, Table
    <3>3. lock[w.key].expires \in Nat
      BY <3>2, HeldRow DEF Row
    <3>4. QED
      BY <1>1, <3>1, <3>3
  <2>7. QED
    BY <1>1, <2>2, <2>3, <2>4, <2>5, <2>6 DEF Orderly, PutsArePrepared
<1>8. QED
  BY <1>1, <1>2, <1>5, <1>6, <1>7 DEF Board, Common

\* A step that leaves the board alone, and the mutex of a process at work.
LEMMA BoardUntouched ==
    ASSUME Board,
           UNCHANGED <<run, lock, todo, put, now, fences, served, torn, dropped>>,
           mutex' \in Procs \cup {NoProc},
           \A p \in Procs : Busy(p) /\ mutex = p => mutex' = p
    PROVE  Board' /\ StaysNear
<1>1. Common' /\ StaysNear
  BY DEF Board, Common, TypeOK, PutsAreSound, RunsAreServed, StaysNear, PutsAreNear,
              PutNearby
<1>2. ASSUME ~dropped PROVE Orderly'
  <2>1. Serial'
    BY <1>2 DEF Board, Orderly, Serial, Busy
  <2>2. LocksAreClaimed' /\ InStep' /\ ClosedHoldNothing' /\ RunsApart' /\ BudgetsKept'
    BY <1>2 DEF Board, Orderly, LocksAreClaimed, InStep, Fits, BeingClosed, Closing,
                ClosedHoldNothing, HeldBy, RunsApart, RunLive, BudgetsKept,
                GovernedChildren, ActiveChildren
  <2>3. ASSUME NEW q \in Procs
        PROVE  (IF put[q] = NoPut THEN Sweeping(todo[q])
                ELSE Prepared(todo[q], put[q].run, put[q].row))'
    <3>1. IF put[q] = NoPut THEN Sweeping(todo[q])
          ELSE Prepared(todo[q], put[q].run, put[q].row)
      BY <1>2 DEF Board, Orderly, PutsArePrepared
    <3>2. QED
      BY <3>1
      DEF Prepared, UpdatesOwnRun, WritesFit, ClosesAfterLocks, HeldBy,
          LeasesAfterLocks, Fits, ChecksHold, RunLive, ActiveChildren, Governed, Sweeping
  <2>4. QED
    BY <2>1, <2>2, <2>3 DEF Orderly, PutsArePrepared
<1>3. QED
  BY <1>1, <1>2 DEF Board

(***************************************************************************)
(* Every behaviour.                                                        *)
(***************************************************************************)
LEMMA InitInv == Init => IInv
<1> SUFFICES ASSUME Init PROVE IInv
  OBVIOUS
<1>1. /\ \A r \in Runs : run[r] = Unregistered
      /\ \A k \in Keys : lock[k] = Absent
      /\ \A p \in Procs : todo[p] = {} /\ put[p] = NoPut
      /\ served = {} /\ torn = {} /\ now = 0
  BY DEF Init
<1>2. Unregistered.expires = 0 /\ ~IsLeased(Unregistered) /\ ~IsTerminal(Unregistered)
  BY UnregisteredIsNoRow DEF Unregistered, NoLease
<1>3. TypeOK
  BY <1>2 DEF Init, TypeOK, NoLease
<1>4. PutsAreSound /\ RunsAreServed /\ PutsAreNear
  BY <1>1, <1>2, FS_EmptySet, LeaseAssumption DEF PutsAreSound, RunsAreServed, PutsAreNear
<1>5. Serial /\ LocksAreClaimed /\ InStep /\ ClosedHoldNothing /\ RunsApart /\ PutsArePrepared
  BY <1>1, <1>2 DEF Serial, Busy, LocksAreClaimed, InStep, ClosedHoldNothing, RunsApart,
                    RunLive, PutsArePrepared, Sweeping, Held, Absent
<1>6. BudgetsKept
  <2>1. \A q \in Runs : GovernedChildren(q) = {}
    BY <1>1 DEF ActiveChildren, GovernedChildren
  <2>2. QED
    BY <2>1, FS_EmptySet, HierarchyAssumption DEF BudgetsKept
<1>7. QED
  BY <1>3, <1>4, <1>5, <1>6 DEF Board, Common, Orderly, IInv

\* A step that writes no run row adds no child.
LEMMA NothingSpawned ==
    ASSUME UNCHANGED run
    PROVE  SpawnStep
<1>1. run' = run
  OBVIOUS
<1>2. QED
  BY <1>1 DEF SpawnStep

\* A step of the registry, in any process.
LEMMA RegistryKeeps ==
    ASSUME Board, Tick \/ \E p \in Procs : Request(p) \/ Statement(p)
    PROVE  /\ Board' /\ StaysNear /\ SpawnStep
           /\ PutsAreNear \/ ~dropped => FirstTerminalStep \/ UNCHANGED run
<1>1. CASE Tick
  BY <1>1, TickKeeps, NothingSpawned DEF Tick
<1>2. ASSUME NEW p \in Procs, NEW r \in Runs, NEW S \in Claims, Register(p, r, S)
      PROVE  Board' /\ StaysNear /\ UNCHANGED run
  BY <1>2, RegisterKeeps DEF Register, RegisterQueued, RegisterLeased, Begin
<1>3. ASSUME NEW p \in Procs, NEW r \in Runs, NEW stalled \in BOOLEAN, Heartbeat(p, r, stalled)
      PROVE  Board' /\ StaysNear /\ UNCHANGED run
  BY <1>3, HeartbeatKeeps DEF Heartbeat, Begin
<1>4. ASSUME NEW p \in Procs, NEW r \in Runs, NEW to \in Outcomes, Terminate(p, r, to)
      PROVE  Board' /\ StaysNear /\ UNCHANGED run
  BY <1>4, TerminateKeeps DEF Terminate, Begin
<1>5. ASSUME NEW p \in Procs, Request(p) PROVE Board' /\ StaysNear /\ UNCHANGED run
  BY <1>2, <1>3, <1>4, <1>5, FaultsAssumption DEF Request
<1>6. ASSUME NEW p \in Procs, Statement(p)
      PROVE  /\ Board' /\ StaysNear /\ (SpawnStep \/ UNCHANGED run)
             /\ PutsAreNear \/ ~dropped => FirstTerminalStep \/ UNCHANGED run
  <2>1. CASE WriteLock(p)
    BY <2>1, WriteLockKeeps DEF WriteLock
  <2>2. CASE WriteRun(p)
    BY <2>2, WriteRunKeeps
  <2>3. CASE Throw(p) \/ RunPutRefused(p) \/ Fail(p)
    BY <2>3, AbandonKeeps DEF Throw, RunPutRefused, Fail, Abandon
  <2>4. CASE DropMutex(p)
    BY <2>4, DropMutexKeeps DEF DropMutex
  <2>5. QED
    BY <1>6, <2>1, <2>2, <2>3, <2>4 DEF Statement
<1>7. UNCHANGED run => SpawnStep
  BY NothingSpawned
<1>8. QED
  BY <1>1, <1>5, <1>6, <1>7

LEMMA NextKeeps ==
    IInv /\ [Next]_vars => IInv' /\ SpawnStep /\ (FirstTerminalStep \/ UNCHANGED run)
<1> SUFFICES ASSUME IInv, [Next]_vars
             PROVE  IInv' /\ SpawnStep /\ (FirstTerminalStep \/ UNCHANGED run)
  OBVIOUS
<1>1. CASE UNCHANGED vars
  <2>1. mutex' \in Procs \cup {NoProc} /\ \A p \in Procs : mutex = p => mutex' = p
    BY <1>1 DEF vars, IInv, Board, Common, TypeOK
  <2>2. QED
    BY <1>1, <2>1, BoardUntouched, NothingSpawned DEF vars, IInv, StaysNear
<1>2. CASE Next
  BY <1>2, RegistryKeeps DEF Next, IInv, StaysNear
<1>3. QED
  BY <1>1, <1>2

\* What the invariant says of the properties.
LEMMA BoardShows ==
    ASSUME Board
    PROVE  /\ TypeOK /\ LiveRunHoldsItsScopes /\ LiveRunsApart /\ TerminalRunHoldsNothing
           /\ GovernedWithinBudget
<1>1. TypeOK /\ LiveRunsApart /\ TerminalRunHoldsNothing /\ GovernedWithinBudget
  BY DEF Board, Common, Orderly, RunsApart, ScopesApart, LiveRunsApart, ClosedHoldNothing,
         TerminalRunHoldsNothing, BudgetsKept, GovernedWithinBudget
<1>2. LiveRunHoldsItsScopes
  <2> SUFFICES ASSUME ~dropped, NEW r \in Runs, RunLive(r), r \notin torn, ~BeingClosed(r),
                      NEW s \in run[r].scopes
               PROVE  Live(lock[<<s, r>>], now) /\ lock[<<s, r>>].fence = run[r].fence
    BY DEF LiveRunHoldsItsScopes
  <2>1. IsLeased(run[r]) /\ run[r] \in RunRow /\ run[r].expires > now
    BY <1>1, LiveRow
  <2>2. Fits(lock[<<s, r>>], run[r])
    BY DEF Board, Orderly, InStep
  <2>3. <<s, r>> \in Keys /\ now \in Nat /\ lock \in Table
    BY <1>1, <2>1 DEF Keys, RunRow, TypeOK, Table
  <2>4. lock[<<s, r>>] \in Row
    BY <2>2, <2>3, HeldRow DEF Fits
  <2>5. QED
    BY <2>1, <2>2, <2>3, <2>4 DEF Fits, Live, Row, RunRow
<1>3. QED
  BY <1>1, <1>2

\* The invariant the theorems below follow from.
THEOREM Inductive == Spec => []IInv
<1>1. Init => IInv
  BY InitInv
<1>2. IInv /\ [Next]_vars => IInv'
  BY NextKeeps
<1>3. QED
  BY <1>1, <1>2, PTL DEF Spec

\* Every variable keeps its type; only a leased run has a lease.
THEOREM TypeCorrect == Spec => []TypeOK
<1>1. IInv => TypeOK
  BY BoardShows DEF IInv
<1>2. QED
  BY <1>1, Inductive, PTL

\* As long as the named lock holds, a live run whose termination was not cut short
\* holds every scope it claimed, live and under its own token: heartbeat_run renews
\* the locks before the run, terminate_run releases them before it closes the run.
THEOREM LeasesInStep == Spec => []LiveRunHoldsItsScopes
<1>1. IInv => LiveRunHoldsItsScopes
  BY BoardShows DEF IInv
<1>2. QED
  BY <1>1, Inductive, PTL

\* As long as the named lock holds, two live runs whose terminations were not cut
\* short never work on colliding scopes.
THEOREM Isolation == Spec => []LiveRunsApart
<1>1. IInv => LiveRunsApart
  BY BoardShows DEF IInv
<1>2. QED
  BY <1>1, Inductive, PTL

\* As long as the named lock holds, a closed run holds nothing, whichever of the
\* statements before failed.
THEOREM ReleaseBeforeClose == Spec => []TerminalRunHoldsNothing
<1>1. IInv => TerminalRunHoldsNothing
  BY BoardShows DEF IInv
<1>2. QED
  BY <1>1, Inductive, PTL

\* As long as the named lock holds, a CP0 child's row goes in only while its parent has
\* budget left: nothing that happens between register_run's count of the siblings,
\* legacy ones included, and its insert makes the count stale.
THEOREM Budgets == Spec => SpawnBudgetKept
<1>1. IInv /\ [Next]_vars => [SpawnStep]_vars
  BY NextKeeps
<1>2. QED
  BY <1>1, Inductive, PTL DEF Spec, SpawnBudgetKept

\* As long as the named lock holds, a run never has more unfinished CP0 children than
\* its spawn budget.
THEOREM GovernedBudgets == Spec => []GovernedWithinBudget
<1>1. IInv => GovernedWithinBudget
  BY BoardShows DEF IInv
<1>2. QED
  BY <1>1, Inductive, PTL

\* Nothing changes the outcome of a closed run, not even an operation that lost the
\* named lock half-way: runs.put compares the revision.
THEOREM FirstOutcome == Spec => FirstTerminalWins
<1>1. IInv /\ [Next]_vars => [FirstTerminalStep]_vars
  <2> SUFFICES ASSUME IInv, [Next]_vars PROVE FirstTerminalStep
    OBVIOUS
  <2>1. FirstTerminalStep \/ UNCHANGED run
    BY NextKeeps
  <2>2. QED
    BY <2>1 DEF FirstTerminalStep
<1>2. QED
  BY <1>1, Inductive, PTL DEF Spec, FirstTerminalWins
(***************************************************************************)
(* The registry beside the reconciler: the inductive invariant.            *)
(***************************************************************************)
\* An item that closes its run, or releases the locks of a closed one.
Closes(item) ==
    /\ item.action \in Effective
    /\ item.action = "RELEASE_LOCKS" => item.before \in TerminalStates

PlansAreSound ==
    \A plan \in plans : \A r \in DOMAIN plan.items :
        /\ r \in served
        /\ plan.items[r].action \in Effective => Closes(plan.items[r])

Job == [phase : {"asked", "items", "swept", "bumped"}, by : Leaders, plan : plans,
        rest : SUBSET Runs]

\* What the dry run found of the run is still so.
Stands(r, item) ==
    /\ item.before = run[r].state
    /\ item.action = "RELEASE_LOCKS" => IsTerminal(run[r])
    /\ item.action = "MARK_STALE" => IsLeased(run[r]) /\ Overdue(run[r], now)
    /\ item.action = "REQUEUE" => IsLeased(run[r]) /\ run[r].stalled

Working(p) == job[p] # NoJob /\ job[p].phase # "asked"

\* An apply keeps the named lock from its check of the plan to its last step, so
\* what is left of the plan stands; and it closes no run that is live and moving.
InOrder(p) ==
    /\ mutex = p
    /\ \A w \in todo[p] : w.throws # "after"
    /\ \A r \in job[p].rest : Stands(r, job[p].plan.items[r])
    /\ put[p] # NoPut => /\ put[p].run \notin job[p].rest
                         /\ RunLive(put[p].run) => run[put[p].run].stalled

JobIsSound(p) ==
    job[p] # NoJob =>
        /\ job[p] \in Job
        /\ job[p].phase = "asked" => ~Busy(p)
        /\ \A r \in job[p].rest : r \in served /\ Closes(job[p].plan.items[r])
        /\ ~dropped /\ job[p].phase # "asked" => InOrder(p)

RInv ==
    /\ Board
    /\ PlansAreSound
    /\ job = [p \in Procs |-> job[p]]
    /\ \A p \in Procs : JobIsSound(p)
    /\ ~MutexMayDrop => ~dropped

(***************************************************************************)
(* Items and jobs.                                                         *)
(***************************************************************************)
\* classifyRunForReconcile: what each effective action says of the run.
LEMMA ActionSays ==
    ASSUME NEW row, NEW t
    PROVE  /\ Action(row, t) = "RELEASE_LOCKS" => IsTerminal(row)
           /\ Action(row, t) = "MARK_STALE" => IsLeased(row) /\ Overdue(row, t)
           /\ Action(row, t) = "REQUEUE" => IsLeased(row) /\ row.stalled
<1>1. ~(IsTerminal(row) /\ IsLeased(row)) /\ (row.state = "QUEUED" => ~IsTerminal(row) /\ ~IsLeased(row))
  BY DEF IsTerminal, IsLeased, TerminalStates, LeasedStates
<1>2. CASE IsTerminal(row)
  <2>1. Action(row, t) \in {"RELEASE_LOCKS", "PRESERVE_TERMINAL"}
    <3>1. CASE row.scopes # {}
      BY <1>1, <1>2, <3>1 DEF Action
    <3>2. CASE row.scopes = {}
      BY <1>1, <1>2, <3>2 DEF Action
    <3>3. QED
      BY <3>1, <3>2
  <2>2. QED
    BY <1>2, <2>1
<1>3. CASE IsLeased(row) /\ Overdue(row, t)
  <2>1. Action(row, t) = "MARK_STALE"
    BY <1>1, <1>3 DEF Action
  <2>2. QED
    BY <1>3, <2>1
<1>4. CASE IsLeased(row) /\ ~Overdue(row, t) /\ row.stalled
  <2>1. Action(row, t) = "REQUEUE"
    BY <1>1, <1>4 DEF Action
  <2>2. QED
    BY <1>4, <2>1
<1>5. CASE ~IsTerminal(row) /\ ~(IsLeased(row) /\ (Overdue(row, t) \/ row.stalled))
  <2>1. Action(row, t) = "NONE"
    BY <1>1, <1>5 DEF Action
  <2>2. QED
    BY <2>1
<1>6. QED
  BY <1>2, <1>3, <1>4, <1>5

LEMMA EffectiveItem ==
    ASSUME NEW r, Item(r, now).action \in Effective
    PROVE  Closes(Item(r, now)) /\ Stands(r, Item(r, now))
<1>1. Item(r, now).before = run[r].state /\ Item(r, now).action = Action(run[r], now)
  BY DEF Item
<1>2. QED
  BY <1>1, ActionSays DEF Closes, Stands, IsTerminal

\* An item leaves its run closed, unless it was, without scopes and without lease.
LEMMA ReconciledMade ==
    ASSUME TypeOK, NEW r \in Runs, NEW item, Closes(item)
    PROVE  LET row == Reconciled(r, item) IN
           /\ row \in RunRow /\ row.state = After(item) /\ IsTerminal(row) /\ ~IsLeased(row)
           /\ row.state # "QUEUED" /\ row.expires = NoLease /\ row.fence = run[r].fence
           /\ WellLeased(row) /\ row.expires <= now + Lease
<1> DEFINE AnyRow == [state : RunStates \cup {"UNREGISTERED"}, fence : Nat, expires : Nat,
                      rev : Nat, scopes : SUBSET Scopes, stalled : BOOLEAN]
           row == Reconciled(r, item)
<1>1. run[r] \in AnyRow
  <2>1. Unregistered \in AnyRow
    BY DEF Unregistered, NoFence, NoLease
  <2>2. RunRow \subseteq AnyRow
    BY DEF RunRow
  <2>3. QED
    BY <2>1, <2>2 DEF TypeOK
<1>2. After(item) \in TerminalStates
  <2>1. CASE item.action = "MARK_STALE"
    <3>1. After(item) = "STALE"
      BY <2>1 DEF After
    <3>2. QED
      BY <3>1 DEF TerminalStates
  <2>2. CASE item.action = "REQUEUE"
    <3>1. After(item) = "CANCELLED"
      BY <2>2 DEF After
    <3>2. QED
      BY <3>1 DEF TerminalStates
  <2>3. CASE item.action = "RELEASE_LOCKS"
    <3>1. After(item) = item.before
      BY <2>3 DEF After
    <3>2. QED
      BY <2>3, <3>1 DEF Closes
  <2>4. QED
    BY <2>1, <2>2, <2>3 DEF Closes, Effective
<1>3. \A old \in AnyRow : \A to \in TerminalStates :
          LET new == [old EXCEPT !.state = to, !.scopes = {}, !.expires = NoLease,
                                 !.rev = old.rev + 1]
          IN  /\ new \in RunRow /\ new.state = to /\ new.expires = NoLease
              /\ new.fence = old.fence
  <2> TAKE old \in AnyRow
  <2> TAKE to \in TerminalStates
  <2>1. to \in RunStates /\ old.rev + 1 \in Nat \ {0} /\ NoLease \in Nat
    BY DEF RunStates, NoLease
  <2>2. QED
    BY <2>1 DEF RunRow
<1>4. /\ row \in RunRow /\ row.state = After(item) /\ row.expires = NoLease
      /\ row.fence = run[r].fence
  BY <1>1, <1>2, <1>3 DEF Reconciled
<1>5. 0 <= now + Lease
  BY LeaseAssumption DEF TypeOK
<1>6. /\ IsTerminal(row) /\ ~IsLeased(row) /\ row.state # "QUEUED"
      /\ row.expires <= now + Lease /\ WellLeased(row)
  BY <1>2, <1>4, <1>5 DEF IsTerminal, IsLeased, TerminalStates, LeasedStates, NoLease, WellLeased
<1> HIDE DEF row
<1>7. QED
  BY <1>4, <1>6 DEF row

\* A run that is overdue has no live lease, whatever the grace.
LEMMA OverdueIsDead ==
    ASSUME TypeOK, NEW r \in Runs, Overdue(run[r], now)
    PROVE  ~RunLive(r)
<1>1. run[r].expires \in Nat /\ now \in Nat /\ Grace \in Nat
  BY GraceAssumption DEF TypeOK, RunRow, Unregistered, NoLease
<1>2. QED
  BY <1>1 DEF Overdue, RunLive, LeaseOut

\* While the item stands, it keeps the outcome of a closed run.
LEMMA StandingItem ==
    ASSUME TypeOK, NEW r \in Runs, NEW item, Closes(item), Stands(r, item)
    PROVE  /\ IsTerminal(run[r]) => After(item) = run[r].state
           /\ RunLive(r) => run[r].stalled
<1>1. ~(IsTerminal(run[r]) /\ IsLeased(run[r]))
  BY DEF IsTerminal, IsLeased, TerminalStates, LeasedStates
<1>2. CASE item.action = "RELEASE_LOCKS"
  <2>1. After(item) = item.before
    BY <1>2 DEF After
  <2>2. QED
    BY <1>1, <1>2, <2>1 DEF Stands, RunLive
<1>3. CASE item.action = "MARK_STALE"
  <2>1. ~IsTerminal(run[r]) /\ Overdue(run[r], now)
    BY <1>1, <1>3 DEF Stands
  <2>2. QED
    BY <2>1, OverdueIsDead
<1>4. CASE item.action = "REQUEUE"
  BY <1>1, <1>4 DEF Stands
<1>5. QED
  BY <1>2, <1>3, <1>4 DEF Closes, Effective

\* The processes a step is not about keep their jobs in order.
LEMMA JobKept ==
    ASSUME RInv, NEW p \in Procs,
           job'[p] = job[p], todo'[p] = todo[p], put'[p] = put[p],
           plans \subseteq plans', served \subseteq served', dropped => dropped',
           ~dropped /\ Working(p) => /\ run' = run /\ mutex' = mutex
                                     /\ now' \in Nat /\ now <= now'
    PROVE  JobIsSound(p)'
<1> SUFFICES ASSUME job[p] # NoJob
             PROVE  /\ job[p] \in Job'
                    /\ job[p].phase = "asked" => ~Busy(p)'
                    /\ \A r \in job[p].rest : r \in served' /\ Closes(job[p].plan.items[r])
                    /\ ~dropped' /\ job[p].phase # "asked" => InOrder(p)'
  BY DEF JobIsSound, Closes
<1>1. JobIsSound(p) /\ TypeOK
  BY DEF RInv, Board, Common
<1>2. job[p] \in Job' /\ (job[p].phase = "asked" => ~Busy(p)')
  BY <1>1 DEF JobIsSound, Job, Busy
<1>3. \A r \in job[p].rest : r \in Runs /\ r \in served' /\ Closes(job[p].plan.items[r])
  BY <1>1 DEF JobIsSound, Job
<1>4. ASSUME ~dropped', job[p].phase # "asked" PROVE InOrder(p)'
  <2>1. /\ InOrder(p) /\ run' = run /\ mutex' = mutex
        /\ now \in Nat /\ now' \in Nat /\ now <= now'
    BY <1>1, <1>4 DEF JobIsSound, Working, TypeOK
  <2>2. ASSUME NEW r \in job[p].rest PROVE Stands(r, job[p].plan.items[r])'
    <3>1. Stands(r, job[p].plan.items[r]) /\ r \in Runs
      BY <1>3, <2>1 DEF InOrder
    <3>2. run[r].expires \in Nat /\ Grace \in Nat
      BY <1>1, <3>1, GraceAssumption DEF TypeOK, RunRow, Unregistered, NoLease
    <3>3. Overdue(run[r], now) => Overdue(run[r], now')
      BY <2>1, <3>2 DEF Overdue
    <3>4. QED
      BY <2>1, <3>1, <3>3 DEF Stands
  <2>3. ASSUME put[p] # NoPut, RunLive(put[p].run)' PROVE RunLive(put[p].run)
    <3>1. run[put[p].run].expires \in Nat
      BY <1>1, <2>3, PendingRow DEF TypeOK, RunRow, Unregistered, NoLease
    <3>2. QED
      BY <2>1, <2>3, <3>1 DEF RunLive, LeaseOut
  <2>4. QED
    BY <2>1, <2>2, <2>3 DEF InOrder
<1>5. QED
  BY <1>2, <1>3, <1>4

\* Only the holder of the named lock works on a plan.
LEMMA OneWorks ==
    ASSUME RInv, ~dropped, NEW p \in Procs, mutex \in {p, NoProc}
    PROVE  \A q \in Procs \ {p} : ~Working(q)
BY NamesAssumption DEF RInv, JobIsSound, Working, InOrder
(***************************************************************************)
(* The steps of an apply.                                                  *)
(***************************************************************************)
LEMMA AskKeeps ==
    ASSUME RInv, NEW p \in Procs, NEW l \in Leaders, NEW plan \in plans, AskApply(p, l, plan)
    PROVE  RInv'
<1> DEFINE new == [phase |-> "asked", by |-> l, plan |-> plan, rest |-> {}]
<1>1. /\ job' = [job EXCEPT ![p] = new] /\ UNCHANGED <<vars, plans>> /\ ~Busy(p)
      /\ DOMAIN job = Procs /\ TypeOK
  BY DEF AskApply, Idle, Busy, RInv, Board, Common
<1>2. Board'
  BY <1>1, BoardUntouched DEF vars, RInv, TypeOK
<1>3. ASSUME NEW q \in Procs PROVE JobIsSound(q)'
  <2>1. CASE q = p
    <3>1. job'[p] = new /\ ~Busy(p)'
      BY <1>1 DEF vars, Busy
    <3>2. new \in Job' /\ new.phase = "asked" /\ new.rest = {}
      BY <1>1 DEF Job
    <3>3. QED
      BY <2>1, <3>1, <3>2 DEF JobIsSound
  <2>2. CASE q # p
    BY <1>1, <2>2, JobKept DEF vars, TypeOK
  <2>3. QED
    BY <2>1, <2>2
<1>4. QED
  BY <1>1, <1>2, <1>3 DEF vars, RInv, PlansAreSound

\* A step that ends the job of its process and leaves the runs alone.
LEMMA JobDone ==
    ASSUME RInv, NEW p \in Procs, job' = [job EXCEPT ![p] = NoJob],
           plans' = plans, served' = served, dropped' = dropped, run' = run, now' = now,
           \A q \in Procs \ {p} : todo'[q] = todo[q] /\ put'[q] = put[q],
           mutex' = mutex \/ mutex = p,
           Board'
    PROVE  RInv'
<1>1. ASSUME NEW q \in Procs PROVE JobIsSound(q)'
  <2>1. CASE q = p
    BY <2>1 DEF JobIsSound, RInv
  <2>2. CASE q # p
    <3>1. ~dropped /\ Working(q) => mutex' = mutex
      BY <2>2, OneWorks
    <3>2. job'[q] = job[q] /\ now \in Nat
      BY <2>2 DEF RInv, Board, Common, TypeOK
    <3>3. QED
      BY <2>2, <3>1, <3>2, JobKept
  <2>3. QED
    BY <2>1, <2>2
<1>2. QED
  BY <1>1 DEF RInv, PlansAreSound

LEMMA AnswerKeeps ==
    ASSUME RInv, NEW p \in Procs, AnswerApply(p)
    PROVE  RInv'
<1>1. Board'
  BY BoardUntouched DEF AnswerApply, vars, RInv, Board, Common, TypeOK
<1>2. QED
  BY <1>1, JobDone DEF AnswerApply, vars

LEMMA BeginApplyKeeps ==
    ASSUME RInv, NEW p \in Procs, BeginApply(p)
    PROVE  RInv'
<1> DEFINE plan == job[p].plan
           R == {r \in DOMAIN plan.items : plan.items[r].action \in Effective}
           new == [job[p] EXCEPT !.phase = "items", !.rest = R]
<1>1. /\ job' = [job EXCEPT ![p] = new] /\ job[p] # NoJob /\ mutex = NoProc /\ mutex' = p
      /\ PlanHolds(plan) /\ job[p].phase = "asked"
      /\ UNCHANGED <<run, lock, todo, put, now, fences, served, torn, dropped, plans>>
      /\ DOMAIN job = Procs /\ TypeOK
  BY DEF BeginApply, RInv, Board, Common
<1>2. Board'
  BY <1>1, NamesAssumption, BoardUntouched DEF RInv
<1>3. job[p] \in Job /\ ~Busy(p) /\ plan \in plans
  BY <1>1 DEF RInv, JobIsSound, Job
<1>4. ASSUME NEW r \in R
      PROVE  r \in Runs /\ r \in served /\ Closes(plan.items[r]) /\ Stands(r, plan.items[r])
  <2>1. r \in served /\ Closes(plan.items[r]) /\ served \subseteq Runs
    BY <1>1, <1>3 DEF RInv, PlansAreSound, TypeOK
  <2>2. plan.items[r] = Item(r, now) /\ Item(r, now).action \in Effective
    BY <1>1 DEF PlanHolds
  <2>3. QED
    BY <2>1, <2>2, EffectiveItem
<1>5. /\ new \in Job /\ new.phase = "items" /\ new.rest = R /\ new.plan = plan
  BY <1>3, <1>4 DEF Job
<1> HIDE DEF new, R
<1>6. ASSUME NEW q \in Procs PROVE JobIsSound(q)'
  <2>1. CASE q = p
    <3>1. job'[p] = new /\ ~Busy(p)'
      BY <1>1, <1>3 DEF Busy
    <3>2. new \in Job'
      BY <1>1, <1>5 DEF Job
    <3>3. InOrder(p)'
      BY <1>1, <1>4, <1>5, <3>1 DEF InOrder, Busy, Stands
    <3>4. QED
      BY <1>1, <1>4, <1>5, <2>1, <3>1, <3>2, <3>3 DEF JobIsSound, Closes
  <2>2. CASE q # p
    <3>1. ~dropped => ~Working(q)
      BY <1>1, <2>2, OneWorks
    <3>2. QED
      BY <1>1, <2>2, <3>1, JobKept
  <2>3. QED
    BY <2>1, <2>2
<1>7. QED
  BY <1>1, <1>2, <1>6 DEF RInv, PlansAreSound

\* A step of a process that works on its plan, after which what is left of the plan
\* still stands.
LEMMA JobGoesOn ==
    ASSUME RInv, NEW p \in Procs, Working(p), NEW new \in Job, new.phase # "asked",
           job' = [job EXCEPT ![p] = new], new.plan = job[p].plan, new.rest \subseteq job[p].rest,
           plans' = plans, served' = served, dropped' = dropped, now' = now, mutex' = mutex,
           \A q \in Procs \ {p} : todo'[q] = todo[q] /\ put'[q] = put[q],
           ~dropped => /\ \A r \in new.rest : run'[r] = run[r]
                       /\ \A w \in todo'[p] : w.throws # "after"
                       /\ put'[p] # NoPut => /\ put'[p].run \notin new.rest
                                             /\ RunLive(put[p].run)' =>
                                                    run'[put'[p].run].stalled,
           Board'
    PROVE  RInv'
<1>1. job[p] # NoJob /\ JobIsSound(p) /\ TypeOK /\ DOMAIN job = Procs
  BY DEF Working, RInv, Board, Common
<1>2. ~dropped => mutex = p /\ InOrder(p)
  BY <1>1 DEF JobIsSound, Working, InOrder
<1>3. ASSUME NEW q \in Procs PROVE JobIsSound(q)'
  <2>1. CASE q = p
    <3>1. job'[p] = new /\ new \in Job'
      BY <1>1 DEF Job
    <3>2. \A r \in new.rest : r \in Runs /\ r \in served /\ Closes(new.plan.items[r])
      BY <1>1 DEF JobIsSound, Job
    <3>3. ASSUME ~dropped PROVE InOrder(p)'
      <4>1. ASSUME NEW r \in new.rest PROVE Stands(r, new.plan.items[r])'
        <5>1. run'[r] = run[r] /\ Stands(r, new.plan.items[r])
          BY <1>2, <3>2, <3>3 DEF InOrder
        <5>2. QED
          BY <5>1 DEF Stands
      <4>2. QED
        BY <1>2, <3>1, <3>3, <4>1 DEF InOrder
    <3>4. QED
      BY <2>1, <3>1, <3>2, <3>3 DEF JobIsSound, Closes
  <2>2. CASE q # p
    <3>1. ~dropped => ~Working(q)
      BY <1>2, <2>2, OneWorks
    <3>2. QED
      BY <1>1, <2>2, <3>1, JobKept
  <2>3. QED
    BY <2>1, <2>2
<1>4. QED
  BY <1>1, <1>3 DEF RInv, PlansAreSound
LEMMA TakeItemKeeps ==
    ASSUME RInv, NEW p \in Procs, TakeItem(p)
    PROVE  RInv'
<1>1. PICK r \in job[p].rest :
          /\ todo' = [todo EXCEPT ![p] = IF run[r].scopes = {} THEN {}
                                         ELSE ReleaseWrites(lock, r, run[r].fence)]
          /\ put' = [put EXCEPT ![p] = [run |-> r, row |-> Reconciled(r, job[p].plan.items[r])]]
          /\ job' = [job EXCEPT ![p].rest = job[p].rest \ {r}]
  BY DEF TakeItem
<1> DEFINE item == job[p].plan.items[r]
           row == Reconciled(r, item)
           W == IF run[r].scopes = {} THEN {} ELSE ReleaseWrites(lock, r, run[r].fence)
           new == [job[p] EXCEPT !.rest = job[p].rest \ {r}]
<1>2. /\ UNCHANGED <<run, lock, mutex, now, fences, served, torn, dropped, plans>>
      /\ job[p] # NoJob /\ job[p].phase = "items" /\ todo[p] = {} /\ put[p] = NoPut
      /\ job' = [job EXCEPT ![p] = new]
  BY <1>1 DEF TakeItem, Applying
<1>3. /\ TypeOK /\ JobIsSound(p) /\ DOMAIN job = Procs /\ IsFiniteSet(served)
      /\ lock \in Table /\ Board
  BY DEF RInv, Board, Common, RunsAreServed, TypeOK, Table
<1>4. /\ job[p] \in Job /\ r \in Runs /\ r \in served /\ Closes(item) /\ Working(p)
      /\ ~dropped => InOrder(p) /\ Stands(r, item)
  BY <1>2, <1>3 DEF JobIsSound, Job, Working, InOrder
<1>5. /\ row \in RunRow /\ row.state = After(item) /\ IsTerminal(row) /\ ~IsLeased(row)
      /\ row.state # "QUEUED" /\ row.fence = run[r].fence
      /\ WellLeased(row) /\ row.expires <= now + Lease
  BY <1>3, <1>4, ReconciledMade
<1>6. ASSUME NEW k \in HeldBy(lock, r)
      PROVE  LET w == ReleaseWrite(lock, k, run[r].fence) IN
             w \in Write /\ w.key = k /\ ~Holds(w) /\ w.throws # "after"
  BY <1>3, ReleaseWriteMade DEF HeldBy
<1>7. ASSUME NEW w \in W
      PROVE  w \in Write /\ w.key[2] = r /\ ~Holds(w) /\ w.throws # "after"
  BY <1>6 DEF ReleaseWrites, HeldBy
<1>8. ASSUME ~dropped PROVE mutex = p /\ Prepared(W, r, row)
  <2>1. \A k \in HeldBy(lock, r) : run[r] # Unregistered => k[1] \in run[r].scopes
    BY <1>8 DEF RInv, Board, Orderly, LocksAreClaimed, HeldBy
  <2>2. run[r] # Unregistered
    BY <1>4, <1>8, UnregisteredIsNoRow DEF Stands, Closes, Effective
  <2>3. UpdatesOwnRun(r, row)
    BY <1>3, <1>4, <1>5, <1>8, StandingItem DEF UpdatesOwnRun
  <2>4. WritesFit(W, r, row)
    BY <1>7 DEF WritesFit
  <2>5. ClosesAfterLocks(W, r, row)
    <3>1. ASSUME NEW k \in HeldBy(lock, r) PROVE \E w \in W : w.key = k
      <4>1. ReleaseWrite(lock, k, run[r].fence) \in W
        BY <2>1, <2>2 DEF ReleaseWrites
      <4>2. QED
        BY <1>6, <4>1
    <3>2. QED
      BY <3>1 DEF ClosesAfterLocks
  <2>6. LeasesAfterLocks(W, r, row) /\ ChecksHold(r, row)
    BY <1>5, <2>2 DEF LeasesAfterLocks, ChecksHold
  <2>7. QED
    BY <1>4, <1>8, <2>3, <2>4, <2>5, <2>6 DEF Prepared, InOrder
<1>9. /\ new \in Job /\ new.phase = "items" /\ new.plan = job[p].plan
      /\ new.rest = job[p].rest \ {r}
  BY <1>2, <1>4 DEF Job
<1> HIDE DEF row, new
<1>10. Board'
  <2>1. W \in SUBSET Write
    BY <1>7
  <2>2. fences' \in Nat /\ served' \in SUBSET Runs /\ mutex' \in Procs \cup {NoProc}
    BY <1>2, <1>3 DEF TypeOK
  <2> HIDE DEF W
  <2>3. todo' = [todo EXCEPT ![p] = W] /\ put' = [put EXCEPT ![p] = [run |-> r, row |-> row]]
    BY <1>1 DEF W, row
  <2>4. QED
    BY <1>2, <1>3, <1>4, <1>5, <1>8, <2>1, <2>2, <2>3, LoadKeeps
<1>11. ASSUME ~dropped
       PROVE  /\ \A w \in todo'[p] : w.throws # "after"
              /\ put'[p].run = r /\ put'[p].run \notin new.rest
              /\ RunLive(put[p].run)' => run'[put'[p].run].stalled
  <2>1. todo'[p] = W /\ put'[p].run = r
    BY <1>1, <1>3 DEF TypeOK
  <2>2. RunLive(r) => run[r].stalled
    BY <1>3, <1>4, <1>11, StandingItem
  <2>3. QED
    BY <1>2, <1>7, <1>9, <2>1, <2>2 DEF RunLive
<1>12. /\ \A q \in Procs \ {p} : todo'[q] = todo[q] /\ put'[q] = put[q]
       /\ new.rest \subseteq job[p].rest
  BY <1>1, <1>3, <1>9 DEF TypeOK
<1>13. QED
  BY <1>2, <1>4, <1>9, <1>10, <1>11, <1>12, JobGoesOn

LEMMA WriteItemKeeps ==
    ASSUME RInv, NEW p \in Procs, WriteItem(p)
    PROVE  RInv' /\ SpawnStep /\ (~dropped => FirstTerminalStep)
<1>1. /\ UNCHANGED <<lock, todo, mutex, now, fences, served, torn, dropped, plans, job>>
      /\ job[p] # NoJob /\ todo[p] = {} /\ put[p] # NoPut
      /\ RunPutAllowed(put[p].run, put[p].row)
      /\ run' = [run EXCEPT ![put[p].run] = put[p].row] /\ put' = [put EXCEPT ![p] = NoPut]
  BY DEF WriteItem, rvars
<1>2. /\ TypeOK /\ JobIsSound(p) /\ DOMAIN job = Procs /\ Board
  BY DEF RInv, Board, Common
<1>3. job[p] \in Job /\ job[p].phase # "asked" /\ Working(p) /\ (~dropped => InOrder(p))
  BY <1>1, <1>2 DEF JobIsSound, Busy, Working
<1>4. Board' /\ SpawnStep /\ (~dropped => FirstTerminalStep)
  <2>1. todo' = [todo EXCEPT ![p] = {}] /\ mutex' \in Procs \cup {NoProc}
    BY <1>1, <1>2 DEF TypeOK
  <2>2. QED
    BY <1>1, <1>2, <2>1, RowWritten
<1>5. ASSUME ~dropped
      PROVE  /\ \A r \in job[p].rest : run'[r] = run[r]
             /\ \A w \in todo'[p] : w.throws # "after"
             /\ put'[p] = NoPut
  BY <1>1, <1>2, <1>3, <1>5 DEF InOrder, TypeOK
<1>6. /\ \A q \in Procs \ {p} : todo'[q] = todo[q] /\ put'[q] = put[q]
      /\ job' = [job EXCEPT ![p] = job[p]]
  BY <1>1, <1>2 DEF TypeOK, RInv
<1>7. RInv'
  BY <1>1, <1>3, <1>4, <1>5, <1>6, JobGoesOn
<1>8. QED
  BY <1>4, <1>7

LEMMA ReleaseKeeps ==
    ASSUME RInv, NEW p \in Procs, job[p] # NoJob, WriteLock(p), UNCHANGED rvars
    PROVE  RInv'
<1>1. /\ UNCHANGED <<run, now, served, dropped, plans, job>>
      /\ todo[p] # {}
  BY DEF WriteLock, rvars
<1>2. /\ TypeOK /\ JobIsSound(p) /\ DOMAIN job = Procs /\ Board
  BY DEF RInv, Board, Common
<1>3. job[p] \in Job /\ job[p].phase # "asked" /\ Working(p) /\ (~dropped => InOrder(p))
  BY <1>1, <1>2 DEF JobIsSound, Busy, Working
<1>4. Board'
  BY <1>2, WriteLockKeeps
<1>5. /\ \A q \in Procs \ {p} : todo'[q] = todo[q] /\ put'[q] = put[q]
      /\ ~dropped => mutex' = mutex /\ put' = put /\ todo'[p] \subseteq todo[p]
      /\ mutex' \in {mutex, NoProc}
  <2>1. PICK w \in todo[p] :
            IF w.throws = "after" THEN Return(p)
            ELSE /\ todo' = [todo EXCEPT ![p] = todo[p] \ {w}]
                 /\ UNCHANGED <<put, mutex>>
    BY DEF WriteLock
  <2>2. ~dropped => w.throws # "after"
    BY <1>3 DEF InOrder
  <2>3. QED
    BY <1>2, <2>1, <2>2 DEF Return, ReleaseMutex, TypeOK
<1>6. ASSUME NEW q \in Procs PROVE JobIsSound(q)'
  <2>1. CASE q # p
    <3>1. ~dropped => ~Working(q)
      BY <1>3, <2>1, OneWorks DEF InOrder
    <3>2. QED
      BY <1>1, <1>5, <2>1, <3>1, JobKept
  <2>2. CASE q = p
    <3>1. ASSUME ~dropped PROVE InOrder(p)'
      BY <1>1, <1>3, <1>5, <3>1 DEF InOrder, Stands, RunLive
    <3>2. job[p] \in Job'
      BY <1>1, <1>3 DEF Job
    <3>3. QED
      BY <1>1, <1>2, <1>3, <2>2, <3>1, <3>2 DEF JobIsSound, Closes
  <2>3. QED
    BY <2>1, <2>2
<1>7. QED
  BY <1>1, <1>2, <1>4, <1>6 DEF RInv, PlansAreSound

\* markExpiredLocks closes only locks whose lease ran out.
LEMMA SweepMade ==
    ASSUME TypeOK
    PROVE  Expirable \in SUBSET Write /\ Sweeping(Expirable)
           /\ \A w \in Expirable : w.throws = "never"
<1>1. lock \in Table
  BY DEF TypeOK, Table
<1>2. ASSUME NEW k \in Keys, Held(lock[k]), lock[k].expires <= now
      PROVE  LET w == Plain(k, Closed(lock[k], "EXPIRED")) IN
             w \in Write /\ w.key = k /\ ~Held(w.row) /\ w.throws = "never"
  <2>1. lock[k] \in Row
    BY <1>1, <1>2, HeldRow
  <2>2. Closed(lock[k], "EXPIRED") \in Row /\ Closed(lock[k], "EXPIRED").state = "EXPIRED"
    <3>1. 0 \in Nat /\ "EXPIRED" \in States
      BY DEF States
    <3>2. QED
      BY <2>1, <3>1, RowsMade
  <2>3. QED
    BY <2>2, PlainIsWrite DEF Held
<1>3. ASSUME NEW w \in Expirable
      PROVE  /\ w \in Write /\ ~Held(w.row) /\ w.throws = "never"
             /\ lock[w.key].expires <= now
  <2>1. PICK k \in Keys : /\ Held(lock[k]) /\ lock[k].expires <= now
                          /\ w = Plain(k, Closed(lock[k], "EXPIRED"))
    BY DEF Expirable, ExpireWrites
  <2>2. QED
    BY <1>2, <2>1
<1>4. QED
  BY <1>3 DEF Sweeping

LEMMA SweepKeeps ==
    ASSUME RInv, NEW p \in Procs, SweepLocks(p)
    PROVE  RInv'
<1> DEFINE new == [job[p] EXCEPT !.phase = "swept"]
<1>1. /\ UNCHANGED <<run, lock, put, mutex, now, fences, served, torn, dropped, plans>>
      /\ job[p] # NoJob /\ job[p].phase = "items" /\ todo[p] = {} /\ put[p] = NoPut
      /\ job' = [job EXCEPT ![p] = new] /\ todo' = [todo EXCEPT ![p] = Expirable]
  BY DEF SweepLocks, Applying
<1>2. TypeOK /\ JobIsSound(p) /\ Board
  BY DEF RInv, Board, Common
<1>3. job[p] \in Job /\ Working(p) /\ (~dropped => InOrder(p))
  BY <1>1, <1>2 DEF JobIsSound, Working
<1>4. /\ Expirable \in SUBSET Write /\ Sweeping(Expirable)
      /\ \A w \in Expirable : w.throws = "never"
  BY <1>2, SweepMade
<1>5. \A q \in Procs : todo'[q] = IF q = p THEN Expirable ELSE todo[q]
  BY <1>1, <1>2 DEF TypeOK
<1>6. Board'
  <2>1. Common'
    BY <1>1, <1>2, <1>4 DEF Board, Common, TypeOK, PutsAreSound, RunsAreServed
  <2>2. ASSUME ~dropped PROVE Orderly'
    <3>1. Serial'
      BY <1>1, <1>3, <1>5, <2>2 DEF RInv, Board, Orderly, Serial, Busy, InOrder
    <3>2. LocksAreClaimed' /\ InStep' /\ ClosedHoldNothing' /\ RunsApart' /\ BudgetsKept'
      BY <1>1, <2>2
      DEF RInv, Board, Orderly, LocksAreClaimed, InStep, Fits, BeingClosed, Closing,
          ClosedHoldNothing, HeldBy, RunsApart, RunLive, BudgetsKept,
                GovernedChildren, ActiveChildren
    <3>3. ASSUME NEW q \in Procs
          PROVE  (IF put[q] = NoPut THEN Sweeping(todo[q])
                  ELSE Prepared(todo[q], put[q].run, put[q].row))'
      <4>1. CASE q = p
        BY <1>1, <1>4, <1>5, <4>1 DEF Sweeping
      <4>2. CASE q # p
        <5>1. put[q] = NoPut /\ todo[q] = {}
          BY <1>2, <1>3, <2>2, <4>2, Alone DEF InOrder
        <5>2. QED
          BY <1>1, <1>5, <4>2, <5>1 DEF Sweeping
      <4>3. QED
        BY <4>1, <4>2
    <3>4. QED
      BY <3>1, <3>2, <3>3 DEF Orderly, PutsArePrepared
  <2>3. QED
    BY <1>1, <2>1, <2>2 DEF Board
<1>7. /\ new \in Job /\ new.phase = "swept" /\ new.plan = job[p].plan
      /\ new.rest \subseteq job[p].rest
  BY <1>3 DEF Job
<1>8. QED
  <2> HIDE DEF new
  <2>1. \A w \in todo'[p] : w.throws # "after"
    BY <1>4, <1>5
  <2>2. \A q \in Procs \ {p} : todo'[q] = todo[q] /\ put'[q] = put[q]
    BY <1>1, <1>5
  <2>3. QED
    BY <1>1, <1>3, <1>6, <1>7, <2>1, <2>2, JobGoesOn

LEMMA BumpKeeps ==
    ASSUME RInv, NEW p \in Procs, BumpBoardRev(p)
    PROVE  RInv'
<1> DEFINE new == [job[p] EXCEPT !.phase = "bumped"]
<1>1. /\ UNCHANGED <<vars, plans>>
      /\ job[p] # NoJob /\ job[p].phase = "swept" /\ todo[p] = {} /\ put[p] = NoPut
      /\ job' = [job EXCEPT ![p] = new]
  BY DEF BumpBoardRev, Applying
<1>2. TypeOK /\ JobIsSound(p)
  BY DEF RInv, Board, Common
<1>3. job[p] \in Job /\ Working(p)
  BY <1>1, <1>2 DEF JobIsSound, Working
<1>4. Board'
  BY <1>1, <1>2, BoardUntouched DEF vars, RInv, TypeOK
<1>5. /\ new \in Job /\ new.phase = "bumped" /\ new.plan = job[p].plan
      /\ new.rest \subseteq job[p].rest
  BY <1>3 DEF Job
<1>6. QED
  <2> HIDE DEF new
  <2>1. QED
    BY <1>1, <1>3, <1>4, <1>5, JobGoesOn DEF vars

LEMMA RecordKeeps ==
    ASSUME RInv, NEW p \in Procs, RecordApply(p)
    PROVE  RInv'
<1>1. /\ UNCHANGED <<run, lock, todo, put, now, fences, served, torn, dropped, plans>>
      /\ job' = [job EXCEPT ![p] = NoJob] /\ todo[p] = {} /\ put[p] = NoPut
      /\ mutex' = IF mutex = p THEN NoProc ELSE mutex
  BY DEF RecordApply, Applying, ReleaseMutex
<1>2. Board'
  BY <1>1, BoardUntouched DEF RInv, Board, Common, TypeOK, Busy
<1>3. QED
  BY <1>1, <1>2, JobDone

LEMMA AbortKeeps ==
    ASSUME RInv, NEW p \in Procs, AbortApply(p)
    PROVE  RInv' /\ UNCHANGED run
<1>1. Abandon(p) /\ job' = [job EXCEPT ![p] = NoJob] /\ plans' = plans /\ Board /\ TypeOK
  BY DEF AbortApply, Throw, RunPutRefused, RInv, Board, Common
<1>2. Board'
  BY <1>1, AbandonKeeps
<1>3. /\ \A q \in Procs \ {p} : todo'[q] = todo[q] /\ put'[q] = put[q]
      /\ UNCHANGED <<run, now, served, dropped>>
      /\ mutex' = mutex \/ mutex = p
  BY <1>1 DEF Abandon, Return, ReleaseMutex, TypeOK
<1>4. QED
  BY <1>1, <1>2, <1>3, JobDone
(***************************************************************************)
(* The other steps.                                                        *)
(***************************************************************************)
LEMMA LeaderKeeps ==
    ASSUME RInv, OtherBump \/ \E l \in Leaders : Claim(l) \/ DryRun(l)
    PROVE  RInv' /\ UNCHANGED run
<1>1. UNCHANGED <<vars, job>> /\ plans \subseteq plans' /\ TypeOK
  BY DEF OtherBump, Claim, DryRun, RInv, Board, Common
<1>2. Board'
  BY <1>1, BoardUntouched DEF vars, RInv, TypeOK
<1>3. PlansAreSound'
  <2>1. CASE plans' = plans
    BY <1>1, <2>1 DEF vars, RInv, PlansAreSound, Closes
  <2>2. CASE \E l \in Leaders : DryRun(l)
    <3>1. PICK R \in SUBSET {r \in Runs : run[r] # Unregistered}, rev \in 0..boardRev :
              plans' = plans \cup {[rev |-> rev, items |-> [r \in R |-> Item(r, now)]]}
      BY <2>2 DEF DryRun
    <3>2. \A r \in R : r \in served /\ (Item(r, now).action \in Effective => Closes(Item(r, now)))
      BY EffectiveItem DEF RInv, Board, Common, RunsAreServed
    <3>3. QED
      BY <1>1, <3>1, <3>2 DEF vars, RInv, PlansAreSound, Closes
  <2>3. QED
    BY <2>1, <2>2 DEF OtherBump, Claim
<1>4. ASSUME NEW p \in Procs PROVE JobIsSound(p)'
  BY <1>1, JobKept DEF vars, TypeOK
<1>5. QED
  BY <1>1, <1>2, <1>3, <1>4 DEF RInv, vars

\* A registry operation leaves what other processes have to write, and needs the
\* named lock.
LEMMA OwnWrites ==
    ASSUME TypeOK, NEW p \in Procs, Request(p) \/ Statement(p)
    PROVE  /\ \A q \in Procs \ {p} : todo'[q] = todo[q] /\ put'[q] = put[q]
           /\ served \subseteq served' /\ now' = now
           /\ dropped' = dropped \/ (dropped' = TRUE /\ MutexMayDrop)
           /\ mutex = NoProc \/ mutex = p \/ Busy(p)
<1>1. CASE Request(p)
  <2>1. /\ \E W, pt : Begin(p, W, pt)
        /\ served \subseteq served'
    BY <1>1 DEF Request, Register, RegisterQueued, RegisterLeased, Heartbeat, Terminate
  <2>2. QED
    BY <2>1 DEF Begin, TypeOK
<1>2. CASE WriteLock(p)
  BY <1>2 DEF WriteLock, Return, Busy, TypeOK
<1>3. CASE WriteRun(p)
  BY <1>3 DEF WriteRun, Return, Busy, TypeOK
<1>4. CASE Throw(p) \/ RunPutRefused(p) \/ Fail(p)
  <2>1. Abandon(p) /\ Busy(p)
    BY <1>4 DEF Throw, RunPutRefused, Fail, Busy
  <2>2. QED
    BY <2>1 DEF Abandon, Return, TypeOK
<1>5. CASE DropMutex(p)
  BY <1>5 DEF DropMutex
<1>6. QED
  BY <1>1, <1>2, <1>3, <1>4, <1>5 DEF Statement

LEMMA RegistryStepKeeps ==
    ASSUME RInv, Registry
    PROVE  RInv' /\ SpawnStep /\ (~dropped => FirstTerminalStep \/ UNCHANGED run)
<1>1. /\ UNCHANGED <<plans, job>> /\ TypeOK /\ Board
      /\ Tick \/ \E p \in Procs : job[p] = NoJob /\ (Request(p) \/ Statement(p))
  BY DEF Registry, rvars, RInv, Board, Common
<1>2. Board' /\ SpawnStep /\ (~dropped => FirstTerminalStep \/ UNCHANGED run)
  BY <1>1, RegistryKeeps
<1>3. CASE Tick
  <2>1. /\ UNCHANGED <<run, mutex, todo, put, served, dropped>> /\ now' \in Nat /\ now <= now'
    BY <1>1, <1>3 DEF Tick, TypeOK
  <2>2. \A p \in Procs : JobIsSound(p)'
    BY <1>1, <2>1, JobKept
  <2>3. QED
    BY <1>1, <1>2, <2>1, <2>2 DEF RInv, PlansAreSound
<1>4. ASSUME NEW p \in Procs, job[p] = NoJob, Request(p) \/ Statement(p)
      PROVE  RInv'
  <2>1. /\ \A q \in Procs \ {p} : todo'[q] = todo[q] /\ put'[q] = put[q]
        /\ served \subseteq served'
        /\ dropped' = dropped \/ (dropped' = TRUE /\ MutexMayDrop)
        /\ mutex = NoProc \/ mutex = p \/ Busy(p)
    BY <1>1, <1>4, OwnWrites
  <2>2. ASSUME ~dropped PROVE mutex \in {p, NoProc}
    BY <1>1, <2>1, <2>2, BusyAlone
  <2>3. ASSUME NEW q \in Procs PROVE JobIsSound(q)'
    <3>1. CASE q = p
      BY <1>1, <1>4, <3>1 DEF JobIsSound
    <3>2. CASE q # p
      <4>1. ~dropped => ~Working(q)
        BY <2>2, <3>2, OneWorks
      <4>2. dropped => dropped'
        BY <2>1
      <4>3. QED
        BY <1>1, <2>1, <3>2, <4>1, <4>2, JobKept
    <3>3. QED
      BY <3>1, <3>2
  <2>4. PlansAreSound'
    BY <1>1, <2>1 DEF RInv, PlansAreSound
  <2>5. ~MutexMayDrop => ~dropped'
    BY <2>1 DEF RInv
  <2>6. QED
    BY <1>1, <1>2, <2>3, <2>4, <2>5 DEF RInv
<1>5. QED
  BY <1>1, <1>2, <1>3, <1>4

LEMMA RInitInv == RInit => RInv
<1> SUFFICES ASSUME RInit PROVE RInv
  OBVIOUS
<1>1. Board
  BY InitInv DEF RInit, IInv
<1>2. plans = {} /\ dropped = FALSE /\ job = [p \in Procs |-> NoJob]
  BY DEF RInit, Init
<1>3. PlansAreSound
  BY <1>2 DEF PlansAreSound
<1>4. \A p \in Procs : job[p] = NoJob
  BY <1>2
<1>5. QED
  BY <1>1, <1>2, <1>3, <1>4 DEF RInv, JobIsSound

LEMMA RNextKeeps ==
    RInv /\ [RNext]_allVars => RInv' /\ SpawnStep /\ (~dropped => FirstTerminalStep \/ UNCHANGED run)
<1> SUFFICES ASSUME RInv, [RNext]_allVars
             PROVE  RInv' /\ SpawnStep /\ (~dropped => FirstTerminalStep \/ UNCHANGED run)
  OBVIOUS
<1>1. CASE UNCHANGED allVars
  <2>1. UNCHANGED <<vars, plans, job>> /\ TypeOK
    BY <1>1 DEF allVars, vars, rvars, RInv, Board, Common
  <2>2. Board'
    BY <2>1, BoardUntouched DEF vars, RInv, TypeOK
  <2>3. \A p \in Procs : JobIsSound(p)'
    BY <2>1, JobKept DEF vars, TypeOK
  <2>4. QED
    BY <2>1, <2>2, <2>3, NothingSpawned DEF RInv, PlansAreSound, vars
<1>2. CASE Registry
  BY <1>2, RegistryStepKeeps
<1>3. CASE OtherBump \/ \E l \in Leaders : Claim(l) \/ DryRun(l)
  BY <1>3, LeaderKeeps, NothingSpawned
<1>4. ASSUME NEW p \in Procs, NEW l \in Leaders, NEW plan \in plans, AskApply(p, l, plan)
      PROVE  RInv' /\ SpawnStep /\ UNCHANGED run
  BY <1>4, AskKeeps, NothingSpawned DEF AskApply, vars
<1>5. ASSUME NEW p \in Procs, Apply(p)
      PROVE  RInv' /\ SpawnStep /\ (~dropped => FirstTerminalStep \/ UNCHANGED run)
  <2>1. CASE AnswerApply(p)
    BY <2>1, AnswerKeeps, NothingSpawned DEF AnswerApply, vars
  <2>2. CASE BeginApply(p)
    BY <2>2, BeginApplyKeeps, NothingSpawned DEF BeginApply
  <2>3. CASE TakeItem(p)
    BY <2>3, TakeItemKeeps, NothingSpawned DEF TakeItem
  <2>4. CASE WriteItem(p)
    BY <2>4, WriteItemKeeps
  <2>5. CASE job[p] # NoJob /\ WriteLock(p) /\ UNCHANGED rvars
    BY <2>5, ReleaseKeeps, NothingSpawned DEF WriteLock
  <2>6. CASE SweepLocks(p)
    BY <2>6, SweepKeeps, NothingSpawned DEF SweepLocks
  <2>7. CASE BumpBoardRev(p)
    BY <2>7, BumpKeeps, NothingSpawned DEF BumpBoardRev, vars
  <2>8. CASE RecordApply(p)
    BY <2>8, RecordKeeps, NothingSpawned DEF RecordApply
  <2>9. CASE AbortApply(p)
    BY <2>9, AbortKeeps, NothingSpawned
  <2>10. QED
    BY <1>5, <2>1, <2>2, <2>3, <2>4, <2>5, <2>6, <2>7, <2>8, <2>9 DEF Apply
<1>6. QED
  BY <1>1, <1>2, <1>3, <1>4, <1>5 DEF RNext

\* The invariant of the registry and the reconciler together.
THEOREM ReconcilerInductive == RSpec => []RInv
<1>1. RInit => RInv
  BY RInitInv
<1>2. RInv /\ [RNext]_allVars => RInv'
  BY RNextKeeps
<1>3. QED
  BY <1>1, <1>2, PTL DEF RSpec

\* The reconciler keeps the types of the registry, and the leases of closed runs empty.
THEOREM ReconcilerTypeCorrect == RSpec => []TypeOK
<1>1. RInv => TypeOK
  BY BoardShows DEF RInv
<1>2. QED
  BY <1>1, ReconcilerInductive, PTL

\* With the reconciler closing runs item by item, a live run whose termination was not
\* cut short still holds every scope it claimed, live and under its own token:
\* markExpiredLocks never takes the lock of a live run.
THEOREM ReconcilerLeasesInStep == RSpec => []LiveRunHoldsItsScopes
<1>1. RInv => LiveRunHoldsItsScopes
  BY BoardShows DEF RInv
<1>2. QED
  BY <1>1, ReconcilerInductive, PTL

\* With the reconciler, two live runs whose terminations were not cut short never work
\* on colliding scopes.
THEOREM ReconcilerIsolation == RSpec => []LiveRunsApart
<1>1. RInv => LiveRunsApart
  BY BoardShows DEF RInv
<1>2. QED
  BY <1>1, ReconcilerInductive, PTL

\* A run closed by the reconciler holds nothing either, whichever statement of the
\* apply failed before: the locks of an item are released before its run is written.
THEOREM ReconcilerReleasesBeforeClose == RSpec => []TerminalRunHoldsNothing
<1>1. RInv => TerminalRunHoldsNothing
  BY BoardShows DEF RInv
<1>2. QED
  BY <1>1, ReconcilerInductive, PTL

\* Beside the reconciler, too, a CP0 child's row goes in only while its parent has
\* budget left, under the same proviso.
THEOREM ReconcilerBudgets == RSpec => SpawnBudgetKept
<1>1. RInv /\ [RNext]_allVars => [SpawnStep]_vars
  BY RNextKeeps
<1>2. QED
  BY <1>1, ReconcilerInductive, PTL DEF RSpec, SpawnBudgetKept

\* Closing runs by plan never leaves a run with more unfinished CP0 children than its
\* spawn budget, under the same proviso.
THEOREM ReconcilerGovernedBudgets == RSpec => []GovernedWithinBudget
<1>1. RInv => GovernedWithinBudget
  BY BoardShows DEF RInv
<1>2. QED
  BY <1>1, ReconcilerInductive, PTL

\* The named lock stays where it is if no session can lose it.
LEMMA NeverDropped == ~MutexMayDrop => (RSpec => []~dropped)
<1> SUFFICES ASSUME ~MutexMayDrop PROVE RSpec => []~dropped
  OBVIOUS
<1>1. RInv => ~dropped
  BY DEF RInv
<1>2. QED
  BY <1>1, ReconcilerInductive, PTL

\* As long as the named lock holds, applyReconcile closes no run that its agent could
\* still heartbeat, unless it is stalled then: under the lock, a plan that classifies
\* every run as before stands until its last item is written.
THEOREM ReconcilerSparesUnderLock == RSpec => [][~dropped => SparesStep]_allVars
<1>1. RInv /\ [RNext]_allVars => [~dropped => SparesStep]_allVars
  <2> SUFFICES ASSUME RInv, ~dropped, NEW p \in Procs, WriteItem(p), RunLive(put[p].run)
               PROVE  run[put[p].run].stalled
    BY DEF SparesStep
  <2>1. job[p] # NoJob /\ put[p] # NoPut /\ JobIsSound(p)
    BY DEF WriteItem, RInv
  <2>2. InOrder(p)
    BY <2>1 DEF JobIsSound, Busy
  <2>3. QED
    BY <2>1, <2>2 DEF InOrder
<1>2. QED
  BY <1>1, ReconcilerInductive, PTL DEF RSpec

\* As long as the named lock holds, the first outcome of a run stays, with the
\* reconciler in the game: RELEASE_LOCKS writes the state that the run has.
THEOREM ReconcilerOutcomeUnderLock == RSpec => [][~dropped => FirstTerminalStep]_allVars
<1>1. RInv /\ [RNext]_allVars => [~dropped => FirstTerminalStep]_allVars
  <2> SUFFICES ASSUME RInv, [RNext]_allVars, ~dropped PROVE FirstTerminalStep
    OBVIOUS
  <2>1. FirstTerminalStep \/ UNCHANGED run
    BY RNextKeeps
  <2>2. QED
    BY <2>1 DEF FirstTerminalStep
<1>2. QED
  BY <1>1, ReconcilerInductive, PTL DEF RSpec

\* If the named lock cannot be lost, no apply ever closes a run that is live and not
\* stalled (SparesTheLiving, as reconciler.ts is run with a session that stays).
THEOREM ReconcilerSparesTheLiving == ~MutexMayDrop => (RSpec => SparesTheLiving)
<1> SUFFICES ASSUME ~MutexMayDrop PROVE RSpec => SparesTheLiving
  OBVIOUS
<1>1. RSpec => []~dropped
  BY NeverDropped
<1>2. QED
  BY <1>1, ReconcilerSparesUnderLock, PTL DEF SparesTheLiving

\* If the named lock cannot be lost, no request and no apply ever changes the outcome
\* of a closed run.
THEOREM ReconcilerFirstOutcome == ~MutexMayDrop => (RSpec => OutcomeStays)
<1> SUFFICES ASSUME ~MutexMayDrop PROVE RSpec => OutcomeStays
  OBVIOUS
<1>1. RSpec => []~dropped
  BY NeverDropped
<1>2. QED
  BY <1>1, ReconcilerOutcomeUnderLock, PTL DEF OutcomeStays
=============================================================================
