# Cairn control plane: specifications and proofs

Cairn is a work board for coding agents: a TanStack Start application with an
MCP server. Agents register runs, hold collision locks on the paths they edit,
heartbeat, publish evidence and terminate; a reconciler sweeps up after runs
that went silent. Several server processes may serve one MySQL database, and
the board state must survive retries, lost processes and expired leases.

This directory specifies that part of the program in TLA+: the control plane in
`src/src/server`. Paths below are relative to the repository (`src/`).

## 1. The system

### Components, state, operations

| component | state | operations | made correct by |
|---|---|---|---|
| Idempotency bracket (`idempotency.ts`, MySQL storage in `control-data-persistence.ts`) | `control_plane_idempotency`: scope -> request hash, run id, response, expiry | begin (EXECUTE / REPLAY / 409), complete, delete | one executor per key; a run id bound once; replays are faithful |
| Collision locks (`locks.ts`, MySQL store in `control-plane-runtime-persistence.ts`) | `control_plane_collision_locks`: scope and run -> state, fencing token, version, lease, revision | acquire, renew, release, supersede, mark expired | no two live locks on overlapping paths; history immutable |
| Run registry (`run-registry.ts`) | `control_plane_runs`: run -> state, fencing token, lease, revision, scopes, parent | register, heartbeat, terminate | runs and locks agree; first terminal state wins; spawn budget |
| Board named lock (`withMysqlNamedLock`, pool in `db.ts`) | GET_LOCK owners, 16 pooled connections and the queue for them, the async context of a request | withBoardLock around everything above | mutual exclusion, no self-deadlock, no leak, progress |
| Reconciler (`reconciler.ts`) | leader, its lease and token; dry-run plans; hash of the last applied plan | claim leadership, dry run, apply | applies what was planned, once, and spares live runs |
| Dispatch plan (`control-plane-ingest.ts`) | plans with status, revision, expiry | publish, supersede, select (expires lazily) | one ACTIVE plan; a newer plan is not expired |
| Board revisions, dispatch block, audit (`mysql-control-plane-atomic.ts`, `revisions.ts`) | board and lifecycle revision, blocked flag, audit rows | bump, compare-and-set, set state, append | a revision names one write; audit immutable |
| Decision inbox (`decisions-v3.ts`) | decisions with status and expiry | open, acknowledge, snooze, resolve, reject, list (expires lazily) | a resolution is final |
| Account sync (`account-sync.ts`, `account-sync-scheduler.ts`) | capacity snapshot, pending heartbeat | sync, enqueue, flush, tick | the last report is published; stale means blocked |
| Sync status publisher (`cp0-sync-status-publisher.ts`) | published record, loop state | tick: lock, pin, measure, pin, compare-and-set | a record describes one pin |
| Task lifecycle (`lifecycle-store.ts`) | stage, evidence receipts | advance, claim, evidence | stages in order, each with its evidence |
| Canonical import (`canonical-import.ts`, `canonical-snapshot.ts`) | snapshots, pin | plan, apply, pin | a pin names an imported snapshot |
| Audit retention (`audit-retention.ts`) | hot and compacted heartbeats | heartbeat, compact | nothing material is dropped |
| Admission (`rate-limit.ts`, `csrf.ts`, `auth*.ts`, `rbac.ts`) | buckets, nonces, sessions | consume, issue, log in | limits hold |
| Migrations (`migrations.ts`) | ledger | apply | each once, in order |

The rest (board documents of the legacy store, classification rules, read
models, text and knowledge tools, transport, health, the web interface) keeps no
protocol state of its own; `PROJECT.json` lists each part and the reason it is
left out.

### How they interact

Every mutating operation is bracketed by the idempotency table. The bracket is
*outside* the board's named lock: `begin`, the handler and `complete` are
separate autocommitted statements. The handler takes the runtime lock
(`cp_rt_<board>`), reads the rows it needs, decides, and writes row by row; there
is **almost no transaction anywhere** (the compare-and-swap of an entity and the
store of an import are one each). The run registry calls the lock service inside
its own critical section, and so enters the same named lock again. A board has
**three** named locks: `cp_rt_<board>` for runs, locks, plans and accounts,
`cp_rt_at_<board>` for the board's revision and dispatch block, and
`cairn_decision_<board>` for decisions. An operation under the first or third takes
the second for single statements; a gated MCP mutation (definitions, lifecycle)
holds the second throughout. What they share, the board revision, is therefore
moved by operations that do not exclude each other. GET_LOCK
lives on a connection that is pinned from the pool while the statements use
other connections of the same pool. The stores behind it do not trust the lock
alone: inserts meet unique indexes, updates are compare-and-set on fencing token
and revision.

### What is hard

Concurrency of requests in one process (every `await`) and of processes; reads
before a lock that are used under it; statement failures and process deaths
between any two statements with nothing rolled back; leases that run out under
their holder; retries of what was already done; the session that carries the
named lock dying while its operation goes on; connections running out; one revision
that several tools move, kept in two tables; lazy expiry that writes an old copy
back without a lock; timers whose round outlives its timeout.
`PROJECT.json` "hazards" lists each at its line with the properties that cover it.

## 2. The modules

| module | models |
|---|---|
| `Idempotency` | the bracket, one action per storage statement |
| `LockTable` | rows of the lock table, what `locks.ts` computes from a read of it, and what the store does with a put |
| `CollisionLocks` | the lock service over `LockTable`: named lock, operations, write loop, failures |
| `RunRegistry` | register, heartbeat, terminate over `LockTable` and the run rows |
| `Reconciler` | leadership, dry run and apply, composed with `RunRegistry` |
| `BoardMutex` | abstract: what `withBoardLock` promises |
| `NamedLock` | `withMysqlNamedLock` over the connection pool; implements `BoardMutex` |
| `AccountSync` | `account-sync.ts` and its scheduler: publication, readback, freshness, fail-close, heartbeats, timer |
| `SyncStatus` | the sync status publisher, its adapter and its loop, on several servers |
| `MutationGate` | `runMutationGate` with the entity and board revisions, definition writes, and the canonical import |
| `LifecycleRail` | evidence and advances of a task, over `MutationGate` |
| `BoardClock` | board revision, clock and bounds shared by the next two |
| `DispatchPlan` | publishing and selecting a dispatch plan |
| `DecisionInbox` | opening, answering, listing decisions |
| `Planning` | `DispatchPlan` and `DecisionInbox` over one board revision |
| `MC*` | instances for TLC (symmetry, scope overlap, hierarchies, agents) |
| `*_proofs` | theorems and proofs |

Definitions preceded by a `Mutant:` comment are not part of any specification:
each is a definition of the model changed the way a plausible bug would change
the code, and shows that a property can fail. `troubles`, where a module has it,
counts what may still go wrong: statements that fail, restarts, lost locks.
Variables marked "history" are read by properties only.

**Idempotency.** A *call* is one client request; a retry is another call with
the same scope. `pc[c]` names the statement it awaits next (`byRun`, `get`,
`clear`, `insert`, `reread`, ...), so that all statements of all calls interleave.
`start` is the clock read when the request arrived (`opts.nowMs`), compared with
`expires` as the code does. `cleared` remembers the scopes of which a row had
expired or a response could not be recorded. A handler that fails has no effect
here; partial effects are the subject of the other modules. `Crash` also stands
for the handlers whose catch block keeps the row.

**LockTable / CollisionLocks.** A row is identified by scope and run
(`collisionLockId` is a digest of both). `todo[p]` holds the rows an operation
has computed from its read and not yet written, with the point where its loop
throws (`throws`) and the order between statements where it matters
(`supersedeCollisionLock` closes, then inserts). Rows of one loop may be written
in any order, which covers the order the code has. `PutAllowed` is the store's
insert or compare-and-set with the unique index on HELD scopes. `DropMutex` is
the loss of the session that holds GET_LOCK. Path matching (`pathsOverlap`) is a
constant: any symmetric, reflexive relation.

**RunRegistry.** `put[p]` is the run row written after the lock rows. `Fail`
stops an operation between any two statements; `torn` remembers the runs whose
termination was stopped that way. RESERVED behaves as STARTING, WAITING_HUMAN as
RUNNING. Owner, revision and sequence checks only refuse requests: the model
sends those that pass. `served` stands for the idempotency bracket: a run id is
registered once (`RunIdBoundOnce` of `Idempotency` is that promise). An
operation reads the clock once and uses it for all its rows. `Level` says who
registers a run: an L1 or L2 run of the CP0 version is `Governed`, its parent and
budget are checked (`run-registry.ts:776`); a LEGACY one may name any parent,
unchecked (`:845`), and still counts among its unfinished children (`:790`).

**Reconciler.** Extends `RunRegistry`: its requests go on (`Registry`) between and
around the reconciler's steps. A plan is identified by its content, as its hash
is; an item is the run's state and the action chosen for it. `job[p]` follows one
apply: `asked` (leader checked, lock not yet taken), `items`, `swept`
(`markExpiredLocks`), `bumped`, done. An item uses `todo` and `put` like any other
operation, without giving up the lock in between. A dry run covers any set of
registered runs, which stands for its cursor and budgets.

**NamedLock.** `prog[p]` is what the request has still to do: enter a lock, run a
statement, leave. `conn`, `free` and `queue` are the pool: FIFO, bounded queue, no
timeout. `Inside` is the lookup in the async context that makes the lock
re-entrant. GET_LOCK succeeds when the lock is free or gives up
(`GetLockTimesOut`); leaving the outermost frame releases the lock and the pin. A
connection whose session died is counted as free when its frame is left (the
driver may replace it earlier). Its actions map to `BoardMutex` by
`inside[l] = {p : Inside(p, l)}`.

**AccountSync.** A report is published in three jobs: `publish` writes the snapshot,
bumps the board and sets the dispatch block; `record` notes that four surfaces
read that publication back; `fresh` re-evaluates its age. `op[p]` is the process
(an MCP call or a round of the timer) with its job and next statement. Each job
holds the accounts' named lock from its read to its last statement (`mutex`); the
revision and the dispatch block are another lock's, so `ForeignBump` may fall
between any two statements and make `setBoardState` refuse. Whatever fails leads
where the catch blocks lead (`Failed`, `Thrown`): to `force` or `refresh` and then
to `close` and `fatal`, all of which force the snapshot stale and block the board.
`pending`, `waited` and `checkup` are the scheduler's memory; a `Restart` clears
it. Revisions are compared for equality only, so an expectation is one bit: still
current or not. Ages stop growing one past the largest limit.

**SyncStatus.** `tick[t]` is one tick: lock, pin, measure, pin again, load, write.
`loop[s]` is the server's loop, which waits for one tick and may give it up
(`GiveUp`, `withTimeout`) without stopping it. The lock is a connection's and may
die under the tick (`LockLost`). The pin is the board's revision with the hash of
its snapshot: bumps raise it, and an import stores the revision of an earlier read
with a hash (`pending[i]`; each is applied once), so the pin goes back, and may come
back to one it has been at. `under` is the pin in force when an empty backlog was
counted; `back` remembers whether an import took the revision back between the tick's
two readings of the pin, or since. `runOnce` is on the handle and nobody calls it, so a
manual sweep costs one of the `troubles`. Readers are operators
(`ZeroBacklogProven`), evaluated for every pin a reader may have read.

**MutationGate / LifecycleRail.** `op` is the holder of the board lock, `op.at` its
next statement: the change itself, the mirror of the stage, the compare-and-swap
of the entity (which moves the board's revision, too), the bump. Imports have
`pending[i]`: the row they computed from a read and store later, without the lock
and without comparing. A request that expects anything but the current revisions
is refused before it changes anything, so the model sends those that expect
them. `v3` is the lifecycle document, made with the first request that asks for it
(`recorded`) at the stage of the task's row; `shown` is the stage in that row, if there
is a row; `entity` is the revision the gate compares and `v3[t].rev` the one
`advanceTaskV3` compares. Three calls write a row beside an advance: `upsert_task`
keeps its stage, or makes a row without one; `delete_task` removes it and leaves the
document; `init_lifecycle` writes MAPPING into rows that have none. All three are
refused once a snapshot was imported (`board-mcp.ts:1393`, `:2780`). The stage in the
row is what roll-ups read (`taskStageRows`, `computeRollup` at `lifecycle-store.ts:142`)
and what a task without a document starts from; `list_tasks` lays the document's
stage over it (`applyDurableV3StageOverlay`, `board-mcp.ts:3727`).
`receipts` are submitted for any stage at any time and bound to the revisions of
that moment. `cut` and `redefined` remember which tasks had a write cut short or
their definition written, `adrift` whose row was deleted or seeded and not written
by an advance since. The legacy `advanceTask` (`lifecycle-store.ts:74`),
`replaceBoardSnapshot` and `replaceTaskRows` (`board-store.ts:481`, `:529`) and
`backfillDurableLifecycleV3Records` would write these places, too; they have no
callers.

**DispatchPlan / DecisionInbox / Planning.** `publish` and `deed` are the holders of the
runtime and the decision lock, with the row they will write; both take the atomic
store's lock for the bump alone (`bumping`), so the two interleave at every statement.
The bump is two statements: `Raise` and, under the same lock, `ReadBack`, which stamps
the row with whatever the revision is by then. An import takes no lock: it stores the
revision of an earlier read, also between the two, and `again` remembers the revisions
it takes the board back over. Bumps by other tools only leave gaps between the revisions
of the records and are left out. `copy[v]` and `expiring[v]` are what readers and lists
write back as EXPIRED from an old read without any lock; the stores upsert without
comparing. A plan's text stands for its hash, its due date is not part of it. `latest`
and `gap` remember what was published last and what may excuse its absence: a publisher
that retired the active plan and has not written its own. `answers` counts.
`MutationGate` and `Planning` assume the named lock holds while its holder works;
what happens when its session dies is asked of runs and locks (`CollisionLocks`,
`RunRegistry`) and of the publisher (`SyncStatus`).

## 3. The runs

| run | instance | shows |
|---|---|---|
| `idempotency` | 3 calls, 2 scopes, 2 hashes, 1 run id, rows that expire under readers and owners | one executor per key and run id, faithful replays, completed rows stay |
| `collision_locks` | 2 processes, 2 runs, 3 scopes of which 2 overlap, crashes, the named lock lost once | live locks never collide while the lock holds; one HELD row per scope and an immutable history even when it does not |
| `run_registry` | an L0 run, an L1 and a legacy run that name it as parent, on overlapping paths, any statement failing | a CP0 child only within its parent's budget, live runs apart |
| `run_registry_no_mutex` | 2 processes, 1 run, named lock lost once | the first terminal state wins |
| `named_lock` | 3 requests, 1 board, 3 connections, queue of 1, one dead session | connections accounted for, every request ends, implements `BoardMutex` |
| `reconciler` | 2 runs on one path, one request at a time, one plan, failures, foreign revision bumps | a plan never closes a live run nor overwrites an outcome, whatever happened since its dry run; locks and runs still agree, also after a half-done apply |
| `account_sync` | 1 request of any kind, 1 round of the timer, one failure, foreign bump or restart anywhere | no publication lost to a fail-close, parity earned, the gate follows the snapshot; heartbeats are served, silence is noticed (liveness) |
| `sync_status` | 2 servers, one with its clock ahead, 3 revisions and 2 hashes, one import, one fault | green is proof and the acknowledgement never falls, but for what an import took back; the row is renewed for ever (liveness) |
| `lifecycle_rail` | 1 task, 3 stages (the third verified), 3 runs of 2 agents in 2 threads, 1 import, 6 requests, one fault | fresh evidence, independent verifier, stage and revision agree in the places that repeat them |
| `planning` | 2 plans of 2 texts, 2 decisions, a reader and a list, 4 requests, one import, one fault | one active plan, the last one is not lost, one answer per decision, one write per revision but for those an import took back |
| `run_registry_torn` (violation) | 2 runs, failures | a termination cut short leaves two live runs on one path |
| `advance_stuck` (violation) | as `lifecycle_rail`, no faults | once its definition was written through the gate a task cannot be advanced |

**Bounds.** Clocks (`MaxTime`), revisions (`MaxRev`, `MaxBoardRev`), tokens
(`MaxFence`), requests (`MaxCalls`), pins (`MaxHash`), snapshots (`MaxContent`) and
faults (`MaxTroubles`, losses of the named lock) are bounded in guards and named. Two
contenders suffice for a conflict over a row, a third for the one that deletes or
inserts in between (`idempotency`); two overlapping scopes and one clear of both give
partial overlap and multi-row writes; clocks reach past a lease so that leases expire
under their holders. `reconciler` has leases of one tick and no grace, so that a plan
made while a lease runs meets it expired; three revisions let a run stall and recover
between dry run and apply. In `account_sync` the two processes are what the lock has to
keep apart, one of each sort; ages reach past both limits. In `run_registry` a budget of
one with two children, one of them legacy, makes the order in which they register
matter; a lease of two ticks is renewed at one and runs out at the other; claims of
several scopes are left to `collision_locks`. In `sync_status` overlapping ticks come
from the two servers, so one slot each is enough; three revisions are what an import
needs to read one, store the next and take the last back, the second hash keeps a pin
apart from one of the same revision; a sample is fresh in the tick it was taken only
(`Window = 0`), the one of the skewed server has a negative age. Six requests in
`lifecycle_rail` are the receipt and the advance for each of the three stages; a
deletion, an upsert, the seeding, an import or a superseded receipt takes the place of
one, so that a stage is then reached from a seeded row. The first two stages need no
verifier, as MAPPING and MAPPED do not; three runs give a verifier of the same agent and
one of the same thread as the implementer. Four requests in `planning` are two
publications, a reader that saw the first, and an answer or a list; one tick of the
clock is the date that a plan or a decision passes, and the import's two steps fall
anywhere. Runs whose clock or requests end disable the deadlock check; `named_lock`,
`account_sync` and `sync_status` go on for ever and keep it. Symmetry is used only in
runs without liveness.

**Fairness.** `NamedLock`: weak fairness of each request's next step. The event loop
serves whatever can go on, GET_LOCK answers within ten seconds (`GET_LOCK(?, 10)`),
reads are limited by `max_execution_time`, writes by `innodb_lock_wait_timeout`
(`db.ts:111`), and the pool serves its queue in order, which the model has
explicitly. There is no fairness on new requests, and none for obtaining the lock:
a request that always finds it taken times out and ends. `AccountSync`: time
passes, the timer (`setInterval`) fires, every statement returns or fails (weak),
and who waits for the accounts' lock gets it (strong): MySQL grants a named lock
in the order of arrival, and the waiters here are the calls and the timer of one
server. `SyncStatus`: time passes, scheduled sweeps start, statements return (weak);
nothing is assumed of obtaining the lock, which is not waited for. That the revision
is bounded means that the pin settles: were it moved within every tick for ever, each
tick would rightly publish nothing, and `RowIsRenewed` would not hold. Faults are
never fair.

**The pool.** `EveryRequestEnds` holds for one board with three connections: two for
the locks of the one operation inside, one for a statement; those who wait for
GET_LOCK give their connection back when it times out. It fails as soon as the
holders can pin all of them, that is, when connections are no more than twice the
boards at work (section 5). With `connectionLimit: 16` that takes eight boards at
the same point of a publication.

## 4. The proofs

All assumptions are the named ASSUMEs on constants in the modules (sets disjoint
from their null values, a symmetric overlap relation, natural numbers, a rail whose
first two stages need no verifier); the runs evaluate them.

**`Idempotency_proofs`**: `TypeOK` and the four safety properties for any number
of calls, scopes and run ids. None is inductive. The invariant `IInv` adds:
effects occur only in the phases that follow the handler (`EffectPhases`); while
a scope is not `cleared`, a call that is executing owns the scope's row, and a
call that had an effect either owns it or crashed after it (`Ownership`);
two rows never hold one run id (`RunIndex`); and a completed row carries the
response of a call with the row's hash (`RowsAreFaithful`). `Ownership` is what
makes exactly-once inductive: two spent calls of one scope would own one row.

**`CollisionLocks_proofs`**: `LiveLocksNeverCollide`, `OneHolderPerScope` and
`HistoryIsImmutable` for any overlap relation, any runs and any number of
processes. The inductive invariant says that fencing tokens in tables and pending
writes have been issued (`FencesIssued`), that a pending row differs from the
table's row by one legal step (`PendingIsNearby`), and, while no process lost the
lock, that a pending HELD row collides with no live row of another key and no
other pending one (`Guarded`). The last is why checks made at the read are still
true at the write.

**`RunRegistry_proofs`**: the registry alone, and the registry with the reconciler
beside it, for any runs, hierarchy, budgets, claims, overlap relation, leaders, plans,
grace and number of processes, with statements failing anywhere.

What both keep is `Board`. Its first half, `Common`, holds even when the named lock
is lost; the second, `Orderly`, holds while it is not: HELD rows stay within what
their run claimed (`LocksAreClaimed`, without which a run with no scopes could be
closed with a lock left over), and last at least as long as the lease of a live run,
under its token (`InStep`); and each pending operation is either `Prepared` to write
its run row or only `Sweeping`. Prepared means that a lease is written after its
locks (`LeasesAfterLocks`), a run is closed after its locks (`ClosesAfterLocks`), and
the checks of overlap and budget made at the start still hold (`ChecksHold`; the
second for governed runs only, which is what `SpawnBudgetKept` and, counting the CP0
children alone, `GovernedWithinBudget` follow from);
sweeping, that it closes no lock whose lease still runs. `torn` and `BeingClosed`
mark the only states in which locks and run may differ: a termination between its
first release and its last write, or one that never got there. The state properties
and the spawn budget follow from `Board`, so they are proved of both specifications.

In the registry alone a pending run row is, under the run's token, at most one
revision ahead of the run, and never ahead of a closed one (`PutsAreNear`). That needs
no lock, and gives `FirstTerminalWins` with and without it.

The reconciler breaks `PutsAreNear`: it writes from a fresh read of the run with the
action of the plan (`reconciler.ts:732`). What takes its place in `RInv` is
`InOrder`: from its check of the plan to its last item an apply holds the lock, so
what is left of the plan still describes the runs (`Stands`). So every step taken while
nobody has lost the lock spares the living and keeps outcomes
(`ReconcilerSparesUnderLock`, `ReconcilerOutcomeUnderLock`); `SparesTheLiving` and
`OutcomeStays` follow where the lock cannot be lost (`~MutexMayDrop`). Once the session
that holds GET_LOCK dies under an apply, both do fail (section 5). `RInv` was
checked with TLC before it was proved: with two processes (10 million states), and
with one whose lock may be lost (14 million).

**`AccountSync_proofs`**: `TypeOK` and the three safety properties, for any operations,
rounds of the timer, ages and bounds, with failures, foreign bumps and restarts. Only
who is past the read holds the accounts' lock (`LockIsHeld`), so the snapshot it
writes is based on the one it replaces, and the board it then blocks or opens is told
what the snapshot says (`WritesWhatItRead`, `GateInStep`). `ParityInHand` carries
parity from the readback of the surfaces to the write: it was seen while this very
publication was the last. The one assumption added for the proofs is that the null
value of an idle process is not an operation (`NoOpAssumption`).

**`NamedLock_proofs`**: `PoolAccounted`, mutual exclusion (`OneInside`) and the safety
part of the refinement of `BoardMutex` (`MutexSafety`), for any requests, boards, sizes
of pool and queue. The accounting is inductive together with `OnlyWhoAsks` (who waits
for a connection or has one is at a statement, or at a lock it is not inside, so that
GET_LOCK always pins for a frame of its own and the nested frame for none), and with
`Waiting` (everybody in the queue waits, once, so that a connection handed to its
head is counted once). Only finitely many connections are in use however many
requests there are (`InUseIsFinite`), which is what makes the sums defined.
`InsideOwns` gives exclusion: who is inside a lock owns it at the server until a
session dies. `MutexSafety` maps GET_LOCK to `Enter`, the leaving of an outermost frame
to `Exit` and a dead session to `Lose`; re-entry, nested frames, timeouts and
everything the pool does are stutters. `OneInside` is what the models of the
operations assume when they take `mutex` in one step.

**`Planning_proofs`**: `TypeOK` and the four safety properties of `Planning`, for any
plans, texts, decisions, readers and lists, any number of requests and failures.
`OneActive` rests on `AtMostOne` and `NoRival`: what the publisher found when it
looked for another active plan is still so at its last statement, because readers
only ever write EXPIRED. `LatestStands` needs that a copy is only ever written of a
plan whose date has passed (`CopiesAreDue`). `AnsweredOnce` needs `Settled`: an
answered decision is never pending again, whatever a list writes over it, and who
works under the decision lock found one without answer. `OwnRevision` is a statement
about all rows that exist or are about to be written (`Tags`): outside of what an
import took back (`again`) no two of different records are equal, none is ahead of the
board (`TagsAreIssued`), and while somebody holds the lock of the bump all are behind
it, so that the revision read back is a new one even if an import changed it after it
was raised. That the holder is one and is the reader is `BumpIsHeld`.

**`LifecycleRail_proofs`**: `TypeOK` and the four safety properties, for any tasks,
rail, runs, agents and threads, any number of imports, requests and failures.
`ChecksHold` says that what an advance checked still holds when it saves.
`ReceiptsAreBound` carries `EvidenceIsFresh`: a receipt with the board's lifecycle
revision was submitted at the task's present stage, because every advance bumps
that revision after it saved and no import touches it. A task may start at the first
stage without evidence, if its row was seeded before its document was made, so the
k-th entry of its history is not the k-th stage: `HistoryIsPast` says that no entry is
ahead of the present stage and that a task past the first stage has an implementer, so
that `VerifiedByAnother` compares with somebody; the first two stages need no verifier
(`RailAssumption`). `ShownInStep` and `RevisionsInStep` are the two agreements,
statement by statement; in the first a deleted, remade or seeded row is `adrift` until
the mirror of an advance writes it.

**`SyncStatus_proofs`**: `TypeOK`, `GreenIsProof` and `AckNeverFalls` for any servers,
ticks, skews, pins and imports. `Bracketed` carries the first: unless an import took
the revision back between the two reads of the pin (`back = "between"`), the pin has
only gone forward from the first through the count to the second, so a count made
between two equal reads was made under that pin, and the row keeps it. It needs no
lock. `AckNeverFalls` does: while none was lost, whoever is past the lock holds it
(`Exclusive`), so nobody else writes between its read of the pin and its write, and as
long as no import took the row's revision back the row stays behind the pin
(`RowIsBehind`).

Every invariant the runs check is stated by a theorem, and so is every safety action
property. Only model-checked: liveness (`EveryRequestEnds`, `HeartbeatIsServed`,
`SilenceIsNoticed`, `RowIsRenewed`) and the fairness part of `ImplementsMutex`;
fairness and ENABLED are outside the prover.

The lemmas on the rows of `LockTable` open both `CollisionLocks_proofs` and
`RunRegistry_proofs`: the two specifications have variables of the same names, so no
module can extend both.

## 5. Where code and documents part

Two runs show it: `run_registry_torn` (release first, close second, nothing in
between that fences the run, `run-registry.ts:1538`) and `advance_stuck`
(`upsert_task` tells its caller to move the stage with `advance_task`,
`board-mcp.ts:5325`, but the gate's swap moves the entity's revision and not the
lifecycle document's, `board-mcp.ts:1618`, so that the one number the client sends
can no longer equal both).

The following promises are stated as properties in the modules. None holds, and
none is part of a run; with the constants given TLC shows why.

| property | constants | promise and code |
|---|---|---|
| `OneExecutorPerScope` | `MCIdempotency.cfg` | one execution per key (`idempotency.ts:5`, `:140`); deleting an expired row deletes whatever row is there by then (`:174`, `:218`) |
| `AcquireAllOrNone` | `MCCollisionLocks.cfg`, `Procs = {p1}`, no crash, no loss | "all-or-none" (`locks.ts:406`, `ARCHITECTURE.md:287`) holds for what the operation checks, not for rows the store refuses (`locks.ts:527`) |
| `NobodyQueuesForever` | `NamedLock`, 2 requests, 2 boards, `PoolSize = 4` | "fail fast" holds for the queue's bound, not for those in the queue (`db.ts:98`, `control-plane-runtime-persistence.ts:345`) |
| `OnlyTheLeaderApplies` | `MCReconciler.cfg`, `Leaders = {l1, l2}`, no failure, no stall | only the leader applies (`reconciler.ts:2`, `API_CONTRACT.md:196`); it is checked before the lock, not under it (`:614`). The plan is still checked against the runs, so `SparesTheLiving` and `OutcomeStays` hold with a deposed leader |
| `StaleStaysClosed` | `AccountSync` with `Spec`, `Requests = {c1, c2}`, `Rounds = {}`, `Kinds = {"sync"}` | stale means closed (`account-sync.ts:3`); recording a readback of an old publication re-opens a snapshot that another process forced stale (`:1519`) |
| `BuilderNeverVerifies` | `MCLifecycleRail.cfg` | "reject same author/verifier agent, self-verify" (`ARCHITECTURE.md:198`); the implementer is fixed by the first advance, so who built a later stage may verify it (`lifecycle-store.ts:1093`) |
| `BoardRevMonotonic` | `MCLifecycleRail.cfg` | a monotonic integer (`API_CONTRACT.md:96`); an import stores a revision computed from an older read (`control-data-persistence.ts:1375`) |
| `GreenIsAlwaysProof` | `MCSyncStatus.cfg` | the second reading of the pin proves the count (header of `cp0-sync-status-publisher.ts`); an import that brings the first pin back after the count was made under another goes unnoticed (`control-data-persistence.ts:1375`, `cp0-sync-status-publisher.ts:621`) |
| `AckMonotonic` | `MCSyncStatus.cfg` | the acknowledgement only grows; it is computed from the pin read and compared with nothing the row holds (`cp0-sync-status-publisher.ts:439`), so it follows a pin that an import took back |
| `OwnRevisionAlways` | `MCPlanning.cfg` | "single board-rev authority" (`control-plane-ingest.ts:515`); two records carry one revision when an import took the board back over it |
| `BudgetCoversAll` | `MCRunRegistry.cfg` | the parent's budget bounds its unfinished children (`run-registry.ts:790`); legacy registrations name a parent nobody checks (`:776`, `:845`) |
| `ShownIsAlwaysEarned` | `MCLifecycleRail.cfg` | "Every transition requires … evidence hashes … immutable audit receipt" (`ARCHITECTURE.md:185`), "Lifecycle state is preserved" (`board-mcp.ts:5325`); `init_lifecycle` writes MAPPING without one (`:6453`), and a row deleted and made again has no stage while its document keeps its own (`:5377`) |

Seen while reading, for whoever changes this code:

- `mutateDecision` does not look at a decision's date, though `API_CONTRACT.md:183`
  lists DECISION_EXPIRED; a decision expires when it is listed, `listDecisionsV3` has
  no caller outside the tests, and an acknowledgement under way then brings it back.
- A reader may write an EXPIRED copy over a plan that was published anew meanwhile
  (`gap` in `DispatchPlan`); republishing an active plan is replayed even when it
  is due (`control-plane-ingest.ts:454`).
- A gated write bumps the board twice, once in the swap and once after it, which
  the comment at `board-mcp.ts:1659` denies. An import between a gated write's
  check and its swap leaves `subject_hash` different from `canonical_hash`, which
  refuses every import that follows.
- `EvidenceIsFresh` exempts tasks with a write cut short: an advance cut before its
  bump, followed by an import that stores an older revision, lets a receipt of
  before match again.
- A periodic publication repeats `lastIntent`, which may be older than the snapshot;
  the CPU block is undone by the freshness job that follows the publication
  (`account-sync.ts:1840`); a heartbeat's expected revisions are those of its
  enqueueing, so a bump in between loses it; after a restart the scheduler knows no
  board until somebody calls.
- An apply whose GET_LOCK session dies re-reads each run but keeps the action of the
  plan, and so can overwrite an outcome (`reconciler.ts:732`).
- An integration lock that expired but is still HELD blocks other runs at the store
  until a reconciler marks it; a released branch cannot be acquired again by the
  same run, whose lock id is a digest; a RELEASE that throws leaves its idempotency
  row in progress. Migrations are applied without a lock, and the ledger's upsert
  lets two appliers overwrite each other's checksum.

## 6. Not modelled, and the plan

Done: (1) idempotency, (2) collision locks, (3) run registry, (4) named lock and
pool, (5) reconciler, (6) account sync, (7) sync status, (8) mutation gate, import and
lifecycle rail, (9) dispatch plans and decisions; proofs for all of them.

Proofs left: that `CollisionLocks` and the locks of `RunRegistry` implement one
abstract table of claims; an abstract run (queued, leased, closed once) that
`RunRegistry` and `Reconciler` implement.

Modelling left, in order: the loss of the named lock under an apply, a publication
or a gated write; register_run's unlocked read of the dispatch block composed with
`AccountSync`; integration locks; audit retention; migrations. Rows that a legacy
board left at a later stage give their document that stage, the implementer of the
row and no agent or thread (`board-mcp.ts:2484`); `LifecycleRail` starts with rows
without a stage or with none, which may then be seeded with the first, and
`VerifiedByAnother` is about those.

Not modelled, and why:

- Admission (rate limit, csrf, sessions, roles): sequential code around one row or one
  in-memory bucket, with direct unit tests.
- Capacity policy, classification, mapping, roll-ups, projections, snapshots' contents
  and hashing: pure functions of records; what the protocols do with their results
  is modelled, what they compute is data.
- Board documents of the legacy store, human display, product features, lineage,
  knowledge and text tools: one row or document per write, no step in between.
- Web interface, routes, view models, generated route tree, transport, metrics: no
  protocol state. Together with the tests and the tool schemas they are by far most of
  the repository's lines, which is why the modelled files are a small share of it.

Text, formatting, hashing, audit rows and metrics of the modelled parts are left out:
no operation decides anything from them. MySQL, its driver and the clock are modelled
from how the code uses them.
