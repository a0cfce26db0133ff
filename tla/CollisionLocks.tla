--------------------------- MODULE CollisionLocks ---------------------------
(***************************************************************************)
(* The collision-lock service: the operations of locks.ts, each run by a   *)
(* server process under the board's named lock (GET_LOCK cp_rt_<board>).   *)
(*                                                                         *)
(* An operation reads the whole table once, decides which rows to write,   *)
(* and writes them one autocommitted statement at a time.  The process may *)
(* die between two statements, and the connection that holds the named     *)
(* lock may drop while the operation goes on over the pool.                *)
(***************************************************************************)
EXTENDS LockTable

CONSTANTS
    Procs,          \* server processes
    NoProc,         \* the named lock is free
    MayCrash,       \* a process may die between two statements
    MutexMayDrop,   \* the pinned connection may be lost
    MaxTime, MaxFence, MaxRev   \* bounds

ASSUME ProcsAssumption == NoProc \notin Procs
ASSUME FaultsAssumption == MayCrash \in BOOLEAN /\ MutexMayDrop \in BOOLEAN
ASSUME BoundsAssumption == MaxTime \in Nat /\ MaxFence \in Nat /\ MaxRev \in Nat

VARIABLES
    lock,       \* the table: <<scope, run>> -> row
    todo,       \* process -> the rows its operation has still to write
    mutex,      \* holder of the named lock
    now,        \* the clock
    fences,     \* fencing tokens issued so far (randomUUID: never repeated)
    dropped     \* history: some process lost the named lock mid-operation

vars == <<lock, todo, mutex, now, fences, dropped>>

\* withBoardLock: wait for the named lock, read the table, decide.
Begin(p, writes) ==
    /\ todo[p] = {}
    /\ mutex = NoProc
    /\ writes # {}
    /\ todo' = [todo EXCEPT ![p] = writes]
    /\ mutex' = p
    /\ UNCHANGED <<lock, now, dropped>>

(***************************************************************************)
(* acquireCollisionLocks.  A refused request changes nothing.              *)
(***************************************************************************)
\* The code lets a run take a scope that collides with one it already holds; its
\* caller never asks for that, register_run acquires once per run.
ClearOfOwn(r, S) == \A k \in HeldBy(lock, r) : \A s \in S : Collide(s, k[1]) => s = k[1]

\* Bound: how often a row is renewed.
Renewable(r) == \A k \in HeldBy(lock, r) : lock[k].rev < MaxRev

Acquire(p, r, S) ==
    /\ SelfConsistent(S)
    /\ ClearOfOwn(r, S)
    /\ ~Blocked(lock, r, S, now)
    /\ Renewable(r)
    /\ fences < MaxFence
    /\ fences' = fences + 1
    /\ Begin(p, AcquireWrites(lock, r, S, fences + 1, now))

\* renewCollisionLocks.
Renew(p, r, fence) ==
    /\ Renewable(r)
    /\ Begin(p, RenewWrites(lock, r, fence, now))
    /\ UNCHANGED fences

\* releaseCollisionLocks.
Release(p, r, fence) ==
    /\ Begin(p, ReleaseWrites(lock, r, fence))
    /\ UNCHANGED fences

\* supersedeCollisionLock: the live lock of the scope is closed, then the new
\* run's row is inserted with the next fencing version.
Supersede(p, s, fence, new) ==
    \E r \in Runs :
        /\ Live(lock[<<s, r>>], now)
        /\ lock[<<s, r>>].fence = fence
        /\ fences < MaxFence
        /\ fences' = fences + 1
        /\ Begin(p,
                 {Plain(<<s, r>>, Closed(lock[<<s, r>>], "SUPERSEDED")),
                  [key |-> <<s, new>>,
                   row |-> [Fresh(fences + 1, now) EXCEPT
                               !.version = lock[<<s, r>>].version + 1],
                   throws |-> "never", order |-> 2]})

\* markExpiredLocks.
MarkExpired(p) ==
    /\ Begin(p, ExpireWrites(lock, now))
    /\ UNCHANGED fences

(***************************************************************************)
(* The write loop.                                                         *)
(***************************************************************************)
\* The operation returns or throws; withMysqlNamedLock releases the lock.
ReleaseMutex(p) == mutex' = IF mutex = p THEN NoProc ELSE mutex

End(p) ==
    /\ todo' = [todo EXCEPT ![p] = {}]
    /\ ReleaseMutex(p)

Proceed(p, w) ==
    LET rest == IF w.throws = "after" THEN {} ELSE todo[p] \ {w} IN
    /\ todo' = [todo EXCEPT ![p] = rest]
    /\ IF rest = {} THEN ReleaseMutex(p) ELSE UNCHANGED mutex

WriteRow(p) ==
    \E w \in todo[p] :
        /\ IsNext(todo[p], w)
        /\ w.throws # "before"
        /\ PutAllowed(lock, w.key, w.row)
        /\ lock' = Put(lock, w.key, w.row)
        /\ Proceed(p, w)
        /\ UNCHANGED <<now, fences, dropped>>

\* FENCED by the operation itself, or the store refuses the row: the rows
\* already written stay.
Throw(p) ==
    \E w \in todo[p] :
        /\ IsNext(todo[p], w)
        /\ w.throws = "before" \/ ~PutAllowed(lock, w.key, w.row)
        /\ End(p)
        /\ UNCHANGED <<lock, now, fences, dropped>>

Crash(p) ==
    /\ MayCrash
    /\ todo[p] # {}
    /\ End(p)
    /\ UNCHANGED <<lock, now, fences, dropped>>

\* The session that took GET_LOCK dies; the operation does not notice.
DropMutex(p) ==
    /\ MutexMayDrop
    /\ todo[p] # {}
    /\ mutex = p
    /\ ~dropped                \* bound: once
    /\ mutex' = NoProc
    /\ dropped' = TRUE
    /\ UNCHANGED <<lock, todo, now, fences>>

Tick ==
    /\ now < MaxTime
    /\ now' = now + 1
    /\ UNCHANGED <<lock, todo, mutex, fences, dropped>>

Init ==
    /\ lock = [k \in Keys |-> Absent]
    /\ todo = [p \in Procs |-> {}]
    /\ mutex = NoProc
    /\ now = 0
    /\ fences = 0
    /\ dropped = FALSE

\* A client presents any token it may have been given.
Request(p) ==
    \/ \E r \in Runs : \E S \in SUBSET Scopes : Acquire(p, r, S)
    \/ \E r \in Runs : \E f \in 1..fences : Renew(p, r, f)
    \/ \E r \in Runs : \E f \in 1..fences : Release(p, r, f)
    \/ \E s \in Scopes : \E f \in 1..fences : \E r \in Runs : Supersede(p, s, f, r)
    \/ MarkExpired(p)

Next ==
    \/ Tick
    \/ \E p \in Procs :
          \/ Request(p)
          \/ WriteRow(p) \/ Throw(p) \/ Crash(p) \/ DropMutex(p)

Spec == Init /\ [][Next]_vars

(***************************************************************************)
(* Properties                                                              *)
(***************************************************************************)
TypeOK ==
    /\ lock \in [Keys -> Row \cup {Absent}]
    /\ todo \in [Procs -> SUBSET Write]
    /\ mutex \in Procs \cup {NoProc}
    /\ now \in Nat
    /\ fences \in Nat
    /\ dropped \in BOOLEAN

\* Exclusion: two different live locks never cover colliding scopes, across
\* acquire, renewal, supersession, lease expiry and crashes -- as long as no
\* process was cut off from the named lock it works under.
LiveLocksNeverCollide ==
    ~dropped =>
        \A j, k \in Keys :
            Live(lock[j], now) /\ Live(lock[k], now) /\ Collide(j[1], k[1]) => j = k

\* One HELD row per scope, also when the named lock was lost
\* (uq_collision_held_scope is the authority).
OneHolderPerScope ==
    \A j, k \in Keys : Held(lock[j]) /\ Held(lock[k]) /\ j[1] = k[1] => j = k

\* "Old history remains immutable": a row that left HELD never changes again,
\* and no row changes its token -- even when a process writes from an old read.
HistoryStep ==
    \A k \in Keys : lock[k] # Absent =>
        /\ lock'[k].fence = lock[k].fence
        /\ ~Held(lock[k]) => lock'[k] = lock[k]
HistoryIsImmutable == [][HistoryStep]_vars

\* "Acquire-all-or-none": when the store refuses a row of an acquire, no scope of
\* the request is HELD under the token the acquire was issuing.
AcquireThrows(p, w) ==
    /\ w \in todo[p] /\ w.row.version = 1 /\ w.row.rev = 1
    /\ lock[w.key] = Absent /\ Throw(p) /\ ~PutAllowed(lock, w.key, w.row)
AllOrNoneStep ==
    \A p \in Procs : \A w \in todo[p] : AcquireThrows(p, w) =>
        \A k \in Keys : Held(lock[k]) => lock[k].fence # w.row.fence
AcquireAllOrNone == [][AllOrNoneStep]_vars
=============================================================================
