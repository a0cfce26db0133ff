----------------------------- MODULE LockTable -----------------------------
(***************************************************************************)
(* The rows of control_plane_collision_locks and the rules for writing     *)
(* them: what locks.ts computes from one read of the table, and what the   *)
(* MySQL lock store (control-plane-runtime-persistence.ts) does with each  *)
(* row it is asked to put.                                                 *)
(*                                                                         *)
(* collisionLockId(scope, run) is a digest of its arguments, so a row is   *)
(* identified by the pair <<scope, run>>.  Task and role of the holder     *)
(* only choose the error code of a refusal and are left out.               *)
(***************************************************************************)
EXTENDS Integers, FiniteSets

CONSTANTS
    Runs,       \* run ids that may hold locks
    Scopes,     \* collision scope ids
    Overlap,    \* scopesCollide: pairs of scopes that collide
    Lease       \* lease length, in clock ticks

ASSUME OverlapAssumption ==
    /\ Overlap \subseteq Scopes \X Scopes
    /\ \A s \in Scopes : <<s, s>> \in Overlap
    /\ \A s, t \in Scopes : <<s, t>> \in Overlap => <<t, s>> \in Overlap
ASSUME LeaseAssumption == Lease \in Nat \ {0}

Keys == Scopes \X Runs

States == {"HELD", "RELEASED", "SUPERSEDED", "EXPIRED"}

Row == [state : States, fence : Nat \ {0}, version : Nat \ {0},
        expires : Nat, rev : Nat \ {0}]

\* No row with that key: the INSERT path of a put.
Absent == [state |-> "ABSENT", fence |-> 0, version |-> 0, expires |-> 0, rev |-> 0]

Collide(s, t) == <<s, t>> \in Overlap

Held(row) == row.state = "HELD"

\* isLiveCollision: HELD, and the lease has not run out.
Live(row, t) == Held(row) /\ row.expires > t

\* The HELD rows of a run, as listCollision + filter returns them.
HeldBy(table, r) == {k \in Keys : k[2] = r /\ Held(table[k])}

(***************************************************************************)
(* acquireCollisionLocks: the checks and the rows it decides to write.     *)
(***************************************************************************)
\* The request itself names no two colliding scopes.
SelfConsistent(S) == \A s, t \in S : Collide(s, t) => s = t

\* Mutant: only a lock of the very same scope blocks, overlapping paths do not.
BlockedBySameScope(table, r, S, t) ==
    \E s \in S : \E k \in Keys : k[2] # r /\ s = k[1] /\ Live(table[k], t)

\* A live lock of another run collides with a requested scope, whatever the
\* tasks and roles of the two runs are.
Blocked(table, r, S, t) ==
    \E s \in S : \E k \in Keys :
        k[2] # r /\ Collide(s, k[1]) /\ Live(table[k], t)

Renewed(row, t) == [row EXCEPT !.expires = t + Lease, !.rev = row.rev + 1]

Fresh(fence, t) ==
    [state |-> "HELD", fence |-> fence, version |-> 1, expires |-> t + Lease, rev |-> 1]

\* The run's own live lock of that very scope is renewed under its old token.
Granted(table, r, s, fence, t) ==
    IF Live(table[<<s, r>>], t) THEN Renewed(table[<<s, r>>], t) ELSE Fresh(fence, t)

\* Mutant: closing a row also clears its token.
ClosedWithoutToken(row, state) ==
    [row EXCEPT !.state = state, !.fence = 0, !.rev = row.rev + 1]

Closed(row, state) == [row EXCEPT !.state = state, !.rev = row.rev + 1]

(***************************************************************************)
(* putCollision: an INSERT for a new key, otherwise a compare-and-set on   *)
(* fencing token and entity revision; both keep one HELD row per scope     *)
(* (uq_collision_held_scope).                                              *)
(***************************************************************************)
ScopeTaken(table, key) ==
    \E k \in Keys : k # key /\ k[1] = key[1] /\ Held(table[k])

\* Mutant: the put does not compare entity revisions.
PutAllowedWithoutRevision(table, key, row) ==
    /\ table[key] # Absent /\ table[key] # row => table[key].fence = row.fence
    /\ Held(row) /\ table[key] # row => ~ScopeTaken(table, key)

\* Mutant: no unique index on the held scope.
PutAllowedWithoutIndex(table, key, row) ==
    table[key] # Absent /\ table[key] # row =>
        table[key].fence = row.fence /\ table[key].rev < row.rev

PutAllowed(table, key, row) ==
    \/ table[key] = row
    \/ /\ table[key] # Absent => /\ table[key].fence = row.fence
                                 /\ table[key].rev < row.rev
       /\ Held(row) => ~ScopeTaken(table, key)

Put(table, key, row) == [table EXCEPT ![key] = row]

(***************************************************************************)
(* A row an operation has decided to write: when its loop throws, instead  *)
(* of ("before") or right after ("after") writing it, and its place in the *)
(* statement order.                                                        *)
(***************************************************************************)
Write == [key : Keys, row : Row, throws : {"never", "before", "after"}, order : {1, 2}]

Plain(k, row) == [key |-> k, row |-> row, throws |-> "never", order |-> 1]

IsNext(W, w) == \A v \in W : w.order <= v.order

\* acquireCollisionLocks, once its checks have passed.
AcquireWrites(table, r, S, fence, t) ==
    {Plain(<<s, r>>, Granted(table, r, s, fence, t)) : s \in S}

\* renewCollisionLocks: the loop stops at the first row with another token, and
\* at the first row whose lease ran out, which it marks EXPIRED.
RenewWrite(table, k, fence, t) ==
    IF table[k].fence # fence
    THEN [key |-> k, row |-> table[k], throws |-> "before", order |-> 1]
    ELSE IF table[k].expires <= t
    THEN [key |-> k, row |-> Closed(table[k], "EXPIRED"), throws |-> "after", order |-> 1]
    ELSE Plain(k, Renewed(table[k], t))

RenewWrites(table, r, fence, t) ==
    {RenewWrite(table, k, fence, t) : k \in HeldBy(table, r)}

\* releaseCollisionLocks: stops at the first row with another token.
ReleaseWrite(table, k, fence) ==
    IF table[k].fence # fence
    THEN [key |-> k, row |-> table[k], throws |-> "before", order |-> 1]
    ELSE Plain(k, Closed(table[k], "RELEASED"))

ReleaseWrites(table, r, fence) ==
    {ReleaseWrite(table, k, fence) : k \in HeldBy(table, r)}

\* markExpiredLocks: every HELD row whose lease ran out.
ExpireWrites(table, t) ==
    {Plain(k, Closed(table[k], "EXPIRED")) :
        k \in {k \in Keys : Held(table[k]) /\ table[k].expires <= t}}
=============================================================================
