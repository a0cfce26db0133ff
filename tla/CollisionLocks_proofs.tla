------------------------ MODULE CollisionLocks_proofs ------------------------
(***************************************************************************)
(* Proofs about CollisionLocks, for any runs, scopes, overlap relation,    *)
(* processes, lease and bounds, with crashes and lost named locks.         *)
(***************************************************************************)
EXTENDS CollisionLocks, TLAPS

(***************************************************************************)
(* What the rows of LockTable look like, for any runs, scopes, overlap     *)
(* relation and lease (RunRegistry_proofs has the same, and the writes).   *)
(***************************************************************************)
Table == [Keys -> Row \cup {Absent}]

\* A write whose row is HELD once it has happened.
Holds(w) == Held(w.row) /\ w.throws # "before"

LEMMA AbsentIsNoRow == Absent \notin Row
BY DEF Absent, Row, States

LEMMA RowsMade ==
    ASSUME NEW row \in Row, NEW t \in Nat, NEW state \in States
    PROVE  /\ Renewed(row, t) \in Row
           /\ Renewed(row, t).state = row.state
           /\ Renewed(row, t).fence = row.fence
           /\ Renewed(row, t).rev = row.rev + 1
           /\ Renewed(row, t).expires = t + Lease
           /\ Closed(row, state) \in Row
           /\ Closed(row, state).state = state
           /\ Closed(row, state).fence = row.fence
           /\ Closed(row, state).rev = row.rev + 1
<1>1. t + Lease \in Nat
  BY LeaseAssumption
<1>2. row.rev + 1 \in Nat \ {0}
  BY DEF Row
<1>3. /\ Renewed(row, t) \in Row
      /\ Renewed(row, t).state = row.state
      /\ Renewed(row, t).fence = row.fence
      /\ Renewed(row, t).rev = row.rev + 1
      /\ Renewed(row, t).expires = t + Lease
  BY <1>1, <1>2 DEF Renewed, Row
<1>4. /\ Closed(row, state) \in Row
      /\ Closed(row, state).state = state
      /\ Closed(row, state).fence = row.fence
      /\ Closed(row, state).rev = row.rev + 1
  BY <1>2 DEF Closed, Row
<1>5. QED
  BY <1>3, <1>4

LEMMA FreshMade ==
    ASSUME NEW f \in Nat \ {0}, NEW t \in Nat
    PROVE  /\ Fresh(f, t) \in Row
           /\ Fresh(f, t).state = "HELD"
           /\ Fresh(f, t).fence = f
           /\ Fresh(f, t).rev = 1
           /\ Fresh(f, t).expires = t + Lease
<1>1. t + Lease \in Nat
  BY LeaseAssumption
<1>2. QED
  BY <1>1 DEF Fresh, Row, States

LEMMA KeyParts ==
    ASSUME NEW k \in Keys
    PROVE  k = <<k[1], k[2]>> /\ k[1] \in Scopes /\ k[2] \in Runs
BY DEF Keys

LEMMA CollideSymmetric ==
    ASSUME NEW s \in Scopes, NEW t \in Scopes
    PROVE  Collide(s, s) /\ (Collide(s, t) => Collide(t, s))
BY OverlapAssumption DEF Collide

LEMMA PlainIsWrite ==
    ASSUME NEW k \in Keys, NEW row \in Row
    PROVE  /\ Plain(k, row) \in Write
           /\ Plain(k, row).key = k
           /\ Plain(k, row).row = row
           /\ Plain(k, row).throws = "never"
           /\ Plain(k, row).order = 1
BY DEF Plain, Write

LEMMA HeldRow ==
    ASSUME NEW table \in Table, NEW k \in Keys, Held(table[k])
    PROVE  table[k] \in Row /\ table[k] # Absent
BY AbsentIsNoRow DEF Table, Held, Absent

(***************************************************************************)
(* The inductive invariant behind them.                                    *)
(***************************************************************************)
\* Tokens come from one source.
FencesIssued ==
    /\ \A k \in Keys : lock[k].fence <= fences
    /\ \A p \in Procs : \A w \in todo[p] : w.row.fence <= fences

\* A pending write was computed from the row as it was, or is an insert: under the
\* row's token it is at most one revision ahead, and not ahead of a closed row.
Nearby(table, w) ==
    IF table[w.key] = Absent
    THEN w.row.rev = 1
    ELSE table[w.key].fence = w.row.fence =>
            /\ w.row.rev <= table[w.key].rev + 1
            /\ ~Held(table[w.key]) => w.row.rev <= table[w.key].rev
PendingIsNearby == \A p \in Procs : \A w \in todo[p] : Nearby(lock, w)

\* The process that works on the table holds the named lock.
Serial == \A p \in Procs : todo[p] # {} => mutex = p

\* A live row in the way of a pending HELD row is closed before it is written.
WayIsClear(table, W, t) ==
    \A w \in W : \A k \in Keys :
        /\ Holds(w) /\ k # w.key
        /\ Live(table[k], t) /\ Collide(k[1], w.key[1])
        => \E v \in W : v.key = k /\ ~Held(v.row) /\ v.order < w.order

\* Nor do the pending HELD rows collide with each other.
Apart(W) ==
    \A v, w \in W :
        Holds(v) /\ Holds(w) /\ Collide(v.key[1], w.key[1]) => v.key = w.key

Guarded ==
    ~dropped =>
        /\ Serial
        /\ \A p \in Procs : WayIsClear(lock, todo[p], now) /\ Apart(todo[p])

IInv ==
    /\ TypeOK
    /\ FencesIssued
    /\ PendingIsNearby
    /\ OneHolderPerScope
    /\ Guarded
    /\ LiveLocksNeverCollide

(***************************************************************************)
(* Rows and writes.                                                        *)
(***************************************************************************)
LEMMA HeldIsRow ==
    ASSUME TypeOK, NEW k \in Keys, Held(lock[k])
    PROVE  lock[k] \in Row /\ lock[k] # Absent
BY HeldRow DEF TypeOK, Table

LEMMA LiveIsRow ==
    ASSUME TypeOK, NEW k \in Keys, NEW t, Live(lock[k], t)
    PROVE  lock[k] \in Row /\ lock[k] # Absent /\ Held(lock[k])
BY HeldIsRow DEF Live

(***************************************************************************)
(* Starting an operation.                                                  *)
(***************************************************************************)
\* What an operation must establish about the rows it decides to write.
Sound(W, f) ==
    /\ W \subseteq Write
    /\ \A w \in W : w.row.fence <= f /\ Nearby(lock, w)
    /\ ~dropped => WayIsClear(lock, W, now) /\ Apart(W)

LEMMA BeginKeeps ==
    ASSUME IInv, NEW p \in Procs, NEW W, Begin(p, W),
           fences' \in Nat, fences <= fences', Sound(W, fences')
    PROVE  IInv'
<1> USE DEF IInv
<1>1. /\ lock' = lock /\ now' = now /\ dropped' = dropped
      /\ todo' = [todo EXCEPT ![p] = W] /\ mutex' = p /\ mutex = NoProc
  BY DEF Begin
<1>2. TypeOK'
  BY <1>1 DEF TypeOK, Sound
<1>3. FencesIssued'
  <2>1. \A k \in Keys : lock[k].fence \in Nat
    BY DEF TypeOK, Row, Absent
  <2>2. \A q \in Procs : \A w \in todo[q] : w.row.fence \in Nat
    BY DEF TypeOK, Write, Row
  <2>3. \A k \in Keys : lock'[k].fence <= fences'
    BY <1>1, <2>1 DEF FencesIssued, TypeOK
  <2>4. ASSUME NEW q \in Procs, NEW w \in todo'[q] PROVE w.row.fence <= fences'
    <3>1. CASE q = p
      BY <1>1, <3>1 DEF TypeOK, Sound
    <3>2. CASE q # p
      BY <1>1, <2>2, <3>2 DEF TypeOK, FencesIssued
    <3>3. QED
      BY <3>1, <3>2
  <2>5. QED
    BY <2>3, <2>4 DEF FencesIssued
<1>4. PendingIsNearby'
  <2> SUFFICES ASSUME NEW q \in Procs, NEW w \in todo'[q] PROVE Nearby(lock, w)
    BY <1>1 DEF PendingIsNearby, Nearby
  <2>1. CASE q = p
    BY <1>1, <2>1 DEF TypeOK, Sound
  <2>2. CASE q # p
    BY <1>1, <2>2 DEF TypeOK, PendingIsNearby
  <2>3. QED
    BY <2>1, <2>2
<1>5. OneHolderPerScope' /\ LiveLocksNeverCollide'
  BY <1>1 DEF OneHolderPerScope, LiveLocksNeverCollide, Held, Live, Collide
<1>6. Guarded'
  <2> SUFFICES ASSUME ~dropped
               PROVE  /\ Serial'
                      /\ \A q \in Procs : WayIsClear(lock', todo'[q], now') /\ Apart(todo'[q])
    BY <1>1 DEF Guarded, WayIsClear, Apart
  <2>1. \A q \in Procs : todo[q] = {}
    BY <1>1, ProcsAssumption DEF Guarded, Serial
  <2>2. \A q \in Procs : todo'[q] = IF q = p THEN W ELSE {}
    BY <1>1, <2>1 DEF TypeOK
  <2>3. Serial'
    BY <1>1, <2>2 DEF Serial
  <2>4. ASSUME NEW q \in Procs PROVE WayIsClear(lock', todo'[q], now') /\ Apart(todo'[q])
    BY <1>1, <2>2 DEF Sound, WayIsClear, Apart
  <2>5. QED
    BY <2>3, <2>4
<1>7. QED
  BY <1>2, <1>3, <1>4, <1>5, <1>6

(***************************************************************************)
(* The five operations write sound rows.                                   *)
(***************************************************************************)
\* A write computed from a HELD row of the table.
LEMMA UpdateIsSound ==
    ASSUME IInv, NEW k \in Keys, Held(lock[k]), NEW row \in Row,
           row.fence = lock[k].fence, row.rev \in {lock[k].rev, lock[k].rev + 1},
           NEW w \in Write, w.key = k, w.row = row
    PROVE  w.row.fence <= fences /\ Nearby(lock, w)
<1>1. lock[k] \in Row /\ lock[k] # Absent
  BY HeldIsRow DEF IInv
<1>2. row.rev <= lock[k].rev + 1
  BY <1>1 DEF Row
<1>3. QED
  BY <1>1, <1>2 DEF IInv, FencesIssued, Nearby

\* A row under a new token.
LEMMA FreshIsSound ==
    ASSUME IInv, NEW w \in Write, w.row.fence = fences + 1, w.row.rev = 1
    PROVE  w.row.fence <= fences + 1 /\ Nearby(lock, w)
<1>1. w.key \in Keys /\ fences \in Nat
  BY DEF Write, IInv, TypeOK
<1>2. lock[w.key].fence \in Nat /\ lock[w.key].fence <= fences
  BY <1>1 DEF IInv, TypeOK, FencesIssued, Row, Absent
<1>3. QED
  BY <1>1, <1>2 DEF Nearby

LEMMA AcquireKeeps ==
    ASSUME IInv, NEW p \in Procs, NEW r \in Runs, NEW S \in SUBSET Scopes,
           Acquire(p, r, S)
    PROVE  IInv'
<1> DEFINE row(s) == Granted(lock, r, s, fences + 1, now)
           W == AcquireWrites(lock, r, S, fences + 1, now)
<1>1. now \in Nat /\ fences \in Nat /\ fences + 1 \in Nat \ {0}
  BY DEF IInv, TypeOK
<1>2. ASSUME NEW s \in S
      PROVE  LET w == Plain(<<s, r>>, row(s)) IN
             /\ w \in Write /\ w.key = <<s, r>> /\ w.row = row(s) /\ w.throws = "never"
             /\ w.row.fence <= fences + 1 /\ Nearby(lock, w)
  <2> DEFINE w == Plain(<<s, r>>, row(s))
             k == <<s, r>>
  <2>1. k \in Keys
    BY DEF Keys
  <2>2. CASE Live(lock[k], now)
    <3>1. Held(lock[k]) /\ lock[k] \in Row
      BY <2>1, <2>2, LiveIsRow DEF IInv
    <3>2. /\ row(s) \in Row /\ row(s).fence = lock[k].fence
          /\ row(s).rev = lock[k].rev + 1
      BY <1>1, <2>2, <3>1, RowsMade DEF Granted, States
    <3>3. /\ w \in Write /\ w.key = k /\ w.row = row(s) /\ w.throws = "never"
      BY <2>1, <3>2, PlainIsWrite
    <3>4. w.row.fence <= fences /\ Nearby(lock, w)
      BY <2>1, <3>1, <3>2, <3>3, UpdateIsSound
    <3>5. w.row.fence \in Nat
      BY <3>2, <3>3 DEF Row
    <3>6. QED
      BY <1>1, <3>3, <3>4, <3>5
  <2>3. CASE ~Live(lock[k], now)
    <3>1. row(s) \in Row /\ row(s).fence = fences + 1 /\ row(s).rev = 1
      BY <1>1, <2>3, FreshMade DEF Granted
    <3>2. /\ w \in Write /\ w.key = k /\ w.row = row(s) /\ w.throws = "never"
      BY <2>1, <3>1, PlainIsWrite
    <3>3. QED
      BY <3>1, <3>2, FreshIsSound
  <2>4. QED
    BY <2>2, <2>3
<1>3. ASSUME NEW w \in W PROVE \E s \in S : w.key = <<s, r>> /\ w.key[1] = s
  <2>1. PICK s \in S : w = Plain(<<s, r>>, row(s))
    BY DEF AcquireWrites
  <2>2. w.key = <<s, r>>
    BY <2>1, <1>2
  <2>3. QED
    BY <2>2
<1>4. WayIsClear(lock, W, now)
  <2> SUFFICES ASSUME NEW w \in W, NEW k \in Keys, k # w.key,
                      Live(lock[k], now), Collide(k[1], w.key[1])
               PROVE  FALSE
    BY DEF WayIsClear
  <2>1. PICK s \in S : w.key = <<s, r>> /\ w.key[1] = s
    BY <1>3
  <2>2. k = <<k[1], k[2]>> /\ k[1] \in Scopes /\ Collide(s, k[1])
    BY <2>1, KeyParts, CollideSymmetric
  <2>3. CASE k[2] = r
    <3>1. k \in HeldBy(lock, r)
      BY <2>3 DEF HeldBy, Live
    <3>2. s = k[1]
      BY <2>2, <3>1 DEF Acquire, ClearOfOwn
    <3>3. QED
      BY <2>1, <2>2, <2>3, <3>2
  <2>4. CASE k[2] # r
    BY <2>2, <2>4 DEF Acquire, Blocked
  <2>5. QED
    BY <2>3, <2>4
<1>5. Apart(W)
  <2> SUFFICES ASSUME NEW v \in W, NEW w \in W, Collide(v.key[1], w.key[1])
               PROVE  v.key = w.key
    BY DEF Apart
  <2>1. \A s, t \in S : Collide(s, t) => s = t
    BY DEF Acquire, SelfConsistent
  <2>2. QED
    BY <1>3, <2>1
<1>6. Sound(W, fences')
  BY <1>2, <1>4, <1>5 DEF Sound, Acquire, AcquireWrites
<1>7. Begin(p, W) /\ fences' = fences + 1
  BY DEF Acquire
<1>8. QED
  BY <1>1, <1>6, <1>7, BeginKeeps

\* An operation that only writes rows HELD by then, and live if they stay HELD,
\* finds the way clear: live locks do not collide.
LEMMA LiveUpdatesAreClear ==
    ASSUME IInv, NEW W, \A w \in W : w.key \in Keys /\ (Holds(w) => Live(lock[w.key], now))
    PROVE  ~dropped => WayIsClear(lock, W, now) /\ Apart(W)
BY DEF IInv, LiveLocksNeverCollide, WayIsClear, Apart

\* The verdict on one row: stop before it, stop after it, or go on.
LEMMA StopIsSound ==
    ASSUME IInv, NEW k \in Keys, Held(lock[k]), NEW w,
           w = [key |-> k, row |-> lock[k], throws |-> "before", order |-> 1]
    PROVE  /\ w \in Write /\ w.key = k /\ ~Holds(w)
           /\ w.row.fence <= fences /\ Nearby(lock, w)
<1>1. lock[k] \in Row
  BY HeldIsRow DEF IInv
<1>2. w \in Write /\ w.key = k /\ w.row = lock[k] /\ ~Holds(w)
  BY <1>1 DEF Write, Holds
<1>3. lock[k].fence = lock[k].fence /\ lock[k].rev \in {lock[k].rev, lock[k].rev + 1}
  OBVIOUS
<1>4. QED
  BY <1>1, <1>2, <1>3, UpdateIsSound

LEMMA CloseIsSound ==
    ASSUME IInv, NEW k \in Keys, Held(lock[k]), NEW state \in States \ {"HELD"},
           NEW throws \in {"never", "after"}, NEW w,
           w = [key |-> k, row |-> Closed(lock[k], state), throws |-> throws, order |-> 1]
    PROVE  /\ w \in Write /\ w.key = k /\ ~Held(w.row) /\ ~Holds(w)
           /\ w.row.fence <= fences /\ Nearby(lock, w)
<1> DEFINE row == Closed(lock[k], state)
<1>1. lock[k] \in Row /\ now \in Nat
  BY HeldIsRow DEF IInv, TypeOK
<1>2. /\ row \in Row /\ row.state = state
      /\ row.fence = lock[k].fence /\ row.rev = lock[k].rev + 1
  BY <1>1, RowsMade
<1>3. w \in Write /\ w.key = k /\ w.row = row /\ ~Held(w.row) /\ ~Holds(w)
  BY <1>2 DEF Write, Holds, Held
<1>4. QED
  BY <1>2, <1>3, UpdateIsSound

LEMMA RenewKeeps ==
    ASSUME IInv, NEW p \in Procs, NEW r \in Runs, NEW f, Renew(p, r, f)
    PROVE  IInv'
<1> DEFINE W == RenewWrites(lock, r, f, now)
<1>1. ASSUME NEW k \in HeldBy(lock, r)
      PROVE  LET w == RenewWrite(lock, k, f, now) IN
             /\ w \in Write /\ w.key = k /\ (Holds(w) => Live(lock[k], now))
             /\ w.row.fence <= fences /\ Nearby(lock, w)
  <2>1. k \in Keys /\ Held(lock[k]) /\ lock[k] \in Row /\ now \in Nat
    BY HeldIsRow DEF HeldBy, IInv, TypeOK
  <2>2. CASE lock[k].fence # f
    <3>1. RenewWrite(lock, k, f, now) = [key |-> k, row |-> lock[k], throws |-> "before", order |-> 1]
      BY <2>2 DEF RenewWrite
    <3>2. QED
      BY <2>1, <3>1, StopIsSound
  <2>3. CASE lock[k].fence = f /\ lock[k].expires <= now
    <3>1. RenewWrite(lock, k, f, now) =
            [key |-> k, row |-> Closed(lock[k], "EXPIRED"), throws |-> "after", order |-> 1]
      BY <2>3 DEF RenewWrite
    <3>2. QED
      BY <2>1, <3>1, CloseIsSound DEF States
  <2>4. CASE lock[k].fence = f /\ ~(lock[k].expires <= now)
    <3>1. RenewWrite(lock, k, f, now) = Plain(k, Renewed(lock[k], now))
      BY <2>4 DEF RenewWrite
    <3>2. Live(lock[k], now)
      BY <2>1, <2>4 DEF Live, Row
    <3>3. /\ Renewed(lock[k], now) \in Row
          /\ Renewed(lock[k], now).fence = lock[k].fence
          /\ Renewed(lock[k], now).rev \in {lock[k].rev, lock[k].rev + 1}
      BY <2>1, RowsMade DEF States
    <3>4. QED
      BY <2>1, <3>1, <3>2, <3>3, PlainIsWrite, UpdateIsSound
  <2>5. QED
    BY <2>2, <2>3, <2>4
<1>2. \A w \in W : w.key \in Keys /\ (Holds(w) => Live(lock[w.key], now))
  BY <1>1 DEF RenewWrites, HeldBy
<1>3. Begin(p, W) /\ fences' = fences /\ fences \in Nat
  BY DEF Renew, IInv, TypeOK
<1>4. Sound(W, fences')
  BY <1>1, <1>2, <1>3, LiveUpdatesAreClear DEF Sound, RenewWrites
<1>5. QED
  BY <1>3, <1>4, BeginKeeps

LEMMA ReleaseKeeps ==
    ASSUME IInv, NEW p \in Procs, NEW r \in Runs, NEW f, Release(p, r, f)
    PROVE  IInv'
<1> DEFINE W == ReleaseWrites(lock, r, f)
<1>1. ASSUME NEW k \in HeldBy(lock, r)
      PROVE  LET w == ReleaseWrite(lock, k, f) IN
             /\ w \in Write /\ w.key = k /\ ~Holds(w)
             /\ w.row.fence <= fences /\ Nearby(lock, w)
  <2>1. k \in Keys /\ Held(lock[k])
    BY DEF HeldBy
  <2>2. CASE lock[k].fence # f
    <3>1. ReleaseWrite(lock, k, f) = [key |-> k, row |-> lock[k], throws |-> "before", order |-> 1]
      BY <2>2 DEF ReleaseWrite
    <3>2. QED
      BY <2>1, <3>1, StopIsSound
  <2>3. CASE lock[k].fence = f
    <3>1. ReleaseWrite(lock, k, f) =
            [key |-> k, row |-> Closed(lock[k], "RELEASED"), throws |-> "never", order |-> 1]
      BY <2>3 DEF ReleaseWrite, Plain
    <3>2. QED
      BY <2>1, <3>1, CloseIsSound DEF States
  <2>4. QED
    BY <2>2, <2>3
<1>2. \A w \in W : w.key \in Keys /\ (Holds(w) => Live(lock[w.key], now))
  BY <1>1 DEF ReleaseWrites, HeldBy
<1>3. Begin(p, W) /\ fences' = fences /\ fences \in Nat
  BY DEF Release, IInv, TypeOK
<1>4. Sound(W, fences')
  BY <1>1, <1>2, <1>3, LiveUpdatesAreClear DEF Sound, ReleaseWrites
<1>5. QED
  BY <1>3, <1>4, BeginKeeps

LEMMA MarkExpiredKeeps ==
    ASSUME IInv, NEW p \in Procs, MarkExpired(p)
    PROVE  IInv'
<1> DEFINE K == {k \in Keys : Held(lock[k]) /\ lock[k].expires <= now}
           W == ExpireWrites(lock, now)
<1>1. ASSUME NEW k \in K
      PROVE  LET w == Plain(k, Closed(lock[k], "EXPIRED")) IN
             /\ w \in Write /\ w.key = k /\ ~Holds(w)
             /\ w.row.fence <= fences /\ Nearby(lock, w)
  <2>1. Plain(k, Closed(lock[k], "EXPIRED")) =
            [key |-> k, row |-> Closed(lock[k], "EXPIRED"), throws |-> "never", order |-> 1]
    BY DEF Plain
  <2>2. QED
    BY <2>1, CloseIsSound DEF States
<1>2. \A w \in W : w.key \in Keys /\ (Holds(w) => Live(lock[w.key], now))
  BY <1>1 DEF ExpireWrites
<1>3. Begin(p, W) /\ fences' = fences /\ fences \in Nat
  BY DEF MarkExpired, IInv, TypeOK
<1>4. Sound(W, fences')
  BY <1>1, <1>2, <1>3, LiveUpdatesAreClear DEF Sound, ExpireWrites
<1>5. QED
  BY <1>3, <1>4, BeginKeeps

LEMMA SupersedeKeeps ==
    ASSUME IInv, NEW p \in Procs, NEW s \in Scopes, NEW f, NEW new \in Runs,
           Supersede(p, s, f, new)
    PROVE  IInv'
<1>1. PICK r \in Runs :
        /\ Live(lock[<<s, r>>], now)
        /\ fences' = fences + 1
        /\ Begin(p,
                 {Plain(<<s, r>>, Closed(lock[<<s, r>>], "SUPERSEDED")),
                  [key |-> <<s, new>>,
                   row |-> [Fresh(fences + 1, now) EXCEPT
                               !.version = lock[<<s, r>>].version + 1],
                   throws |-> "never", order |-> 2]})
  BY DEF Supersede
<1> DEFINE old == <<s, r>>
           key == <<s, new>>
           row == [Fresh(fences + 1, now) EXCEPT !.version = lock[old].version + 1]
           v == Plain(old, Closed(lock[old], "SUPERSEDED"))
           w == [key |-> key, row |-> row, throws |-> "never", order |-> 2]
<1>2. old \in Keys /\ key \in Keys /\ old[1] = s /\ key[1] = s
  BY DEF Keys
<1>3. Held(lock[old]) /\ lock[old] \in Row
  BY <1>1, <1>2, LiveIsRow DEF IInv
<1>4. now \in Nat /\ fences \in Nat /\ fences + 1 \in Nat \ {0}
  BY DEF IInv, TypeOK
<1>5. /\ v \in Write /\ v.key = old /\ ~Held(v.row) /\ ~Holds(v) /\ v.order = 1
      /\ v.row.fence <= fences /\ Nearby(lock, v)
  <2>1. v = [key |-> old, row |-> Closed(lock[old], "SUPERSEDED"),
             throws |-> "never", order |-> 1]
    BY DEF Plain
  <2>2. QED
    BY <1>2, <1>3, <2>1, CloseIsSound DEF States
<1>6. row \in Row /\ row.fence = fences + 1 /\ row.rev = 1
  <2>1. /\ Fresh(fences + 1, now) \in Row
        /\ Fresh(fences + 1, now).fence = fences + 1
        /\ Fresh(fences + 1, now).rev = 1
    BY <1>4, FreshMade
  <2>2. lock[old].version + 1 \in Nat \ {0}
    BY <1>3 DEF Row
  <2>3. QED
    BY <2>1, <2>2 DEF Row
<1>7. /\ w \in Write /\ w.key = key /\ w.row = row /\ w.order = 2
      /\ w.row.fence <= fences + 1 /\ Nearby(lock, w)
  <2>1. w \in Write /\ w.key = key /\ w.row = row /\ w.order = 2
    BY <1>2, <1>6 DEF Write
  <2>2. QED
    BY <1>6, <2>1, FreshIsSound
<1>8. ASSUME ~dropped PROVE WayIsClear(lock, {v, w}, now)
  <2>1. ASSUME NEW k \in Keys, Live(lock[k], now), Collide(k[1], w.key[1])
        PROVE  k = old
    BY <1>1, <1>2, <1>7, <1>8, <2>1 DEF IInv, LiveLocksNeverCollide
  <2>2. ~Held(v.row) /\ v.key = old /\ v.order < w.order
    BY <1>5, <1>7
  <2>3. ASSUME NEW x \in {v, w}, NEW k \in Keys, Holds(x), k # x.key,
               Live(lock[k], now), Collide(k[1], x.key[1])
        PROVE  \E u \in {v, w} : u.key = k /\ ~Held(u.row) /\ u.order < x.order
    <3>1. x = w
      BY <1>5, <2>3
    <3>2. k = old
      BY <2>1, <2>3, <3>1
    <3>3. QED
      BY <2>2, <3>1, <3>2
  <2>4. QED
    BY <2>3 DEF WayIsClear
<1>9. Apart({v, w})
  BY <1>5 DEF Apart
<1>10. Sound({v, w}, fences')
  <2>1. v.row.fence <= fences + 1
    BY <1>4, <1>5 DEF Write, Row
  <2>2. QED
    BY <1>1, <1>5, <1>7, <1>8, <1>9, <2>1 DEF Sound
<1>11. QED
  BY <1>1, <1>4, <1>10, BeginKeeps

(***************************************************************************)
(* The write loop.                                                         *)
(***************************************************************************)
\* A refused or dead operation writes nothing more.
LEMMA EndKeeps ==
    ASSUME IInv, NEW p \in Procs, End(p), UNCHANGED <<lock, now, fences, dropped>>
    PROVE  IInv'
<1> USE DEF IInv
<1>1. /\ todo' = [todo EXCEPT ![p] = {}]
      /\ mutex' = IF mutex = p THEN NoProc ELSE mutex
      /\ lock' = lock /\ now' = now /\ fences' = fences /\ dropped' = dropped
  BY DEF End, ReleaseMutex
<1>2. \A q \in Procs : todo'[q] = IF q = p THEN {} ELSE todo[q]
  BY <1>1 DEF TypeOK
<1>3. TypeOK'
  BY <1>1 DEF TypeOK
<1>4. FencesIssued' /\ PendingIsNearby'
  BY <1>1, <1>2 DEF FencesIssued, PendingIsNearby, Nearby
<1>5. OneHolderPerScope' /\ LiveLocksNeverCollide'
  BY <1>1 DEF OneHolderPerScope, LiveLocksNeverCollide
<1>6. Guarded'
  BY <1>1, <1>2 DEF Guarded, Serial, WayIsClear, Apart
<1>7. QED
  BY <1>3, <1>4, <1>5, <1>6

LEMMA WriteRowKeeps ==
    ASSUME IInv, NEW p \in Procs, WriteRow(p)
    PROVE  IInv' /\ HistoryStep
<1> USE DEF IInv
<1>1. PICK w \in todo[p] :
        /\ IsNext(todo[p], w)
        /\ w.throws # "before"
        /\ PutAllowed(lock, w.key, w.row)
        /\ lock' = Put(lock, w.key, w.row)
        /\ Proceed(p, w)
        /\ UNCHANGED <<now, fences, dropped>>
  BY DEF WriteRow
<1> DEFINE rest == IF w.throws = "after" THEN {} ELSE todo[p] \ {w}
<1>2. /\ todo' = [todo EXCEPT ![p] = rest]
      /\ mutex' \in {mutex, NoProc}
      /\ rest # {} => mutex' = mutex
      /\ mutex # p => mutex' = mutex
      /\ now' = now /\ fences' = fences /\ dropped' = dropped
  BY <1>1 DEF Proceed, ReleaseMutex
<1>3. w \in Write /\ w.key \in Keys /\ w.row \in Row /\ w.row # Absent
  BY AbsentIsNoRow DEF TypeOK, Write
<1>4. \A k \in Keys : lock'[k] = IF k = w.key THEN w.row ELSE lock[k]
  BY <1>1 DEF Put, TypeOK
<1>5. /\ \A q \in Procs : todo'[q] = IF q = p THEN rest ELSE todo[q]
      /\ \A q \in Procs : todo'[q] \subseteq todo[q]
  BY <1>2 DEF TypeOK
<1>6. TypeOK'
  <2>1. lock' \in [Keys -> Row \cup {Absent}]
    BY <1>1, <1>3 DEF Put, TypeOK
  <2>2. todo' \in [Procs -> SUBSET Write]
    BY <1>2, <1>5 DEF TypeOK
  <2>3. QED
    BY <1>2, <2>1, <2>2 DEF TypeOK
<1>7. FencesIssued'
  BY <1>2, <1>4, <1>5 DEF FencesIssued
<1>8. /\ lock[w.key] = Absent => w.row.rev = 1
      /\ lock[w.key] # Absent =>
            /\ lock[w.key] \in Row
            /\ lock[w.key].fence = w.row.fence
            /\ lock[w.key] = w.row \/ lock[w.key].rev < w.row.rev
            /\ ~Held(lock[w.key]) => w.row.rev <= lock[w.key].rev
  BY <1>1, <1>3 DEF PutAllowed, PendingIsNearby, Nearby, TypeOK
<1>9. HistoryStep
  <2> SUFFICES ASSUME NEW k \in Keys, lock[k] # Absent
               PROVE  /\ lock'[k].fence = lock[k].fence
                      /\ ~Held(lock[k]) => lock'[k] = lock[k]
    BY DEF HistoryStep
  <2>1. CASE k # w.key
    BY <1>4, <2>1
  <2>2. CASE k = w.key
    <3>1. lock[k].rev \in Nat /\ w.row.rev \in Nat
      BY <1>3, <1>8, <2>2 DEF Row
    <3>2. lock'[k] = w.row
      BY <1>4, <2>2
    <3>3. QED
      BY <1>8, <2>2, <3>1, <3>2
  <2>3. QED
    BY <2>1, <2>2
<1>10. PendingIsNearby'
  <2> SUFFICES ASSUME NEW q \in Procs, NEW u \in todo'[q] PROVE Nearby(lock', u)
    BY DEF PendingIsNearby, Nearby
  <2>1. u \in Write /\ u.key \in Keys /\ u.row \in Row /\ Nearby(lock, u)
    BY <1>5 DEF TypeOK, Write, PendingIsNearby
  <2>2. CASE u.key # w.key
    BY <1>4, <2>1, <2>2 DEF Nearby
  <2>3. CASE u.key = w.key
    <3>1. lock'[u.key] = w.row /\ w.row # Absent
      BY <1>3, <1>4, <2>3
    <3>2. u.row.rev \in Nat /\ w.row.rev \in Nat
      BY <1>3, <2>1 DEF Row
    <3>3. CASE lock[w.key] = Absent
      BY <1>8, <2>1, <2>3, <3>1, <3>2, <3>3 DEF Nearby
    <3>4. CASE lock[w.key] # Absent
      <4>1. lock[w.key].rev \in Nat
        BY <1>8, <3>4 DEF Row
      <4>2. CASE lock[w.key] = w.row
        BY <2>1, <2>3, <3>1, <4>2 DEF Nearby
      <4>3. CASE lock[w.key].rev < w.row.rev
        BY <1>8, <2>1, <2>3, <3>1, <3>2, <3>4, <4>1, <4>3 DEF Nearby
      <4>4. QED
        BY <1>8, <3>4, <4>2, <4>3
    <3>5. QED
      BY <3>3, <3>4
  <2>4. QED
    BY <2>2, <2>3
<1>11. OneHolderPerScope'
  <2>1. CASE lock[w.key] = w.row
    BY <1>4, <2>1 DEF OneHolderPerScope
  <2>2. CASE Held(w.row) => ~ScopeTaken(lock, w.key)
    BY <1>3, <1>4, <2>2 DEF OneHolderPerScope, ScopeTaken
  <2>3. QED
    BY <1>1, <2>1, <2>2 DEF PutAllowed
<1>12. ASSUME ~dropped
       PROVE  /\ Serial'
              /\ \A q \in Procs : WayIsClear(lock', todo'[q], now') /\ Apart(todo'[q])
              /\ \A j, k \in Keys :
                    Live(lock'[j], now) /\ Live(lock'[k], now) /\ Collide(j[1], k[1]) => j = k
  <2>1. /\ Serial
        /\ WayIsClear(lock, todo[p], now) /\ Apart(todo[p])
        /\ \A j, k \in Keys :
              Live(lock[j], now) /\ Live(lock[k], now) /\ Collide(j[1], k[1]) => j = k
    BY <1>12 DEF Guarded, LiveLocksNeverCollide
  <2>2. mutex = p /\ \A q \in Procs \ {p} : todo[q] = {}
    BY <1>1, <2>1 DEF Serial
  <2>3. Serial'
    BY <1>2, <1>5, <2>2 DEF Serial
  <2>4. ASSUME NEW k \in Keys, k # w.key, Holds(w), Live(lock[k], now)
        PROVE  ~Collide(k[1], w.key[1])
    <3> SUFFICES ASSUME Collide(k[1], w.key[1]) PROVE FALSE
      OBVIOUS
    <3>1. PICK v \in todo[p] : v.order < w.order
      BY <2>1, <2>4 DEF WayIsClear
    <3>2. v.order \in {1, 2} /\ w.order \in {1, 2} /\ w.order <= v.order
      BY <1>1, <3>1 DEF IsNext, TypeOK, Write
    <3>3. QED
      BY <3>1, <3>2
  <2>5. ASSUME NEW j \in Keys, NEW k \in Keys,
               Live(lock'[j], now), Live(lock'[k], now), Collide(j[1], k[1])
        PROVE  j = k
    <3>1. Holds(w) \/ ~Live(w.row, now)
      BY <1>1 DEF Holds, Live
    <3>2. Collide(k[1], j[1])
      BY <2>5, KeyParts, CollideSymmetric
    <3>3. CASE j = w.key
      BY <1>4, <2>4, <2>5, <3>1, <3>2, <3>3
    <3>4. CASE k = w.key
      BY <1>4, <2>4, <2>5, <3>1, <3>4
    <3>5. CASE j # w.key /\ k # w.key
      BY <1>4, <2>1, <2>5, <3>5
    <3>6. QED
      BY <3>3, <3>4, <3>5
  <2>6. ASSUME NEW u \in rest, NEW k \in Keys, Holds(u), k # u.key,
               Live(lock'[k], now), Collide(k[1], u.key[1])
        PROVE  \E v \in rest : v.key = k /\ ~Held(v.row) /\ v.order < u.order
    <3>1. u \in todo[p] /\ w.throws # "after" /\ rest = todo[p] \ {w}
      BY <2>6
    <3>2. CASE k = w.key
      <4>1. Holds(w)
        BY <1>1, <1>4, <2>6, <3>2 DEF Live, Holds
      <4>2. QED
        BY <2>1, <2>6, <3>1, <3>2, <4>1 DEF Apart
    <3>3. CASE k # w.key
      <4>1. Live(lock[k], now)
        BY <1>4, <2>6, <3>3
      <4>2. PICK v \in todo[p] : v.key = k /\ ~Held(v.row) /\ v.order < u.order
        BY <2>1, <2>6, <3>1, <4>1 DEF WayIsClear
      <4>3. v \in rest
        BY <3>1, <3>3, <4>2
      <4>4. QED
        BY <4>2, <4>3
    <3>4. QED
      BY <3>2, <3>3
  <2>7. WayIsClear(lock', rest, now)
    BY <2>6 DEF WayIsClear
  <2>8. Apart(rest)
    BY <2>1 DEF Apart
  <2>9. ASSUME NEW q \in Procs PROVE WayIsClear(lock', todo'[q], now') /\ Apart(todo'[q])
    <3>1. CASE q = p
      BY <1>2, <1>5, <2>7, <2>8, <3>1
    <3>2. CASE q # p
      BY <1>5, <2>2, <3>2 DEF WayIsClear, Apart
    <3>3. QED
      BY <3>1, <3>2
  <2>10. QED
    BY <2>3, <2>5, <2>9
<1>13. Guarded' /\ LiveLocksNeverCollide'
  BY <1>2, <1>12 DEF Guarded, LiveLocksNeverCollide, WayIsClear, Apart
<1>14. QED
  BY <1>6, <1>7, <1>9, <1>10, <1>11, <1>13

LEMMA TickKeeps ==
    ASSUME IInv, Tick
    PROVE  IInv'
<1> USE DEF IInv, Tick
<1>1. now \in Nat /\ now' = now + 1
  BY DEF TypeOK
<1>2. \A k \in Keys : Live(lock[k], now') => Live(lock[k], now)
  <2>1. ASSUME NEW k \in Keys, Live(lock[k], now') PROVE Live(lock[k], now)
    <3>1. Held(lock[k]) /\ lock[k].expires > now'
      BY <2>1 DEF Live
    <3>2. lock[k].expires \in Nat
      BY <3>1, HeldIsRow DEF Row
    <3>3. QED
      BY <1>1, <3>1, <3>2 DEF Live
  <2>2. QED
    BY <2>1
<1>3. TypeOK' /\ FencesIssued' /\ PendingIsNearby' /\ OneHolderPerScope'
  BY <1>1 DEF TypeOK, FencesIssued, PendingIsNearby, Nearby, OneHolderPerScope
<1>4. Guarded' /\ LiveLocksNeverCollide'
  BY <1>2 DEF Guarded, Serial, WayIsClear, Apart, LiveLocksNeverCollide
<1>5. QED
  BY <1>3, <1>4

LEMMA DropMutexKeeps ==
    ASSUME IInv, NEW p \in Procs, DropMutex(p)
    PROVE  IInv'
BY DEF IInv, DropMutex, TypeOK, FencesIssued, PendingIsNearby, Nearby,
       OneHolderPerScope, Guarded, LiveLocksNeverCollide

LEMMA InitInv == Init => IInv
<1> SUFFICES ASSUME Init PROVE IInv
  OBVIOUS
<1>1. \A k \in Keys : lock[k] = Absent /\ ~Held(lock[k]) /\ lock[k].fence = 0
  BY DEF Init, Absent, Held
<1>2. TypeOK
  BY DEF Init, TypeOK
<1>3. QED
  BY <1>1, <1>2 DEF Init, IInv, FencesIssued, PendingIsNearby, OneHolderPerScope,
     Guarded, Serial, WayIsClear, Apart, LiveLocksNeverCollide, Live

\* What every step does to the invariant and to the rows.
LEMMA NextKeeps == IInv /\ [Next]_vars => IInv' /\ (HistoryStep \/ UNCHANGED lock)
<1> SUFFICES ASSUME IInv, [Next]_vars PROVE IInv' /\ (HistoryStep \/ UNCHANGED lock)
  OBVIOUS
<1>1. CASE Tick
  BY <1>1, TickKeeps DEF Tick
<1>2. ASSUME NEW p \in Procs, Request(p) PROVE IInv' /\ UNCHANGED lock
  <2>1. IInv'
    BY <1>2, AcquireKeeps, RenewKeeps, ReleaseKeeps, SupersedeKeeps, MarkExpiredKeeps
       DEF Request
  <2>2. UNCHANGED lock
    BY <1>2 DEF Request, Acquire, Renew, Release, Supersede, MarkExpired, Begin
  <2>3. QED
    BY <2>1, <2>2
<1>3. ASSUME NEW p \in Procs, WriteRow(p) PROVE IInv' /\ HistoryStep
  BY <1>3, WriteRowKeeps
<1>4. ASSUME NEW p \in Procs, Throw(p) \/ Crash(p) PROVE IInv' /\ UNCHANGED lock
  BY <1>4, EndKeeps DEF Throw, Crash
<1>5. ASSUME NEW p \in Procs, DropMutex(p) PROVE IInv' /\ UNCHANGED lock
  BY <1>5, DropMutexKeeps DEF DropMutex
<1>6. CASE UNCHANGED vars
  BY <1>6 DEF vars, IInv, TypeOK, FencesIssued, PendingIsNearby, Nearby,
     OneHolderPerScope, Guarded, Serial, WayIsClear, Apart, LiveLocksNeverCollide
<1>7. QED
  BY <1>1, <1>2, <1>3, <1>4, <1>5, <1>6 DEF Next

(***************************************************************************)
(* The theorems.                                                           *)
(***************************************************************************)
\* The invariant holds in every reachable state.
THEOREM Inductive == Spec => []IInv
<1>1. IInv /\ [Next]_vars => IInv'
  BY NextKeeps
<1>2. QED
  BY InitInv, <1>1, PTL DEF Spec

\* Every reachable state is well typed.
THEOREM TypeCorrect == Spec => []TypeOK
<1>1. IInv => TypeOK
  BY DEF IInv
<1>2. QED
  BY Inductive, <1>1, PTL

\* Exclusion: while the named lock serialises the operations, live locks never
\* cover colliding scopes (acquire, renew, release, supersede, expiry, crashes).
THEOREM Exclusion == Spec => []LiveLocksNeverCollide
<1>1. IInv => LiveLocksNeverCollide
  BY DEF IInv
<1>2. QED
  BY Inductive, <1>1, PTL

\* One HELD row per scope, whether or not the named lock held.
THEOREM OneHolder == Spec => []OneHolderPerScope
<1>1. IInv => OneHolderPerScope
  BY DEF IInv
<1>2. QED
  BY Inductive, <1>1, PTL

\* No operation rewrites a closed row or changes a row's token.
THEOREM History == Spec => HistoryIsImmutable
<1>1. IInv /\ [Next]_vars => [HistoryStep]_vars
  <2> SUFFICES ASSUME IInv, [Next]_vars, ~HistoryStep PROVE UNCHANGED vars
    OBVIOUS
  <2>1. UNCHANGED lock => HistoryStep
    BY DEF HistoryStep
  <2>2. QED
    BY NextKeeps, <2>1
<1>2. QED
  BY Inductive, <1>1, PTL DEF Spec, HistoryIsImmutable
=============================================================================
