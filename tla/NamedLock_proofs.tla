-------------------------- MODULE NamedLock_proofs --------------------------
(***************************************************************************)
(* Proofs about NamedLock, for any requests, boards, size of the pool and  *)
(* of its queue, with failing statements, timeouts and a lost session.     *)
(***************************************************************************)
EXTENDS NamedLock, FiniteSetTheorems, TLAPS

(***************************************************************************)
(* The inductive invariant.                                                *)
(***************************************************************************)
Op == {Query, Leave} \cup {Lock(l) : l \in Locks}
Conn == {"none", "queued", "granted"}

Types ==
    /\ prog \in [Procs -> Seq(Op)]
    /\ stack \in [Procs -> Seq(Locks)]
    /\ conn \in [Procs -> Conn]
    /\ owner \in [Locks -> Procs \cup {NoProc}]
    /\ free \in Nat
    /\ queue \in Seq(Procs)
    /\ lost \in BOOLEAN

\* Only finitely many connections are in use, for any number of requests.
InUseIsFinite == IsFiniteSet(Pinned) /\ IsFiniteSet(Granted)

\* Who waits for a connection or has one is at a step that needs one: a statement,
\* or a lock it is not inside.  So GET_LOCK always pins for a frame of its own.
Asks(p) == Next1(p) = Query \/ (Next1(p).op = "lock" /\ ~Inside(p, Next1(p).name))
OnlyWhoAsks == \A p \in Procs : conn[p] # "none" => Asks(p)

\* The queue holds requests that wait, each once.
Waiting(s, c) ==
    /\ \A i \in 1..Len(s) : c[s[i]] = "queued"
    /\ \A i, j \in 1..Len(s) : s[i] = s[j] => i = j

\* A request inside a lock owns it at the server, unless a session died.
InsideOwns == ~lost => \A p \in Procs, l \in Locks : Inside(p, l) => owner[l] = p

IInv ==
    /\ Types
    /\ InUseIsFinite
    /\ PoolAccounted
    /\ OnlyWhoAsks
    /\ Waiting(queue, conn)
    /\ InsideOwns

(***************************************************************************)
(* Sequences and operations.                                               *)
(***************************************************************************)
\* What a sequence holds once its first element is taken off.
LEMMA TakenOff ==
    ASSUME NEW S, NEW s \in Seq(S), s # <<>>
    PROVE  /\ Head(s) \in S /\ Tail(s) \in Seq(S)
           /\ \A e : Contains(s, e) <=> e = Head(s) \/ Contains(Tail(s), e)
<1>1. /\ Head(s) \in S /\ Tail(s) \in Seq(S) /\ Head(s) = s[1]
      /\ Len(s) \in Nat \ {0} /\ Len(Tail(s)) = Len(s) - 1
      /\ \A i \in 1..Len(Tail(s)) : Tail(s)[i] = s[i + 1]
  OBVIOUS
<1>2. ASSUME NEW e, Contains(s, e) PROVE e = Head(s) \/ Contains(Tail(s), e)
  <2>1. PICK i \in 1..Len(s) : s[i] = e
    BY <1>2 DEF Contains
  <2>2. CASE i = 1
    BY <1>1, <2>1, <2>2
  <2>3. CASE i # 1
    <3>1. i - 1 \in 1..Len(Tail(s)) /\ (i - 1) + 1 = i
      BY <1>1, <2>3
    <3>2. Tail(s)[i - 1] = e
      BY <1>1, <2>1, <3>1
    <3>3. QED
      BY <3>1, <3>2 DEF Contains
  <2>4. QED
    BY <2>2, <2>3
<1>3. ASSUME NEW e, e = Head(s) \/ Contains(Tail(s), e) PROVE Contains(s, e)
  <2>1. CASE e = Head(s)
    BY <1>1, <2>1 DEF Contains
  <2>2. CASE Contains(Tail(s), e)
    <3>1. PICK i \in 1..Len(Tail(s)) : Tail(s)[i] = e
      BY <2>2 DEF Contains
    <3>2. i + 1 \in 1..Len(s) /\ s[i + 1] = e
      BY <1>1, <3>1
    <3>3. QED
      BY <3>2 DEF Contains
  <2>3. QED
    BY <1>3, <2>1, <2>2
<1>4. QED
  BY <1>1, <1>2, <1>3

\* What a sequence holds once an element is put before it.
LEMMA PutBefore ==
    ASSUME NEW S, NEW s \in Seq(S), NEW a \in S
    PROVE  /\ <<a>> \o s \in Seq(S)
           /\ \A e : Contains(<<a>> \o s, e) <=> e = a \/ Contains(s, e)
<1>1. <<a>> \o s \in Seq(S) /\ <<a>> \o s # <<>>
  OBVIOUS
<1>2. Head(<<a>> \o s) = a /\ Tail(<<a>> \o s) = s
  OBVIOUS
<1>3. QED
  BY <1>1, <1>2, TakenOff

\* The four kinds of steps are told apart by their op.
LEMMA Steps ==
    ASSUME Types, NEW p \in Procs
    PROVE  /\ Next1(p) \in Op
           /\ Next1(p) = Query => Next1(p).op = "query"
           /\ Next1(p) = Leave => Next1(p).op = "leave"
           /\ Next1(p).op = "lock" => Next1(p).name \in Locks
<1>1. Next1(p) \in Op
  <2>1. CASE prog[p] = <<>>
    BY <2>1 DEF Next1, Op
  <2>2. CASE prog[p] # <<>>
    BY <2>2, TakenOff DEF Types, Next1
  <2>3. QED
    BY <2>1, <2>2
<1>2. Next1(p).op = "lock" => Next1(p).name \in Locks
  BY <1>1 DEF Op, Query, Leave, Lock
<1>3. QED
  BY <1>1, <1>2 DEF Query, Leave

\* The programs of the three operations.
LEMMA ProgramsTyped ==
    ASSUME NEW b \in Boards
    PROVE  RunOperation(b) \in Seq(Op) /\ Publication(b) \in Seq(Op) /\ Mutation(b) \in Seq(Op)
<1>1. <<"runtime", b>> \in Locks /\ <<"atomic", b>> \in Locks
  BY DEF Locks
<1>2. /\ Lock(<<"runtime", b>>) \in Op /\ Lock(<<"atomic", b>>) \in Op
      /\ Query \in Op /\ Leave \in Op
  BY <1>1 DEF Op
<1> HIDE DEF Op
<1>3. RunOperation(b) \in Seq(Op)
  BY <1>2 DEF RunOperation
<1>4. Publication(b) \in Seq(Op)
  BY <1>2 DEF Publication
<1>5. Mutation(b) \in Seq(Op)
  BY <1>2 DEF Mutation
<1>6. QED
  BY <1>3, <1>4, <1>5

\* A request goes on, or gives up what is left of its operation.
LEMMA ProgramKeeps ==
    ASSUME Types, NEW p \in Procs,
           \/ Unwind(p)
           \/ Proceed(p) /\ prog[p] # <<>>
    PROVE  /\ prog' \in [Procs -> Seq(Op)]
           /\ \A q \in Procs \ {p} : prog'[q] = prog[q]
<1>1. prog[p] # <<>> => Tail(prog[p]) \in Seq(Op)
  BY TakenOff DEF Types
<1>2. <<>> \in Seq(Op)
  OBVIOUS
<1>3. CASE Unwind(p)
  BY <1>2, <1>3 DEF Unwind, Types
<1>4. CASE Proceed(p) /\ prog[p] # <<>>
  BY <1>1, <1>4 DEF Proceed, Types
<1>5. QED
  BY <1>3, <1>4

(***************************************************************************)
(* The pool.                                                               *)
(***************************************************************************)
\* A connection given back is free, or the first in the queue has it.
LEMMA ReleasedKeeps ==
    ASSUME Types, queue # <<>> => free = 0, NEW c \in [Procs -> Conn], Waiting(queue, c),
           IsFiniteSet({p \in Procs : c[p] = "granted"}), Released(c)
    PROVE  /\ conn' \in [Procs -> Conn] /\ free' \in Nat /\ queue' \in Seq(Procs)
           /\ Waiting(queue', conn')
           /\ queue' # <<>> => free' = 0
           /\ IsFiniteSet(Granted')
           /\ free' + Cardinality(Granted') =
                  free + Cardinality({p \in Procs : c[p] = "granted"}) + 1
           /\ \A p \in Procs : conn'[p] = "none" <=> c[p] = "none"
<1> DEFINE G == {p \in Procs : c[p] = "granted"}
<1>1. Cardinality(G) \in Nat
  BY FS_CardinalityType
<1>2. CASE queue = <<>>
  <2>1. free' = free + 1 /\ conn' = c /\ queue' = queue
    BY <1>2 DEF Released
  <2>2. Granted' = G
    BY <2>1 DEF Granted
  <2>3. QED
    BY <1>1, <1>2, <2>1, <2>2 DEF Types
<1>3. CASE queue # <<>>
  <2> DEFINE h == Head(queue)
  <2>1. conn' = [c EXCEPT ![h] = "granted"] /\ queue' = Tail(queue) /\ free' = free
    BY <1>3 DEF Released
  <2>2. /\ h \in Procs /\ queue' \in Seq(Procs) /\ h = queue[1]
        /\ Len(queue) \in Nat \ {0} /\ Len(queue') = Len(queue) - 1
        /\ \A i \in 1..Len(queue') : queue'[i] = queue[i + 1]
    BY <1>3, <2>1 DEF Types
  <2>3. c[h] = "queued"
    BY <2>2 DEF Waiting
  <2>4. Granted' = G \cup {h} /\ h \notin G
    BY <2>1, <2>2, <2>3 DEF Granted
  <2>5. IsFiniteSet(Granted') /\ Cardinality(Granted') = Cardinality(G) + 1
    BY <2>4, FS_AddElement
  <2>6. Waiting(queue', conn')
    <3>1. ASSUME NEW i \in 1..Len(queue') PROVE conn'[queue'[i]] = "queued"
      <4>1. i + 1 \in 1..Len(queue) /\ 1 \in 1..Len(queue) /\ i + 1 # 1
        BY <2>2
      <4>2. queue[i + 1] # h /\ c[queue[i + 1]] = "queued"
        BY <2>2, <4>1 DEF Waiting
      <4>3. queue[i + 1] \in Procs
        BY <4>1 DEF Types
      <4>4. QED
        BY <2>1, <2>2, <4>2, <4>3
    <3>2. ASSUME NEW i \in 1..Len(queue'), NEW j \in 1..Len(queue'), queue'[i] = queue'[j]
          PROVE  i = j
      <4>1. i + 1 \in 1..Len(queue) /\ j + 1 \in 1..Len(queue)
        BY <2>2
      <4>2. i + 1 = j + 1
        BY <2>2, <3>2, <4>1 DEF Waiting
      <4>3. QED
        BY <4>2
    <3>3. QED
      BY <3>1, <3>2 DEF Waiting
  <2>7. \A p \in Procs : conn'[p] = "none" <=> c[p] = "none"
    BY <2>1, <2>2, <2>3
  <2>8. conn' \in [Procs -> Conn]
    BY <2>1, <2>2 DEF Conn
  <2>9. QED
    BY <1>1, <1>3, <2>1, <2>2, <2>5, <2>6, <2>7, <2>8 DEF Types
<1>4. QED
  BY <1>2, <1>3

\* A request that is done with its connection gives it back.
LEMMA DoneWithConnection ==
    ASSUME IInv, NEW p \in Procs, conn[p] = "granted", Released([conn EXCEPT ![p] = "none"])
    PROVE  /\ conn' \in [Procs -> Conn] /\ free' \in Nat /\ queue' \in Seq(Procs)
           /\ Waiting(queue', conn')
           /\ queue' # <<>> => free' = 0
           /\ IsFiniteSet(Granted')
           /\ free' + Cardinality(Granted') = free + Cardinality(Granted)
           /\ conn'[p] = "none"
           /\ \A q \in Procs : conn'[q] # "none" => conn[q] # "none"
<1> DEFINE c == [conn EXCEPT ![p] = "none"]
           G == {q \in Procs : c[q] = "granted"}
<1>1. Types /\ (queue # <<>> => free = 0) /\ Waiting(queue, conn) /\ IsFiniteSet(Granted)
  BY DEF IInv, InUseIsFinite, PoolAccounted
<1>2. c \in [Procs -> Conn]
  BY <1>1 DEF Types, Conn
<1>3. G = Granted \ {p} /\ p \in Granted
  BY <1>1 DEF Granted, Types
<1>4. IsFiniteSet(G) /\ Cardinality(G) = Cardinality(Granted) - 1
  BY <1>1, <1>3, FS_RemoveElement
<1>5. Waiting(queue, c)
  <2>1. ASSUME NEW i \in 1..Len(queue) PROVE c[queue[i]] = "queued"
    <3>1. queue[i] \in Procs /\ conn[queue[i]] = "queued"
      BY <1>1 DEF Types, Waiting
    <3>2. QED
      BY <1>1, <3>1 DEF Types
  <2>2. QED
    BY <1>1, <2>1 DEF Waiting
<1>6. Cardinality(Granted) \in Nat /\ free \in Nat
  BY <1>1, FS_CardinalityType DEF Types
<1>7. c[p] = "none" /\ \A q \in Procs : c[q] # "none" => conn[q] # "none"
  BY <1>1 DEF Types
<1>8. Released(c)
  OBVIOUS
<1> HIDE DEF c
<1>9. /\ conn' \in [Procs -> Conn] /\ free' \in Nat /\ queue' \in Seq(Procs)
      /\ Waiting(queue', conn')
      /\ queue' # <<>> => free' = 0
      /\ IsFiniteSet(Granted')
      /\ free' + Cardinality(Granted') = free + Cardinality(G) + 1
      /\ \A q \in Procs : conn'[q] = "none" <=> c[q] = "none"
  BY <1>1, <1>2, <1>4, <1>5, <1>8, ReleasedKeeps
<1>10. QED
  BY <1>4, <1>6, <1>7, <1>9

(***************************************************************************)
(* The steps keep the invariant.                                           *)
(***************************************************************************)
\* Only the request that moves can come to ask for something else.
LEMMA OnlyWhoAsksKeeps ==
    ASSUME OnlyWhoAsks, NEW p \in Procs, conn'[p] = "none",
           \A q \in Procs \ {p} : prog'[q] = prog[q] /\ stack'[q] = stack[q],
           \A q \in Procs : conn'[q] # "none" => conn[q] # "none"
    PROVE  OnlyWhoAsks'
<1> SUFFICES ASSUME NEW q \in Procs, conn'[q] # "none" PROVE Asks(q)'
  BY DEF OnlyWhoAsks
<1>1. q # p /\ conn[q] # "none" /\ prog'[q] = prog[q] /\ stack'[q] = stack[q]
  OBVIOUS
<1>2. Asks(q)
  BY <1>1 DEF OnlyWhoAsks
<1>3. QED
  BY <1>1, <1>2 DEF Asks, Next1, Inside

\* The frames stay as they are, or come to hold nothing new and leave nothing.
LEMMA SameFrames ==
    ASSUME \A p \in Procs, l \in Locks : Inside(p, l)' <=> Inside(p, l)
    PROVE  Pinned' = Pinned
BY DEF Pinned

LEMMA RequestKeeps ==
    ASSUME IInv, NEW p \in Procs, Request(p)
    PROVE  IInv'
<1> USE DEF IInv
<1>1. PICK b \in Boards : \E op \in {RunOperation(b), Publication(b), Mutation(b)} :
           prog' = [prog EXCEPT ![p] = op]
  BY DEF Request
<1>2. /\ stack' = stack /\ conn' = conn /\ owner' = owner
      /\ free' = free /\ queue' = queue /\ lost' = lost
  BY DEF Request
<1>3. prog' \in [Procs -> Seq(Op)] /\ \A q \in Procs \ {p} : prog'[q] = prog[q]
  BY <1>1, ProgramsTyped DEF Types
<1>4. conn[p] = "none"
  <2>1. Next1(p) = Leave
    BY DEF Request, Idle, Next1
  <2>2. QED
    BY <2>1, Steps DEF OnlyWhoAsks, Asks, Leave, Query
<1>5. Types'
  BY <1>2, <1>3 DEF Types
<1>6. OnlyWhoAsks'
  BY <1>2, <1>3, <1>4, OnlyWhoAsksKeeps
<1>7. InUseIsFinite' /\ PoolAccounted' /\ Waiting(queue', conn') /\ InsideOwns'
  BY <1>2 DEF InUseIsFinite, PoolAccounted, InsideOwns, Waiting, Pinned, Granted, Inside
<1>8. QED
  BY <1>5, <1>6, <1>7

LEMMA GetConnectionKeeps ==
    ASSUME IInv, NEW p \in Procs, GetConnection(p)
    PROVE  IInv'
<1> USE DEF IInv
<1>1. conn[p] = "none" /\ Asks(p) /\ stack' = stack /\ owner' = owner /\ lost' = lost
  BY DEF GetConnection, Asks
<1>2. InsideOwns' /\ Pinned' = Pinned
  BY <1>1 DEF InsideOwns, Pinned, Inside
<1>3. Cardinality(Pinned) \in Nat /\ Cardinality(Granted) \in Nat /\ free \in Nat
  BY FS_CardinalityType DEF InUseIsFinite, Types
<1>4. CASE free > 0 /\ free' = free - 1 /\ conn' = [conn EXCEPT ![p] = "granted"]
           /\ UNCHANGED <<prog, queue>>
  <2>1. Types'
    BY <1>1, <1>3, <1>4 DEF Types, Conn
  <2>2. queue = <<>>
    BY <1>3, <1>4 DEF PoolAccounted
  <2>3. Waiting(queue', conn')
    BY <1>4, <2>2 DEF Waiting
  <2>4. Granted' = Granted \cup {p} /\ p \notin Granted
    BY <1>1, <1>4 DEF Granted, Types
  <2>5. IsFiniteSet(Granted') /\ Cardinality(Granted') = Cardinality(Granted) + 1
    BY <2>4, FS_AddElement DEF InUseIsFinite
  <2>6. InUseIsFinite' /\ PoolAccounted'
    BY <1>2, <1>3, <1>4, <2>2, <2>5 DEF InUseIsFinite, PoolAccounted
  <2>7. OnlyWhoAsks'
    BY <1>1, <1>4 DEF OnlyWhoAsks, Asks, Next1, Inside, Types
  <2>8. QED
    BY <1>2, <2>1, <2>3, <2>6, <2>7
<1>5. CASE free = 0 /\ queue' = Append(queue, p) /\ conn' = [conn EXCEPT ![p] = "queued"]
           /\ UNCHANGED <<prog, free>>
  <2>1. Types'
    BY <1>1, <1>5 DEF Types, Conn
  <2>2. /\ Len(queue) \in Nat /\ Len(queue') = Len(queue) + 1
        /\ queue'[Len(queue) + 1] = p
        /\ \A i \in 1..Len(queue) : /\ queue'[i] = queue[i] /\ queue[i] \in Procs
                                    /\ conn[queue[i]] = "queued"
    BY <1>5 DEF Types, Waiting
  <2>3. ASSUME NEW i \in 1..Len(queue') PROVE conn'[queue'[i]] = "queued"
    BY <1>5, <2>2 DEF Types
  <2>4. ASSUME NEW i \in 1..Len(queue'), NEW j \in 1..Len(queue'), queue'[i] = queue'[j]
        PROVE  i = j
    BY <1>1, <2>2, <2>4 DEF Waiting
  <2>5. Granted' = Granted
    BY <1>1, <1>5 DEF Granted, Types
  <2>6. InUseIsFinite' /\ PoolAccounted'
    BY <1>2, <1>5, <2>5 DEF InUseIsFinite, PoolAccounted
  <2>7. OnlyWhoAsks'
    BY <1>1, <1>5 DEF OnlyWhoAsks, Asks, Next1, Inside, Types
  <2>8. QED
    BY <1>2, <2>1, <2>3, <2>4, <2>6, <2>7 DEF Waiting
<1>6. CASE Unwind(p) /\ UNCHANGED <<conn, free, queue>>
  <2>1. prog' \in [Procs -> Seq(Op)] /\ \A q \in Procs \ {p} : prog'[q] = prog[q]
    BY <1>6, ProgramKeeps
  <2>2. Types'
    BY <1>1, <1>6, <2>1 DEF Types
  <2>3. OnlyWhoAsks'
    BY <1>1, <1>6, <2>1, OnlyWhoAsksKeeps
  <2>4. InUseIsFinite' /\ PoolAccounted' /\ Waiting(queue', conn')
    BY <1>2, <1>6 DEF InUseIsFinite, PoolAccounted, Granted, Waiting
  <2>5. QED
    BY <1>2, <2>2, <2>3, <2>4
<1>7. QED
  BY <1>4, <1>5, <1>6 DEF GetConnection

\* A connection that moves from one use to another changes no sum.
LEMMA SumKept ==
    ASSUME NEW f \in Nat, NEW c \in Nat, NEW g \in Nat, NEW f1 \in Nat, NEW g1 \in Nat,
           f + c + g = PoolSize, f1 + g1 = f + g
    PROVE  f1 + c + g1 = PoolSize
OBVIOUS

\* A statement ends or GET_LOCK answers no: the connection goes back, the frames stay.
LEMMA ConnectionBackKeeps ==
    ASSUME IInv, NEW p \in Procs, conn[p] = "granted",
           Released([conn EXCEPT ![p] = "none"]),
           prog' \in [Procs -> Seq(Op)], \A q \in Procs \ {p} : prog'[q] = prog[q],
           UNCHANGED <<stack, owner, lost>>
    PROVE  IInv'
<1> USE DEF IInv
<1>1. /\ conn' \in [Procs -> Conn] /\ free' \in Nat /\ queue' \in Seq(Procs)
      /\ Waiting(queue', conn')
      /\ queue' # <<>> => free' = 0
      /\ IsFiniteSet(Granted')
      /\ free' + Cardinality(Granted') = free + Cardinality(Granted)
      /\ conn'[p] = "none"
      /\ \A q \in Procs : conn'[q] # "none" => conn[q] # "none"
  BY DoneWithConnection
<1>2. InsideOwns' /\ Pinned' = Pinned
  BY DEF InsideOwns, Pinned, Inside
<1>3. OnlyWhoAsks'
  BY <1>1, OnlyWhoAsksKeeps
<1>4. Types'
  BY <1>1 DEF Types
<1>5. /\ Cardinality(Pinned) \in Nat /\ Cardinality(Granted) \in Nat /\ free \in Nat
      /\ Cardinality(Granted') \in Nat
  BY <1>1, FS_CardinalityType DEF InUseIsFinite, Types
<1>6. free' + Cardinality(Pinned') + Cardinality(Granted') = PoolSize
  <2>1. free + Cardinality(Pinned) + Cardinality(Granted) = PoolSize
    BY DEF PoolAccounted
  <2>2. free' \in Nat /\ free' + Cardinality(Granted') = free + Cardinality(Granted)
    BY <1>1
  <2>3. free' + Cardinality(Pinned) + Cardinality(Granted') = PoolSize
    BY <1>5, <2>1, <2>2, SumKept
  <2>4. QED
    BY <1>2, <2>3
<1>7. InUseIsFinite' /\ PoolAccounted'
  <2>1. InUseIsFinite'
    BY <1>1, <1>2 DEF InUseIsFinite
  <2>2. PoolAccounted'
    BY <1>1, <1>6 DEF PoolAccounted
  <2>3. QED
    BY <2>1, <2>2
<1>8. QED
  BY <1>1, <1>2, <1>3, <1>4, <1>7

LEMMA ExecuteKeeps ==
    ASSUME IInv, NEW p \in Procs, Execute(p)
    PROVE  IInv'
<1>1. prog[p] # <<>>
  BY DEF Execute, Next1, Query, Leave
<1>2. prog' \in [Procs -> Seq(Op)] /\ \A q \in Procs \ {p} : prog'[q] = prog[q]
  BY <1>1, ProgramKeeps DEF Execute, IInv
<1>3. QED
  BY <1>2, ConnectionBackKeeps DEF Execute

LEMMA GetLockTimesOutKeeps ==
    ASSUME IInv, NEW p \in Procs, GetLockTimesOut(p)
    PROVE  IInv'
<1>1. prog' \in [Procs -> Seq(Op)] /\ \A q \in Procs \ {p} : prog'[q] = prog[q]
  BY ProgramKeeps DEF GetLockTimesOut, IInv
<1>2. QED
  BY <1>1, ConnectionBackKeeps DEF GetLockTimesOut

\* What a new frame is inside of.
LEMMA EnteredFrames ==
    ASSUME Types, NEW p \in Procs, NEW n \in Locks,
           stack' = [stack EXCEPT ![p] = <<n>> \o stack[p]]
    PROVE  /\ stack' \in [Procs -> Seq(Locks)]
           /\ \A q \in Procs \ {p} : stack'[q] = stack[q]
           /\ \A q \in Procs, l \in Locks :
                  Inside(q, l)' <=> Inside(q, l) \/ (q = p /\ l = n)
<1>1. /\ <<n>> \o stack[p] \in Seq(Locks)
      /\ \A e : Contains(<<n>> \o stack[p], e) <=> e = n \/ Contains(stack[p], e)
  BY PutBefore DEF Types
<1>2. stack' \in [Procs -> Seq(Locks)] /\ stack'[p] = <<n>> \o stack[p]
  BY <1>1 DEF Types
<1>3. \A q \in Procs \ {p} : stack'[q] = stack[q]
  BY DEF Types
<1>4. QED
  BY <1>1, <1>2, <1>3 DEF Inside

LEMMA ReenterKeeps ==
    ASSUME IInv, NEW p \in Procs, Reenter(p)
    PROVE  IInv' /\ \A q \in Procs, l \in Locks : Inside(q, l)' <=> Inside(q, l)
<1> USE DEF IInv
<1> DEFINE n == Next1(p).name
<1>1. /\ Next1(p).op = "lock" /\ Inside(p, n)
      /\ stack' = [stack EXCEPT ![p] = <<n>> \o stack[p]] /\ Proceed(p)
      /\ UNCHANGED <<conn, owner, free, queue, lost>>
  BY DEF Reenter
<1>2. n \in Locks /\ prog[p] # <<>>
  BY <1>1, Steps DEF Next1, Leave
<1>3. conn[p] = "none"
  BY <1>1, Steps DEF OnlyWhoAsks, Asks
<1> HIDE DEF n
<1>4. /\ stack' \in [Procs -> Seq(Locks)]
      /\ \A q \in Procs \ {p} : stack'[q] = stack[q]
      /\ \A q \in Procs, l \in Locks : Inside(q, l)' <=> Inside(q, l) \/ (q = p /\ l = n)
  BY <1>1, <1>2, EnteredFrames
<1>5. \A q \in Procs, l \in Locks : Inside(q, l)' <=> Inside(q, l)
  BY <1>1, <1>4
<1>6. prog' \in [Procs -> Seq(Op)] /\ \A q \in Procs \ {p} : prog'[q] = prog[q]
  BY <1>1, <1>2, ProgramKeeps
<1>7. Types'
  BY <1>1, <1>4, <1>6 DEF Types
<1>8. OnlyWhoAsks'
  BY <1>1, <1>3, <1>4, <1>6, OnlyWhoAsksKeeps
<1>9. InUseIsFinite' /\ PoolAccounted' /\ Waiting(queue', conn')
  BY <1>1, <1>5, SameFrames DEF InUseIsFinite, PoolAccounted, Granted, Waiting
<1>10. InsideOwns'
  BY <1>1, <1>5 DEF InsideOwns
<1>11. QED
  BY <1>5, <1>7, <1>8, <1>9, <1>10

LEMMA GetLockKeeps ==
    ASSUME IInv, NEW p \in Procs, GetLock(p)
    PROVE  /\ IInv'
           /\ Next1(p).name \in Locks
           /\ ~lost => \A q \in Procs : ~Inside(q, Next1(p).name)
           /\ \A q \in Procs, l \in Locks :
                  Inside(q, l)' <=> Inside(q, l) \/ (q = p /\ l = Next1(p).name)
<1> USE DEF IInv
<1> DEFINE n == Next1(p).name
<1>1. /\ Next1(p).op = "lock" /\ conn[p] = "granted" /\ owner[n] = NoProc
      /\ owner' = [owner EXCEPT ![n] = p]
      /\ stack' = [stack EXCEPT ![p] = <<n>> \o stack[p]]
      /\ conn' = [conn EXCEPT ![p] = "none"] /\ Proceed(p)
      /\ UNCHANGED <<free, queue, lost>>
  BY DEF GetLock
<1>2. n \in Locks /\ prog[p] # <<>>
  BY <1>1, Steps DEF Next1, Leave
<1>3. ~Inside(p, n)
  BY <1>1, Steps DEF OnlyWhoAsks, Asks
<1> HIDE DEF n
<1>4. /\ stack' \in [Procs -> Seq(Locks)]
      /\ \A q \in Procs \ {p} : stack'[q] = stack[q]
      /\ \A q \in Procs, l \in Locks : Inside(q, l)' <=> Inside(q, l) \/ (q = p /\ l = n)
  BY <1>1, <1>2, EnteredFrames
<1>5. prog' \in [Procs -> Seq(Op)] /\ \A q \in Procs \ {p} : prog'[q] = prog[q]
  BY <1>1, <1>2, ProgramKeeps
<1>6. Types'
  BY <1>1, <1>2, <1>4, <1>5 DEF Types, Conn
<1>7. conn'[p] = "none" /\ \A q \in Procs : conn'[q] # "none" => conn[q] # "none"
  BY <1>1 DEF Types
<1>8. OnlyWhoAsks'
  BY <1>4, <1>5, <1>7, OnlyWhoAsksKeeps
<1>9. Waiting(queue', conn')
  <2>1. ASSUME NEW i \in 1..Len(queue) PROVE conn'[queue[i]] = "queued"
    <3>1. queue[i] \in Procs /\ conn[queue[i]] = "queued"
      BY DEF Types, Waiting
    <3>2. QED
      BY <1>1, <3>1 DEF Types
  <2>2. QED
    BY <1>1, <2>1 DEF Waiting
<1>10. Pinned' = Pinned \cup {<<p, n>>} /\ <<p, n>> \notin Pinned
  <2>1. \A q \in Procs, l \in Locks : <<q, l>> \in Pinned' <=> <<q, l>> \in Pinned \cup {<<p, n>>}
    BY <1>4 DEF Pinned
  <2>2. Pinned' \subseteq Procs \X Locks /\ Pinned \cup {<<p, n>>} \subseteq Procs \X Locks
    BY <1>2 DEF Pinned
  <2>3. <<p, n>> \notin Pinned
    BY <1>3 DEF Pinned
  <2>4. QED
    BY <2>1, <2>2, <2>3
<1>11. Granted' = Granted \ {p} /\ p \in Granted
  BY <1>1 DEF Granted, Types
<1>12. /\ Cardinality(Pinned') = Cardinality(Pinned) + 1
       /\ Cardinality(Granted') = Cardinality(Granted) - 1
       /\ IsFiniteSet(Pinned') /\ IsFiniteSet(Granted')
  BY <1>10, <1>11, FS_AddElement, FS_RemoveElement DEF InUseIsFinite
<1>13. Cardinality(Pinned) \in Nat /\ Cardinality(Granted) \in Nat /\ free \in Nat
  BY FS_CardinalityType DEF InUseIsFinite, Types
<1>14. InUseIsFinite' /\ PoolAccounted'
  BY <1>1, <1>12, <1>13 DEF InUseIsFinite, PoolAccounted
<1>15. ~lost => \A q \in Procs : ~Inside(q, n)
  BY <1>1, <1>2, NoProcAssumption DEF InsideOwns
<1>16. InsideOwns'
  BY <1>1, <1>2, <1>4, <1>15 DEF InsideOwns, Types
<1>17. QED
  BY <1>2, <1>4, <1>6, <1>8, <1>9, <1>14, <1>15, <1>16 DEF n

\* What is left once a frame is left: the outermost one takes its lock with it.
LEMMA LeftFrames ==
    ASSUME Types, NEW p \in Procs, stack[p] # <<>>,
           stack' = [stack EXCEPT ![p] = Tail(stack[p])]
    PROVE  /\ Head(stack[p]) \in Locks /\ Inside(p, Head(stack[p]))
           /\ stack' \in [Procs -> Seq(Locks)]
           /\ \A q \in Procs \ {p} : stack'[q] = stack[q]
           /\ ~Outermost(p) => \A q \in Procs, l \in Locks : Inside(q, l)' <=> Inside(q, l)
           /\ Outermost(p) =>
                  \A q \in Procs, l \in Locks :
                      Inside(q, l)' <=> Inside(q, l) /\ ~(q = p /\ l = Head(stack[p]))
<1>1. /\ Head(stack[p]) \in Locks /\ Tail(stack[p]) \in Seq(Locks)
      /\ \A e : Contains(stack[p], e) <=> e = Head(stack[p]) \/ Contains(Tail(stack[p]), e)
  BY TakenOff DEF Types
<1>2. stack' \in [Procs -> Seq(Locks)] /\ stack'[p] = Tail(stack[p])
  BY <1>1 DEF Types
<1>3. \A q \in Procs \ {p} : stack'[q] = stack[q]
  BY DEF Types
<1>4. ASSUME NEW q \in Procs \ {p}, NEW l \in Locks PROVE Inside(q, l)' <=> Inside(q, l)
  BY <1>3 DEF Inside
<1>5. ASSUME NEW l \in Locks
      PROVE  /\ Inside(p, l) <=> l = Head(stack[p]) \/ Inside(p, l)'
             /\ Inside(p, l)' <=> Contains(Tail(stack[p]), l)
  BY <1>1, <1>2 DEF Inside
<1>6. Outermost(p) <=> ~Contains(Tail(stack[p]), Head(stack[p]))
  BY DEF Outermost
<1>7. Inside(p, Head(stack[p]))
  BY <1>1, <1>5
<1>8. ~Outermost(p) => \A q \in Procs, l \in Locks : Inside(q, l)' <=> Inside(q, l)
  BY <1>1, <1>4, <1>5, <1>6
<1>9. Outermost(p) =>
          \A q \in Procs, l \in Locks :
              Inside(q, l)' <=> Inside(q, l) /\ ~(q = p /\ l = Head(stack[p]))
  BY <1>1, <1>4, <1>5, <1>6
<1>10. QED
  BY <1>1, <1>2, <1>3, <1>7, <1>8, <1>9

LEMMA LeaveLockKeeps ==
    ASSUME IInv, NEW p \in Procs, LeaveLock(p)
    PROVE  IInv'
<1> USE DEF IInv
<1> DEFINE h == Head(stack[p])
<1>1. /\ stack[p] # <<>> /\ conn[p] = "none" /\ lost' = lost
      /\ stack' = [stack EXCEPT ![p] = Tail(stack[p])]
  BY DEF LeaveLock
<1>2. /\ h \in Locks /\ Inside(p, h) /\ stack' \in [Procs -> Seq(Locks)]
      /\ \A q \in Procs \ {p} : stack'[q] = stack[q]
      /\ ~Outermost(p) => \A q \in Procs, l \in Locks : Inside(q, l)' <=> Inside(q, l)
      /\ Outermost(p) =>
             \A q \in Procs, l \in Locks :
                 Inside(q, l)' <=> Inside(q, l) /\ ~(q = p /\ l = h)
  BY <1>1, LeftFrames
<1>3. Cardinality(Pinned) \in Nat /\ Cardinality(Granted) \in Nat /\ free \in Nat
  BY FS_CardinalityType DEF InUseIsFinite, Types
<1>4. CASE Outermost(p)
  <2>1. /\ Released(conn)
        /\ owner' = [owner EXCEPT ![h] = IF @ = p THEN NoProc ELSE @]
        /\ Unwind(p) \/ (Proceed(p) /\ prog[p] # <<>>)
    BY <1>4 DEF LeaveLock
  <2> HIDE DEF h
  <2>2. prog' \in [Procs -> Seq(Op)] /\ \A q \in Procs \ {p} : prog'[q] = prog[q]
    BY <2>1, ProgramKeeps
  <2>3. Types /\ (queue # <<>> => free = 0) /\ Waiting(queue, conn) /\ conn \in [Procs -> Conn]
        /\ IsFiniteSet({q \in Procs : conn[q] = "granted"})
        /\ Granted = {q \in Procs : conn[q] = "granted"}
    BY DEF PoolAccounted, InUseIsFinite, Granted, Types
  <2>4. /\ conn' \in [Procs -> Conn] /\ free' \in Nat /\ queue' \in Seq(Procs)
        /\ Waiting(queue', conn')
        /\ queue' # <<>> => free' = 0
        /\ IsFiniteSet(Granted')
        /\ free' + Cardinality(Granted') = free + Cardinality(Granted) + 1
        /\ \A q \in Procs : conn'[q] = "none" <=> conn[q] = "none"
    BY <2>1, <2>3, ReleasedKeeps
  <2>5. Types'
    BY <1>1, <1>2, <2>1, <2>2, <2>4 DEF Types
  <2>6. OnlyWhoAsks'
    BY <1>1, <1>2, <2>2, <2>4, OnlyWhoAsksKeeps
  <2>7. Pinned' = Pinned \ {<<p, h>>} /\ <<p, h>> \in Pinned
    <3>1. \A q \in Procs, l \in Locks : <<q, l>> \in Pinned' <=> <<q, l>> \in Pinned \ {<<p, h>>}
      BY <1>2, <1>4 DEF Pinned
    <3>2. Pinned' \subseteq Procs \X Locks /\ Pinned \ {<<p, h>>} \subseteq Procs \X Locks
      BY DEF Pinned
    <3>3. <<p, h>> \in Pinned
      BY <1>2 DEF Pinned
    <3>4. QED
      BY <3>1, <3>2, <3>3
  <2>8. IsFiniteSet(Pinned') /\ Cardinality(Pinned') = Cardinality(Pinned) - 1
    BY <2>7, FS_RemoveElement DEF InUseIsFinite
  <2>9. Cardinality(Granted') \in Nat
    BY <2>4, FS_CardinalityType
  <2>10. free' + Cardinality(Pinned') + Cardinality(Granted') = PoolSize
    <3>1. free + Cardinality(Pinned) + Cardinality(Granted) = PoolSize
      BY DEF PoolAccounted
    <3>2. /\ free' \in Nat
          /\ free' + Cardinality(Granted') = free + Cardinality(Granted) + 1
          /\ Cardinality(Pinned') = Cardinality(Pinned) - 1
      BY <2>4, <2>8
    <3>3. QED
      BY <1>3, <2>9, <3>1, <3>2
  <2>11. InUseIsFinite' /\ PoolAccounted'
    BY <2>4, <2>8, <2>10 DEF InUseIsFinite, PoolAccounted
  <2>12. InsideOwns'
    <3> SUFFICES ASSUME ~lost, NEW q \in Procs, NEW l \in Locks, Inside(q, l)'
                 PROVE  owner'[l] = q
      BY <1>1 DEF InsideOwns
    <3>1. Inside(q, l) /\ ~(q = p /\ l = h)
      BY <1>2, <1>4
    <3>2. owner[l] = q
      BY <3>1 DEF InsideOwns
    <3>3. QED
      BY <1>2, <2>1, <3>1, <3>2 DEF Types
  <2>13. QED
    BY <2>4, <2>5, <2>6, <2>11, <2>12
<1>5. CASE ~Outermost(p)
  <2>1. UNCHANGED <<conn, owner, free, queue>>
    BY <1>5 DEF LeaveLock
  <2>2. prog' = prog \/ (Proceed(p) /\ prog[p] # <<>>)
    BY <1>5 DEF LeaveLock
  <2>3. prog' \in [Procs -> Seq(Op)] /\ \A q \in Procs \ {p} : prog'[q] = prog[q]
    BY <2>2, ProgramKeeps DEF Types
  <2>4. \A q \in Procs, l \in Locks : Inside(q, l)' <=> Inside(q, l)
    BY <1>2, <1>5
  <2>5. Types'
    BY <1>1, <1>2, <2>1, <2>3 DEF Types
  <2>6. OnlyWhoAsks'
    BY <1>1, <1>2, <2>1, <2>3, OnlyWhoAsksKeeps
  <2>7. InUseIsFinite' /\ PoolAccounted' /\ Waiting(queue', conn')
    BY <2>1, <2>4, SameFrames DEF InUseIsFinite, PoolAccounted, Granted, Waiting
  <2>8. InsideOwns'
    BY <1>1, <2>1, <2>4 DEF InsideOwns
  <2>9. QED
    BY <2>5, <2>6, <2>7, <2>8
<1>6. QED
  BY <1>4, <1>5

LEMMA LoseSessionKeeps ==
    ASSUME IInv, NEW l \in Locks, LoseSession(l)
    PROVE  IInv'
<1> USE DEF IInv
<1>1. /\ owner' = [owner EXCEPT ![l] = NoProc] /\ lost' = TRUE
      /\ UNCHANGED <<prog, stack, conn, free, queue>>
  BY DEF LoseSession
<1>2. Types'
  BY <1>1 DEF Types
<1>3. OnlyWhoAsks'
  BY <1>1 DEF OnlyWhoAsks, Asks, Next1, Inside
<1>4. InUseIsFinite' /\ PoolAccounted' /\ Waiting(queue', conn') /\ InsideOwns'
  BY <1>1 DEF InUseIsFinite, PoolAccounted, InsideOwns, Waiting, Pinned, Granted, Inside
<1>5. QED
  BY <1>2, <1>3, <1>4

LEMMA StutterKeeps == IInv /\ UNCHANGED vars => IInv'
BY DEF IInv, Types, InUseIsFinite, PoolAccounted, OnlyWhoAsks, Asks, Next1, Inside,
       Waiting, InsideOwns, Pinned, Granted, vars

LEMMA InitSound == Init => IInv
<1> SUFFICES ASSUME Init PROVE IInv
  OBVIOUS
<1>1. Types
  <2>1. prog \in [Procs -> Seq(Op)] /\ stack \in [Procs -> Seq(Locks)] /\ queue \in Seq(Procs)
    BY DEF Init
  <2>2. conn \in [Procs -> Conn] /\ owner \in [Locks -> Procs \cup {NoProc}]
    BY DEF Init, Conn
  <2>3. free \in Nat /\ lost \in BOOLEAN
    BY PoolAssumption DEF Init
  <2>4. QED
    BY <2>1, <2>2, <2>3 DEF Types
<1>2. \A p \in Procs, l \in Locks : ~Inside(p, l)
  BY DEF Init, Inside, Contains
<1>3. Pinned = {} /\ Granted = {}
  BY <1>2 DEF Pinned, Granted, Init
<1>4. InUseIsFinite /\ PoolAccounted
  BY <1>3, FS_EmptySet, PoolAssumption DEF InUseIsFinite, PoolAccounted, Init
<1>5. OnlyWhoAsks /\ Waiting(queue, conn)
  BY DEF Init, OnlyWhoAsks, Waiting
<1>6. InsideOwns
  BY <1>2 DEF InsideOwns
<1>7. QED
  BY <1>1, <1>4, <1>5, <1>6 DEF IInv

LEMMA NextKeeps == IInv /\ [Next]_vars => IInv'
<1> SUFFICES ASSUME IInv, [Next]_vars PROVE IInv'
  OBVIOUS
<1>1. ASSUME NEW p \in Procs, Request(p) PROVE IInv'
  BY <1>1, RequestKeeps
<1>2. ASSUME NEW p \in Procs, GetConnection(p) PROVE IInv'
  BY <1>2, GetConnectionKeeps
<1>3. ASSUME NEW p \in Procs, Execute(p) PROVE IInv'
  BY <1>3, ExecuteKeeps
<1>4. ASSUME NEW p \in Procs, Reenter(p) PROVE IInv'
  BY <1>4, ReenterKeeps
<1>5. ASSUME NEW p \in Procs, GetLock(p) PROVE IInv'
  BY <1>5, GetLockKeeps
<1>6. ASSUME NEW p \in Procs, GetLockTimesOut(p) PROVE IInv'
  BY <1>6, GetLockTimesOutKeeps
<1>7. ASSUME NEW p \in Procs, LeaveLock(p) PROVE IInv'
  BY <1>7, LeaveLockKeeps
<1>8. ASSUME NEW l \in Locks, LoseSession(l) PROVE IInv'
  BY <1>8, LoseSessionKeeps
<1>9. QED
  BY <1>1, <1>2, <1>3, <1>4, <1>5, <1>6, <1>7, <1>8, StutterKeeps DEF Next, Step

\* The inductive invariant holds in every reachable state.
THEOREM PoolInductive == Spec => []IInv
<1>1. Init => IInv
  BY InitSound
<1>2. IInv /\ [Next]_vars => IInv'
  BY NextKeeps
<1>3. QED
  BY <1>1, <1>2, PTL DEF Spec

\* No connection leaks on a timeout, a failed statement, a nested frame, a queue that
\* is full or a dead session, and none is idle while somebody waits for one: whatever
\* withMysqlNamedLock and the executor do, pins, statements and free connections add
\* up to the pool.
THEOREM PoolIsAccounted == Spec => []PoolAccounted
<1>1. IInv => PoolAccounted
  BY DEF IInv
<1>2. QED
  BY <1>1, PoolInductive, PTL

\* What the models of the operations assume of withMysqlNamedLock: as long as no session
\* dies, two requests are never inside one lock, however their frames are nested.
THEOREM OneInside ==
    Spec => [](~lost => \A p, q \in Procs, l \in Locks : Inside(p, l) /\ Inside(q, l) => p = q)
<1>1. IInv => (~lost => \A p, q \in Procs, l \in Locks : Inside(p, l) /\ Inside(q, l) => p = q)
  BY DEF IInv, InsideOwns
<1>2. QED
  BY <1>1, PoolInductive, PTL

(***************************************************************************)
(* The lock service implements BoardMutex, but for its liveness.           *)
(***************************************************************************)
Holders == [l \in Locks |-> {p \in Procs : Inside(p, l)}]

\* Frames that hold the same locks look the same to the mutex.
LEMMA MutexSeesHolders ==
    ASSUME \A p \in Procs, l \in Locks : Inside(p, l)' <=> Inside(p, l)
    PROVE  Holders' = Holders
BY DEF Holders

\* Every step of the lock service is one of the mutex, or none.
LEMMA MutexStep == IInv /\ [Next]_vars => [Mutex!Next]_(Mutex!vars)
<1> SUFFICES ASSUME IInv, [Next]_vars
             PROVE  Mutex!Next \/ (Holders' = Holders /\ lost' = lost)
  BY DEF Mutex!vars, Holders
<1>1. ASSUME stack' = stack, lost' = lost PROVE Holders' = Holders
  BY <1>1, MutexSeesHolders DEF Inside
<1>2. ASSUME NEW p \in Procs, Reenter(p) PROVE Holders' = Holders /\ lost' = lost
  BY <1>2, ReenterKeeps, MutexSeesHolders DEF Reenter
<1>3. ASSUME NEW p \in Procs, GetLock(p) PROVE Mutex!Next
  <2> DEFINE n == Next1(p).name
  <2>1. /\ n \in Locks
        /\ ~lost => \A q \in Procs : ~Inside(q, n)
        /\ \A q \in Procs, l \in Locks : Inside(q, l)' <=> Inside(q, l) \/ (q = p /\ l = n)
        /\ lost' = lost
    BY <1>3, GetLockKeeps DEF GetLock
  <2> HIDE DEF n
  <2>2. Holders' = [Holders EXCEPT ![n] = Holders[n] \cup {p}]
    <3>1. ASSUME NEW l \in Locks
          PROVE  {q \in Procs : Inside(q, l)'} =
                     IF l = n THEN {q \in Procs : Inside(q, l)} \cup {p}
                              ELSE {q \in Procs : Inside(q, l)}
      BY <2>1
    <3>2. QED
      BY <2>1, <3>1 DEF Holders
  <2>3. Holders[n] = {} \/ lost
    BY <2>1 DEF Holders
  <2>4. Mutex!Enter(p, n)
    BY <2>1, <2>2, <2>3 DEF Mutex!Enter, Holders
  <2>5. QED
    BY <2>1, <2>4 DEF Mutex!Next
<1>4. ASSUME NEW p \in Procs, LeaveLock(p)
      PROVE  Mutex!Next \/ (Holders' = Holders /\ lost' = lost)
  <2> DEFINE h == Head(stack[p])
  <2>1. /\ h \in Locks /\ Inside(p, h) /\ lost' = lost
        /\ ~Outermost(p) => \A q \in Procs, l \in Locks : Inside(q, l)' <=> Inside(q, l)
        /\ Outermost(p) =>
               \A q \in Procs, l \in Locks :
                   Inside(q, l)' <=> Inside(q, l) /\ ~(q = p /\ l = h)
    BY <1>4, LeftFrames DEF LeaveLock, IInv
  <2> HIDE DEF h
  <2>2. CASE ~Outermost(p)
    BY <2>1, <2>2, MutexSeesHolders
  <2>3. CASE Outermost(p)
    <3>1. ASSUME NEW l \in Locks
          PROVE  {q \in Procs : Inside(q, l)'} =
                     IF l = h THEN {q \in Procs : Inside(q, l)} \ {p}
                              ELSE {q \in Procs : Inside(q, l)}
      BY <2>1, <2>3
    <3>2. Holders' = [Holders EXCEPT ![h] = Holders[h] \ {p}]
      BY <2>1, <3>1 DEF Holders
    <3>3. p \in Holders[h]
      BY <2>1 DEF Holders
    <3>4. Mutex!Exit(p, h)
      BY <2>1, <3>2, <3>3 DEF Mutex!Exit, Holders
    <3>5. QED
      BY <2>1, <3>4 DEF Mutex!Next
  <2>4. QED
    BY <2>2, <2>3
<1>5. ASSUME NEW l \in Locks, LoseSession(l) PROVE Mutex!Next
  <2>1. stack' = stack /\ lost' = TRUE
    BY <1>5 DEF LoseSession
  <2>2. Holders' = Holders
    BY <2>1, MutexSeesHolders DEF Inside
  <2>3. QED
    BY <2>1, <2>2 DEF Mutex!Next, Mutex!Lose, Holders
<1>6. ASSUME NEW p \in Procs,
             Request(p) \/ GetConnection(p) \/ Execute(p) \/ GetLockTimesOut(p)
      PROVE  Holders' = Holders /\ lost' = lost
  <2>1. stack' = stack /\ lost' = lost
    BY <1>6 DEF Request, GetConnection, Execute, GetLockTimesOut
  <2>2. QED
    BY <1>1, <2>1
<1>7. CASE UNCHANGED vars
  BY <1>1, <1>7 DEF vars
<1>8. QED
  BY <1>2, <1>3, <1>4, <1>5, <1>6, <1>7 DEF Next, Step

\* As long as no session dies the named lock is a mutex, for any requests and boards,
\* with nested frames, operations that take several locks, and timeouts: the safety
\* part of ImplementsMutex.
THEOREM MutexSafety == Spec => Mutex!Init /\ [][Mutex!Next]_(Mutex!vars)
<1>1. Init => Mutex!Init
  <2> SUFFICES ASSUME Init PROVE Mutex!Init
    OBVIOUS
  <2>1. \A p \in Procs, l \in Locks : ~Inside(p, l)
    BY DEF Init, Inside, Contains
  <2>2. QED
    BY <2>1 DEF Mutex!Init, Init
<1>2. IInv /\ [Next]_vars => [Mutex!Next]_(Mutex!vars)
  BY MutexStep
<1>3. QED
  BY <1>1, <1>2, PoolInductive, PTL DEF Spec
=============================================================================
