----------------------------- MODULE NamedLock ------------------------------
(***************************************************************************)
(* withMysqlNamedLock over the connection pool of db.ts.                   *)
(*                                                                         *)
(* GET_LOCK belongs to a connection, so a request keeps one connection of  *)
(* the pool pinned for every named lock it waits for or holds, while its   *)
(* statements draw further connections from the same pool.  The pool hands *)
(* connections out in the order of the requests for them; the wait for a   *)
(* connection has no timeout, the wait for a lock has one.                 *)
(*                                                                         *)
(* An operation on runs takes the board's runtime lock, and again for the  *)
(* collision locks (locks.ts under run-registry.ts).  Publishing a plan    *)
(* and applying a reconcile plan take the atomic store's lock under the    *)
(* runtime lock, to bump the board revision.  An MCP mutation holds the    *)
(* atomic store's lock and takes it again for the bump.                    *)
(***************************************************************************)
EXTENDS Integers, SequencesExt

CONSTANTS
    Procs,          \* requests being served
    NoProc,         \* a free named lock
    Boards,         \* board ids
    PoolSize,       \* connectionLimit
    QueueLimit,     \* queueLimit
    MayLoseSession  \* a pinned connection may die under its request

ASSUME NoProcAssumption == NoProc \notin Procs
ASSUME PoolAssumption == PoolSize \in Nat \ {0} /\ QueueLimit \in Nat
ASSUME FaultAssumption == MayLoseSession \in BOOLEAN

VARIABLES
    prog,       \* request -> what its operation has still to do
    stack,      \* request -> the named locks it is inside, innermost first
    conn,       \* request -> its next step has no connection, waits for one, has one
    owner,      \* lock -> the request whose session holds it
    free,       \* connections nobody has
    queue,      \* requests that wait for a connection, in order
    lost        \* history: some session died while it held a lock

vars == <<prog, stack, conn, owner, free, queue, lost>>

Locks == {"runtime", "atomic"} \X Boards

Lock(name) == [op |-> "lock", name |-> name]
Query      == [op |-> "query"]
Leave      == [op |-> "leave"]

\* register_run, heartbeat_run, terminate_run.
RunOperation(b) ==
    <<Lock(<<"runtime", b>>), Query, Lock(<<"runtime", b>>), Query, Leave, Query, Leave>>

\* publish_dispatch_plan, the reconciler's apply.
Publication(b) ==
    <<Lock(<<"runtime", b>>), Query, Lock(<<"atomic", b>>), Query, Leave, Query, Leave>>

\* An MCP mutation that bumps the board revision.
Mutation(b) ==
    <<Lock(<<"atomic", b>>), Query, Lock(<<"atomic", b>>), Query, Leave, Leave>>

Idle(p) == prog[p] = <<>> /\ stack[p] = <<>>

Next1(p) == IF prog[p] = <<>> THEN Leave ELSE Head(prog[p])

\* Mutant: the frames of a request do not see each other.
InsideOwnFrameOnly(p, l) == FALSE

\* The async context of the request has an entry for the lock.
Inside(p, l) == Contains(stack[p], l)

(***************************************************************************)
(* The pool.                                                               *)
(***************************************************************************)
\* A connection is given back: to the first request that waits for one.
Released(c) ==
    IF queue = <<>>
    THEN free' = free + 1 /\ conn' = c /\ UNCHANGED queue
    ELSE /\ conn' = [c EXCEPT ![Head(queue)] = "granted"]
         /\ queue' = Tail(queue)
         /\ UNCHANGED free

\* The operation throws: nothing is left to do but to leave the locks it is in.
Unwind(p) == prog' = [prog EXCEPT ![p] = <<>>]

Proceed(p) == prog' = [prog EXCEPT ![p] = Tail(prog[p])]

GetConnection(p) ==
    /\ conn[p] = "none"
    /\ \/ Next1(p) = Query
       \/ Next1(p).op = "lock" /\ ~Inside(p, Next1(p).name)
    /\ \/ /\ free > 0
          /\ free' = free - 1
          /\ conn' = [conn EXCEPT ![p] = "granted"]
          /\ UNCHANGED <<prog, queue>>
       \/ /\ free = 0 /\ Len(queue) < QueueLimit
          /\ queue' = Append(queue, p)
          /\ conn' = [conn EXCEPT ![p] = "queued"]
          /\ UNCHANGED <<prog, free>>
       \/ /\ free = 0 /\ Len(queue) = QueueLimit
          /\ Unwind(p)
          /\ UNCHANGED <<conn, free, queue>>
    /\ UNCHANGED <<stack, owner, lost>>

\* A statement of the operation, over the pool; it may fail.
Execute(p) ==
    /\ Next1(p) = Query /\ conn[p] = "granted"
    /\ Released([conn EXCEPT ![p] = "none"])
    /\ Proceed(p) \/ Unwind(p)
    /\ UNCHANGED <<stack, owner, lost>>

(***************************************************************************)
(* withMysqlNamedLock.                                                     *)
(***************************************************************************)
\* The same request is inside already: no second GET_LOCK.
Reenter(p) ==
    /\ Next1(p).op = "lock"
    /\ Inside(p, Next1(p).name)
    /\ stack' = [stack EXCEPT ![p] = <<Next1(p).name>> \o stack[p]]
    /\ Proceed(p)
    /\ UNCHANGED <<conn, owner, free, queue, lost>>

\* Mutant: the answer of GET_LOCK is not looked at.
GetLockUnchecked(p) ==
    /\ Next1(p).op = "lock" /\ conn[p] = "granted"
    /\ owner' = [owner EXCEPT ![Next1(p).name] = IF @ = NoProc THEN p ELSE @]
    /\ stack' = [stack EXCEPT ![p] = <<Next1(p).name>> \o stack[p]]
    /\ conn' = [conn EXCEPT ![p] = "none"]
    /\ Proceed(p)
    /\ UNCHANGED <<free, queue, lost>>

GetLock(p) ==
    /\ Next1(p).op = "lock" /\ conn[p] = "granted"
    /\ owner[Next1(p).name] = NoProc
    /\ owner' = [owner EXCEPT ![Next1(p).name] = p]
    /\ stack' = [stack EXCEPT ![p] = <<Next1(p).name>> \o stack[p]]
    /\ conn' = [conn EXCEPT ![p] = "none"]     \* it is the lock's from now on
    /\ Proceed(p)
    /\ UNCHANGED <<free, queue, lost>>

\* Mutant: the connection of a failed GET_LOCK is not given back.
GetLockTimesOutKeepingPin(p) ==
    /\ Next1(p).op = "lock" /\ conn[p] = "granted"
    /\ owner[Next1(p).name] # NoProc
    /\ conn' = [conn EXCEPT ![p] = "none"]
    /\ Unwind(p)
    /\ UNCHANGED <<stack, owner, free, queue, lost>>

\* GET_LOCK(?, 10) returns 0.
GetLockTimesOut(p) ==
    /\ Next1(p).op = "lock" /\ conn[p] = "granted"
    /\ owner[Next1(p).name] # NoProc
    /\ Released([conn EXCEPT ![p] = "none"])
    /\ Unwind(p)
    /\ UNCHANGED <<stack, owner, lost>>

\* The frame being left is the one that took the lock.
Outermost(p) == ~Contains(Tail(stack[p]), Head(stack[p]))

\* The frame returns or throws.  The outermost one issues RELEASE_LOCK on the
\* pinned connection and gives it back; if the session died in the meantime,
\* RELEASE_LOCK throws, and the pool replaces the connection.
LeaveLock(p) ==
    /\ Next1(p) = Leave /\ stack[p] # <<>>
    /\ conn[p] = "none"
    /\ stack' = [stack EXCEPT ![p] = Tail(stack[p])]
    /\ IF Outermost(p)
       THEN /\ Released(conn)
            /\ owner' = [owner EXCEPT ![Head(stack[p])] = IF @ = p THEN NoProc ELSE @]
            /\ IF prog[p] # <<>> /\ owner[Head(stack[p])] = p THEN Proceed(p) ELSE Unwind(p)
       ELSE /\ IF prog[p] # <<>> THEN Proceed(p) ELSE UNCHANGED prog
            /\ UNCHANGED <<conn, owner, free, queue>>
    /\ UNCHANGED lost

\* The session of a pinned connection dies: the server frees the lock, the
\* operation does not notice.
LoseSession(l) ==
    /\ MayLoseSession
    /\ ~lost                   \* bound: once
    /\ owner[l] # NoProc
    /\ owner' = [owner EXCEPT ![l] = NoProc]
    /\ lost' = TRUE
    /\ UNCHANGED <<prog, stack, conn, free, queue>>

(***************************************************************************)
(* Specification                                                           *)
(***************************************************************************)
Request(p) ==
    /\ Idle(p)
    /\ \E b \in Boards : \E op \in {RunOperation(b), Publication(b), Mutation(b)} :
           prog' = [prog EXCEPT ![p] = op]
    /\ UNCHANGED <<stack, conn, owner, free, queue, lost>>

Init ==
    /\ prog = [p \in Procs |-> <<>>]
    /\ stack = [p \in Procs |-> <<>>]
    /\ conn = [p \in Procs |-> "none"]
    /\ owner = [l \in Locks |-> NoProc]
    /\ free = PoolSize
    /\ queue = <<>>
    /\ lost = FALSE

Step(p) ==
    GetConnection(p) \/ Execute(p) \/ Reenter(p) \/ GetLock(p)
        \/ GetLockTimesOut(p) \/ LeaveLock(p)

Next ==
    \/ \E p \in Procs : Request(p) \/ Step(p)
    \/ \E l \in Locks : LoseSession(l)

\* The server answers every statement (max_execution_time, and ten seconds for
\* GET_LOCK) and the event loop serves every request that can go on.
Spec == Init /\ [][Next]_vars /\ \A p \in Procs : WF_vars(Step(p))

(***************************************************************************)
(* Properties                                                              *)
(***************************************************************************)

\* Pins and statements account for every connection: none leaks on a timeout, a
\* failed statement, a nested frame or a dead session, and none is idle while
\* somebody waits for one.
Pinned == {pl \in Procs \X Locks : Inside(pl[1], pl[2])}
Granted == {p \in Procs : conn[p] = "granted"}
PoolAccounted ==
    /\ free + Cardinality(Pinned) + Cardinality(Granted) = PoolSize
    /\ queue # <<>> => free = 0

\* A request comes back: pinned connections cannot starve it for ever.
EveryRequestEnds == \A p \in Procs : ~Idle(p) ~> Idle(p)

\* What the comment on queueLimit expects: nobody waits for a connection for ever.
NobodyQueuesForever ==
    \A p \in Procs : conn[p] = "queued" ~> conn[p] # "queued"

\* As long as no session dies the named lock is a mutex that is always let go.
Mutex == INSTANCE BoardMutex WITH inside <- [l \in Locks |-> {p \in Procs : Inside(p, l)}]
ImplementsMutex == Mutex!Spec
=============================================================================
