---------------------------- MODULE AccountSync -----------------------------
(***************************************************************************)
(* account-sync.ts and account-sync-scheduler.ts: one board, one server.   *)
(*                                                                         *)
(* A report of the accounts is published in jobs: `publish` writes the     *)
(* snapshot and opens the board for dispatch, `record` notes that all      *)
(* surfaces read that publication back, `fresh` re-evaluates its age.      *)
(* Each job is a section under the accounts' named lock; the board's       *)
(* revision and its dispatch block belong to another lock, so a foreign    *)
(* bump may come between any two statements and make setBoardState refuse. *)
(* What goes wrong anywhere ends in `force` or `close`: mark stale, block. *)
(*                                                                         *)
(* Revisions are compared for equality only and never return, so whoever   *)
(* holds an expectation keeps one bit of it: still current or not.  Times  *)
(* are ages that stop growing once they exceed every limit.  Capacity is   *)
(* what staleness makes of it: none while stale.                           *)
(***************************************************************************)
EXTENDS Integers

CONSTANTS
    Requests,       \* MCP calls in progress
    Rounds,         \* ticks of the timer in progress; they may overlap
    NoProc, NoOp, NoSnap, NoIntent,
    SLA,            \* ACCOUNT_PUBLISH_SLA_MS
    Health,         \* ACCOUNT_PERIODIC_HEALTH_MS
    Kinds,          \* the calls that are made: "sync", "notify", "beat"
    MaxTroubles     \* foreign bumps, failing statements and restarts together

ASSUME ProcsAssumption == NoProc \notin Requests \cup Rounds /\ Requests \cap Rounds = {}
ASSUME LimitsAssumption == SLA \in Nat /\ Health \in Nat /\ SLA <= Health
ASSUME KindsAssumption == Kinds \subseteq {"sync", "notify", "beat"}
ASSUME BoundsAssumption == MaxTroubles \in Nat

VARIABLES
    snap,       \* the account snapshot of the board, or NoSnap
    blocked,    \* dispatchBlocked of the board
    pending,    \* the coalesced heartbeat of the scheduler, or NoIntent
    waited,     \* its age, counted from the first heartbeat it replaced
    checkup,    \* age of the scheduler's health checkpoint; Never before lastIntent
    known,      \* the scheduler has heard of the board
    op,         \* process -> what it is doing
    mutex,      \* who is inside the accounts' lock
    troubles,   \* bumps, faults and restarts that are left
    confirmed,  \* history: all surfaces have read the snapshot's publication
    missed      \* history: a stale or fresh mark did not reach the board

sched == <<pending, waited, checkup, known>>
vars == <<snap, blocked, sched, op, mutex, troubles, confirmed, missed>>

Procs == Requests \cup Rounds
Ages == 0 .. Health + 1
Never == Health + 2

\* Mutant: ages are not capped.
OlderForEver(a) == a + 1
Older(a) == IF a > Health THEN a ELSE a + 1

\* The revisions an intent expects: still the current ones, or not.
Intent == [entity : BOOLEAN, board : BOOLEAN]
Current == [entity |-> TRUE, board |-> TRUE]
Lost == [entity |-> FALSE, board |-> FALSE]

\* parity: the four readbacks name this publication.
Snap == [age : Ages, parity : BOOLEAN, stale : BOOLEAN]

Jobs == {"publish", "record", "fresh", "force", "refresh", "close", "fatal", "last"}
Steps == {"enqueue", "periodic", "prepare", "check", "enter", "put", "bump", "board", "set", "surfaces"}

\* expects: the revisions it expects.  mine: the snapshot is the one this
\* process published.  new: what the job makes of the snapshot it read.
Op == [kind : {"sync", "notify", "beat", "tick"}, step : Steps, job : Jobs, periodic : BOOLEAN,
       expects : Intent, mine : BOOLEAN, new : Snap \cup {NoSnap}]
ASSUME NoOpAssumption == NoOp \notin Op

Begin(kind, step, expects) ==
    [kind |-> kind, step |-> step, job |-> "publish", periodic |-> FALSE,
     expects |-> expects, mine |-> FALSE, new |-> NoSnap]

Init ==
    /\ snap = NoSnap /\ blocked = FALSE
    /\ pending = NoIntent /\ waited = 0 /\ checkup = Never /\ known = FALSE
    /\ op = [p \in Procs |-> NoOp]
    /\ mutex = NoProc
    /\ troubles = MaxTroubles
    /\ confirmed = FALSE /\ missed = FALSE

Working(p) == op[p] # NoOp
At(p, step) == Working(p) /\ op[p].step = step
Do(p, o) == op' = [op EXCEPT ![p] = o]

(***************************************************************************)
(* What follows a job.                                                     *)
(***************************************************************************)
\* The next section; only a publication and its record know more than the lock
\* will tell them.
Section(o, job) ==
    [o EXCEPT !.job = job, !.step = "enter", !.new = NoSnap,
              !.expects = IF job = "publish" THEN @ ELSE Lost,
              !.mine = @ /\ job = "record"]

\* The error reaches the caller: the timer and the notifying tools fail closed,
\* sync_accounts only reports it.
Thrown(o) == IF o.kind = "sync" THEN NoOp ELSE Section(o, "close")

Failed(o) ==
    CASE o.job = "publish" -> Section(o, "refresh")
      [] o.job = "record"  -> Section(o, "force")
      [] o.job = "close"   -> IF o.kind = "tick" THEN Section(o, "fatal") ELSE NoOp
      [] o.job = "fatal"   -> NoOp
      [] OTHER             -> Thrown(o)

\* The end of publishNow.
Finished(p) ==
    LET o == op[p] IN
    /\ pending' = NoIntent /\ waited' = 0
    /\ checkup' = IF o.periodic \/ checkup = Never THEN 0 ELSE checkup
    /\ Do(p, IF o.kind # "tick" THEN NoOp
             ELSE IF o.periodic THEN Section(o, "last")
             ELSE [o EXCEPT !.step = "periodic"])
    /\ UNCHANGED known

Succeeded(p) ==
    LET o == op[p] IN
    IF o.job = "fresh" THEN Finished(p)
    ELSE /\ Do(p, CASE o.job = "publish" -> [o EXCEPT !.job = "record", !.step = "surfaces",
                                                       !.expects = Lost, !.new = NoSnap]
                    [] o.job = "record"  -> Section(o, "fresh")
                    [] o.job \in {"refresh", "force"} -> Thrown(o)
                    [] OTHER -> NoOp)
         /\ UNCHANGED sched

(***************************************************************************)
(* Calls and ticks.                                                        *)
(***************************************************************************)
\* A caller reads both revisions; sync_accounts brings a new report, the
\* notifying tools repeat the one they read.
Request(p, kind) ==
    /\ op[p] = NoOp
    /\ kind = "sync" \/ snap # NoSnap
    /\ Do(p, Begin(kind, "enqueue", Current))
    /\ UNCHANGED <<snap, blocked, sched, mutex, troubles, confirmed, missed>>

\* Mutant: every heartbeat starts the window anew.
DeadlineRestarts == 0

\* A heartbeat that replaces a pending one keeps the first one's deadline.
WaitedSoFar == IF pending = NoIntent THEN 0 ELSE waited

Enqueue(p) ==
    /\ At(p, "enqueue")
    /\ known' = TRUE
    /\ IF op[p].kind = "beat"
       THEN /\ pending' = op[p].expects
            /\ waited' = WaitedSoFar
            /\ Do(p, NoOp)
       ELSE /\ pending' = NoIntent /\ waited' = 0
            /\ Do(p, [op[p] EXCEPT !.step = "check"])
    /\ UNCHANGED <<snap, blocked, checkup, mutex, troubles, confirmed, missed>>

\* flushDueHeartbeats: the heartbeat is taken off before it is published.
Round(p) ==
    /\ op[p] = NoOp /\ known
    /\ IF pending # NoIntent /\ waited >= SLA
       THEN /\ Do(p, Begin("tick", "check", pending))
            /\ pending' = NoIntent /\ waited' = 0
       ELSE /\ Do(p, Begin("tick", "periodic", Lost))
            /\ UNCHANGED <<pending, waited>>
    /\ UNCHANGED <<snap, blocked, checkup, known, mutex, troubles, confirmed, missed>>

\* Is a publication to be repeated?
HealthDue == pending = NoIntent /\ checkup # Never /\ checkup >= Health

\* runPeriodicHealth: the last intent again, with the revisions of now.
Periodic(p) ==
    /\ At(p, "periodic")
    /\ Do(p, IF HealthDue
             THEN [op[p] EXCEPT !.step = "prepare", !.expects = [Lost EXCEPT !.board = TRUE]]
             ELSE Section(op[p], "last"))
    /\ UNCHANGED <<snap, blocked, sched, mutex, troubles, confirmed, missed>>

Prepare(p) ==
    /\ At(p, "prepare")
    /\ Do(p, [op[p] EXCEPT !.step = "check", !.job = "publish", !.periodic = TRUE,
                           !.expects.entity = TRUE])
    /\ UNCHANGED <<snap, blocked, sched, mutex, troubles, confirmed, missed>>

\* syncAccounts compares the board revision before it takes the lock.
Check(p) ==
    /\ At(p, "check")
    /\ Do(p, IF op[p].expects.board
             THEN [Section(op[p], "publish") EXCEPT !.expects.board = FALSE]
             ELSE Failed(op[p]))
    /\ UNCHANGED <<snap, blocked, sched, mutex, troubles, confirmed, missed>>

(***************************************************************************)
(* A job under the accounts' lock.                                         *)
(***************************************************************************)
Published == [age |-> 0, parity |-> FALSE, stale |-> FALSE]

\* Mutant: the readbacks are taken to be those of the snapshot found.
RecordedBlindly(s, mine) == [s EXCEPT !.parity = TRUE, !.stale = FALSE]

\* recordAccountReadbacks, with the identity this process has read back.
Recorded(s, mine) == [s EXCEPT !.parity = mine, !.stale = s.age > SLA /\ ~mine]

\* Mutant: age is not looked at once the surfaces agree.
OverdueWithoutParity(s) == s.age > SLA /\ ~s.parity

\* evaluateAccountSyncFreshness.
Overdue(s) == (s.age > SLA /\ ~s.parity) \/ s.age > Health
Evaluated(s) == [s EXCEPT !.stale = @ \/ Overdue(s)]

\* forceStaleUsableZero.
Forced(s) == [s EXCEPT !.stale = TRUE]

Forcing(o) == o.job \in {"force", "close", "fatal"}

Rewritten(o) ==
    CASE o.job = "publish" -> Published
      [] o.job = "record"  -> Recorded(snap, o.mine)
      [] Forcing(o)        -> Forced(snap)
      [] OTHER             -> Evaluated(snap)

\* isMaterialAccountSyncTransition: otherwise nothing is written.
Material(o) == o.job \in {"publish", "record"} \/ Rewritten(o).stale # snap.stale

\* Mutant: the read-modify-write takes place outside the lock.
Unlocked == TRUE
LockFree == mutex = NoProc

Enter(p) ==
    /\ At(p, "enter") /\ LockFree
    /\ LET o == op[p] IN
       \/ /\ o.job = "publish" /\ ~o.expects.entity
          /\ Do(p, Failed(o))
          /\ UNCHANGED <<mutex, sched>>
       \/ /\ o.job # "publish" /\ snap = NoSnap
          /\ Succeeded(p)
          /\ UNCHANGED mutex
       \/ /\ IF o.job = "publish" THEN o.expects.entity ELSE snap # NoSnap
          /\ IF Material(o)
             THEN /\ mutex' = p
                  /\ Do(p, [o EXCEPT !.step = "put", !.new = Rewritten(o), !.expects.entity = TRUE])
                  /\ UNCHANGED sched
             ELSE IF Forcing(o) /\ ~blocked
             THEN /\ mutex' = p
                  /\ Do(p, [o EXCEPT !.step = "set", !.new = snap, !.expects.board = TRUE])
                  /\ UNCHANGED sched
             ELSE Succeeded(p) /\ UNCHANGED mutex
    /\ UNCHANGED <<snap, blocked, troubles, confirmed, missed>>

\* p wrote the snapshot: nobody else's expectation of its revision holds, and
\* a new publication is nobody else's.
Disturbed(p, o) ==
    [q \in Procs |->
        IF q = p THEN o
        ELSE IF op[q] = NoOp THEN NoOp
        ELSE [op[q] EXCEPT !.expects.entity = FALSE, !.mine = @ /\ o.job # "publish"]]

Put(p) ==
    /\ At(p, "put")
    /\ LET o == op[p]
           anew == o.job = "publish"
       IN  /\ snap' = o.new
           /\ op' = Disturbed(p, [o EXCEPT !.step = IF anew THEN "bump" ELSE "board",
                                           !.mine = @ \/ anew, !.expects = Lost])
           /\ confirmed' = (confirmed /\ ~anew)
           /\ missed' = (missed /\ ~anew)
    /\ pending' = IF pending = NoIntent THEN NoIntent ELSE [pending EXCEPT !.entity = FALSE]
    /\ UNCHANGED <<blocked, waited, checkup, known, mutex, troubles>>

\* The board's revision moves on: nobody's expectation of it holds.
BoardMoved(o) ==
    /\ op' = [q \in Procs |-> IF o[q] = NoOp THEN NoOp ELSE [o[q] EXCEPT !.expects.board = FALSE]]
    /\ pending' = IF pending = NoIntent THEN NoIntent ELSE [pending EXCEPT !.board = FALSE]

\* bumpBoardRev of a publication.
BumpBoard(p) ==
    /\ At(p, "bump")
    /\ op' = [q \in Procs |->
                CASE q = p        -> [op[p] EXCEPT !.step = "set", !.expects.board = TRUE]
                  [] op[q] = NoOp -> NoOp
                  [] OTHER        -> [op[q] EXCEPT !.expects.board = FALSE]]
    /\ pending' = IF pending = NoIntent THEN NoIntent ELSE [pending EXCEPT !.board = FALSE]
    /\ UNCHANGED <<snap, blocked, waited, checkup, known, mutex, troubles, confirmed, missed>>

\* getBoardState, whose revision setBoardState takes along.
ReadBoard(p) ==
    /\ At(p, "board")
    /\ Do(p, [op[p] EXCEPT !.step = "set", !.expects.board = TRUE])
    /\ UNCHANGED <<snap, blocked, sched, mutex, troubles, confirmed, missed>>

\* Mutant: every write of the snapshot opens the board.
AlwaysOpen(o) == FALSE

\* applyDispatchBlock and its variants.
DispatchBlock(o) == o.new.stale

\* setBoardState refuses a revision that is behind; a publication then appends
\* its audit event and completes its idempotency row, which may fail as well.
SetBoard(p) ==
    /\ At(p, "set")
    /\ mutex' = NoProc
    /\ IF op[p].expects.board
       THEN /\ blocked' = DispatchBlock(op[p])
            /\ missed' = FALSE
            /\ \/ Succeeded(p) /\ UNCHANGED troubles
               \/ /\ op[p].job = "publish" /\ troubles > 0
                  /\ troubles' = troubles - 1
                  /\ Do(p, Failed(op[p]))
                  /\ UNCHANGED sched
       ELSE /\ missed' = TRUE
            /\ Do(p, Failed(op[p]))
            /\ UNCHANGED <<blocked, sched, troubles>>
    /\ UNCHANGED <<snap, confirmed>>

\* createIndependentAccountSyncSurfacePublisher: each surface must read the
\* publication it is asked to confirm.
SurfacesAgree(o) == o.mine

ReadSurfaces(p) ==
    /\ At(p, "surfaces")
    /\ Do(p, IF SurfacesAgree(op[p]) THEN Section(op[p], "record") ELSE Failed(op[p]))
    /\ confirmed' = (confirmed \/ op[p].mine)
    /\ UNCHANGED <<snap, blocked, sched, mutex, troubles, missed>>

(***************************************************************************)
(* The surroundings.                                                       *)
(***************************************************************************)
BeforeTheBoard == {"bump", "board", "set"}

\* A statement fails; whoever is inside the lock leaves it.
Fault(p) ==
    /\ troubles > 0
    /\ Working(p) /\ op[p].step \notin {"enqueue", "periodic"}
    /\ troubles' = troubles - 1
    /\ mutex' = IF mutex = p THEN NoProc ELSE mutex
    /\ missed' = (missed \/ op[p].step \in BeforeTheBoard)
    /\ Do(p, IF op[p].step = "prepare" THEN Thrown(op[p]) ELSE Failed(op[p]))
    /\ UNCHANGED <<snap, blocked, sched, confirmed>>

ForeignBump ==
    /\ troubles > 0
    /\ troubles' = troubles - 1
    /\ BoardMoved(op)
    /\ UNCHANGED <<snap, blocked, waited, checkup, known, mutex, confirmed, missed>>

Time ==
    LET older(s) == IF s = NoSnap THEN NoSnap ELSE [s EXCEPT !.age = Older(@)] IN
    /\ snap' = older(snap)
    /\ op' = [p \in Procs |-> IF op[p] = NoOp THEN NoOp ELSE [op[p] EXCEPT !.new = older(@)]]
    /\ waited' = IF pending = NoIntent THEN 0 ELSE Older(waited)
    /\ checkup' = IF checkup = Never THEN Never ELSE Older(checkup)
    /\ UNCHANGED <<blocked, pending, known, mutex, troubles, confirmed, missed>>

\* The scheduler's state is in memory; the rows are not.
Restart ==
    /\ troubles > 0
    /\ troubles' = troubles - 1
    /\ op' = [p \in Procs |-> NoOp] /\ mutex' = NoProc
    /\ pending' = NoIntent /\ waited' = 0 /\ checkup' = Never /\ known' = FALSE
    /\ missed' = (missed \/ \E p \in Procs : Working(p) /\ op[p].step \in BeforeTheBoard)
    /\ UNCHANGED <<snap, blocked, confirmed>>

Step(p) ==
    \/ Enqueue(p) \/ Periodic(p) \/ Prepare(p) \/ Check(p) \/ Put(p)
    \/ BumpBoard(p) \/ ReadBoard(p) \/ SetBoard(p) \/ ReadSurfaces(p)

Next ==
    \/ \E p \in Requests, kind \in Kinds : Request(p, kind)
    \/ \E p \in Rounds : Round(p)
    \/ \E p \in Procs : Enter(p) \/ Step(p) \/ Fault(p)
    \/ ForeignBump \/ Time \/ Restart

\* Time passes and the timer keeps firing; a statement returns or fails; MySQL
\* grants a named lock to those who wait in the order they came.
Fairness ==
    /\ WF_vars(Time)
    /\ \A p \in Rounds : WF_vars(Round(p))
    /\ \A p \in Procs : WF_vars(Step(p)) /\ SF_vars(Enter(p))

Spec == Init /\ [][Next]_vars
FairSpec == Spec /\ Fairness

(***************************************************************************)
(* Properties.                                                             *)
(***************************************************************************)
\* The account sync state has the shape the code gives it.
TypeOK ==
    /\ snap \in Snap \cup {NoSnap} /\ blocked \in BOOLEAN
    /\ pending \in Intent \cup {NoIntent}
    /\ waited \in Ages /\ checkup \in Ages \cup {Never} /\ known \in BOOLEAN
    /\ op \in [Procs -> Op \cup {NoOp}]
    /\ mutex \in Procs \cup {NoProc}
    /\ troubles \in 0 .. MaxTroubles
    /\ confirmed \in BOOLEAN /\ missed \in BOOLEAN

\* Every write of the snapshot is based on the snapshot it replaces: failing
\* closed never clobbers a publication made meanwhile (forceStaleUsableZero).
NoLostUpdate == \A p \in Procs : At(p, "put") => op[p].expects.entity

\* Parity is only ever claimed for a publication that all surfaces have read
\* back (recordAccountReadbacks, publishNow).
ParityIsEarned == snap # NoSnap /\ snap.parity => confirmed

\* Outside the lock the board is blocked exactly when its snapshot is stale,
\* unless a refused or failed setBoardState left it behind.
GateFollowsSnapshot ==
    snap # NoSnap /\ mutex = NoProc /\ ~missed => (blocked <=> snap.stale)

\* Once stale, only a new publication or proven parity reopens a snapshot
\* (header of account-sync.ts, recordAccountReadbacks).
StaleStaysClosed ==
    [][snap # NoSnap /\ snap.stale /\ ~snap'.stale =>
        snap'.parity \/ \E p \in Procs : At(p, "put") /\ op[p].job = "publish"]_vars

\* A coalesced heartbeat does not wait for ever, however many follow it
\* (enqueue, flushDueHeartbeats).
HeartbeatIsServed == (pending # NoIntent) ~> (pending = NoIntent)

\* As long as the server that knows the board runs, a publication that goes
\* silent is marked stale or replaced (tick, evaluateAllFreshness).
Silent == known /\ snap # NoSnap /\ snap.age > Health /\ ~snap.stale
SilenceIsNoticed == Silent ~> ~Silent

=============================================================================
