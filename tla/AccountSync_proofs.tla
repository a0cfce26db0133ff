------------------------- MODULE AccountSync_proofs -------------------------
(***************************************************************************)
(* The account snapshot and the gate: proofs for any number of requests    *)
(* and rounds of the timer, any limits and any number of troubles.         *)
(*                                                                         *)
(* What carries them is the accounts' lock.  Whoever is between its read   *)
(* and its last write holds it (LockIsHeld), so the snapshot it read is    *)
(* still there when it writes (NoLostUpdate), and the one it wrote is      *)
(* still there when it sets the gate (WritesWhatItRead).  Parity is in     *)
(* nobody's hands who has not seen it (ParityInHand), and the gate agrees  *)
(* with the snapshot whenever nobody is on the way from one to the other   *)
(* (GateInStep).                                                           *)
(***************************************************************************)
EXTENDS AccountSync, TLAPS

InTheLock == {"put", "bump", "board", "set"}

LockIsHeld == \A p \in Procs : Working(p) /\ op[p].step \in InTheLock => mutex = p

WritesWhatItRead ==
    \A p \in Procs : Working(p) /\ op[p].step \in InTheLock =>
        /\ op[p].new \in Snap
        /\ op[p].step \in BeforeTheBoard => op[p].new = snap

\* A record past its surfaces carries a parity that was seen; what is about to
\* be written claims none but that, and a publication claims none.
Seen(o) ==
    /\ o.mine /\ o.job = "record" /\ o.step # "surfaces" => confirmed
    /\ o.step = "put" /\ o.new # NoSnap /\ o.new.parity => confirmed /\ o.job # "publish"
ParityInHand == \A p \in Procs : Working(p) => Seen(op[p])

OnTheWay == \E p \in Procs : Working(p) /\ op[p].step \in BeforeTheBoard
GateInStep == snap # NoSnap /\ ~missed /\ ~OnTheWay => (blocked <=> snap.stale)

IInv ==
    /\ TypeOK
    /\ LockIsHeld /\ NoLostUpdate /\ WritesWhatItRead
    /\ ParityIsEarned /\ ParityInHand
    /\ GateInStep

-----------------------------------------------------------------------------
(***************************************************************************)
(* What the helpers return.                                                *)
(***************************************************************************)
\* Ages stay ages.
LEMMA OlderType == \A a \in Ages : Older(a) \in Ages
  BY LimitsAssumption DEF Ages, Older

\* A process outside the lock that claims no parity it has not seen.
Harmless(o, seen) ==
    o # NoOp => /\ o \in Op /\ o.step \notin InTheLock
                /\ o.mine /\ o.job = "record" /\ o.step # "surfaces" => seen

\* The shape of the next section.
LEMMA SectionShape ==
  ASSUME NEW o \in Op, NEW job \in Jobs
  PROVE  /\ Section(o, job) \in Op
         /\ Section(o, job).step = "enter" /\ Section(o, job).job = job
         /\ Section(o, job).kind = o.kind
         /\ Section(o, job).mine => o.mine /\ job = "record"
         /\ Section(o, job).expects \in Intent
  <1>1. Lost \in Intent
    BY DEF Lost, Intent
  <1>2. QED
    BY <1>1 DEF Section, Op, Steps

\* After an error a process is outside the lock and claims nothing.
LEMMA ThrownHarmless ==
  ASSUME NEW o \in Op, NEW seen
  PROVE  Harmless(Thrown(o), seen)
  <1>1. "close" \in Jobs
    BY DEF Jobs
  <1>2. QED
    BY <1>1, SectionShape DEF Thrown, Harmless, InTheLock

LEMMA FailedHarmless ==
  ASSUME NEW o \in Op, NEW seen
  PROVE  Harmless(Failed(o), seen)
  <1>1. {"refresh", "force", "fatal"} \subseteq Jobs
    BY DEF Jobs
  <1>2. \A job \in {"refresh", "force", "fatal"} : Harmless(Section(o, job), seen)
    BY <1>1, SectionShape DEF Harmless, InTheLock
  <1>3. Harmless(NoOp, seen) /\ Harmless(Thrown(o), seen)
    BY ThrownHarmless DEF Harmless
  <1>4. QED
    BY <1>2, <1>3 DEF Failed

\* After a success, too: the record keeps the claim of its publication only
\* until the surfaces are read.
LEMMA SucceededHarmless ==
  ASSUME TypeOK, NEW p \in Procs, Working(p), Succeeded(p), NEW seen,
         op[p].job = "record" /\ op[p].mine => seen
  PROVE  \E o : Do(p, o) /\ Harmless(o, seen)
  <1>1. op[p] \in Op
    BY DEF TypeOK, Working
  <1>2. CASE op[p].job = "fresh"
    <2>1. Harmless([op[p] EXCEPT !.step = "periodic"], seen)
      BY <1>1, <1>2 DEF Harmless, Op, Steps, InTheLock
    <2>2. Harmless(Section(op[p], "last"), seen) /\ Harmless(NoOp, seen)
      BY <1>1, SectionShape DEF Harmless, InTheLock, Jobs
    <2>3. QED
      BY <1>2, <2>1, <2>2 DEF Succeeded, Finished
  <1>3. CASE op[p].job # "fresh"
    <2>1. Harmless([op[p] EXCEPT !.job = "record", !.step = "surfaces",
                                 !.expects = Lost, !.new = NoSnap], seen)
      BY <1>1 DEF Harmless, Op, Steps, Jobs, InTheLock, Lost, Intent
    <2>2. Harmless(Section(op[p], "fresh"), seen) /\ Harmless(NoOp, seen)
      BY <1>1, SectionShape DEF Harmless, InTheLock, Jobs
    <2>3. Harmless(Thrown(op[p]), seen)
      BY <1>1, ThrownHarmless
    <2>4. QED
      BY <1>3, <2>1, <2>2, <2>3 DEF Succeeded
  <1>4. QED
    BY <1>2, <1>3

\* Either way the scheduler's state keeps its shape.
LEMMA SucceededSched ==
  ASSUME TypeOK, NEW p \in Procs, Working(p), Succeeded(p)
  PROVE  /\ pending' \in Intent \cup {NoIntent}
         /\ waited' \in Ages /\ checkup' \in Ages \cup {Never} /\ known' \in BOOLEAN
  <1>1. 0 \in Ages
    BY LimitsAssumption DEF Ages
  <1>2. QED
    BY <1>1 DEF Succeeded, Finished, TypeOK, sched

-----------------------------------------------------------------------------
(***************************************************************************)
(* A process that is outside the lock after its step.                      *)
(***************************************************************************)
\* Whoever ends outside the lock, having written no snapshot, disturbs nobody;
\* the gate is in step if it was, if it has just been set, or if it is noted
\* that it was not.
LEMMA OutsideKeeps ==
  ASSUME IInv, NEW p \in Procs, NEW o, Do(p, o), Harmless(o, confirmed'),
         snap' = snap, confirmed' \in BOOLEAN, confirmed => confirmed',
         mutex' = mutex \/ (mutex = p /\ mutex' = NoProc),
         \/ blocked' = blocked /\ missed' = missed
            /\ ~(Working(p) /\ op[p].step \in BeforeTheBoard)
         \/ missed'
         \/ snap # NoSnap => (blocked' <=> snap.stale),
         blocked' \in BOOLEAN, missed' \in BOOLEAN, troubles' \in 0 .. MaxTroubles,
         pending' \in Intent \cup {NoIntent}, waited' \in Ages,
         checkup' \in Ages \cup {Never}, known' \in BOOLEAN
  PROVE  IInv'
  <1>1. /\ op'[p] = o
        /\ \A q \in Procs : q # p => op'[q] = op[q]
        /\ op' \in [Procs -> Op \cup {NoOp}]
    BY DEF IInv, TypeOK, Do, Harmless
  <1>2. TypeOK'
    BY <1>1 DEF IInv, TypeOK
  <1>3. LockIsHeld'
    <2>1. SUFFICES ASSUME NEW q \in Procs, (Working(q) /\ op[q].step \in InTheLock)'
                   PROVE  mutex' = q
      BY DEF LockIsHeld
    <2>2. q # p
      BY <1>1, <2>1 DEF Harmless, Working
    <2>3. mutex = q
      BY <1>1, <2>1, <2>2 DEF IInv, LockIsHeld, Working
    <2>4. QED
      BY <2>2, <2>3
  <1>4. NoLostUpdate'
    BY <1>1 DEF IInv, NoLostUpdate, At, Working, Harmless, InTheLock
  <1>5. WritesWhatItRead'
    BY <1>1 DEF IInv, WritesWhatItRead, Working, Harmless, InTheLock, BeforeTheBoard
  <1>6. ParityIsEarned'
    BY DEF IInv, ParityIsEarned
  <1>7. ParityInHand'
    <2>1. SUFFICES ASSUME NEW q \in Procs, Working(q)'
                   PROVE  Seen(op[q])'
      BY DEF ParityInHand
    <2>2. CASE q = p
      BY <1>1, <2>1, <2>2 DEF Seen, Harmless, Working, InTheLock
    <2>3. CASE q # p
      BY <1>1, <2>1, <2>3 DEF Seen, IInv, ParityInHand, Working
    <2>4. QED
      BY <2>2, <2>3
  <1>8. GateInStep'
    <2>1. SUFFICES ASSUME snap' # NoSnap, ~missed', ~OnTheWay'
                   PROVE  blocked' <=> snap'.stale
      BY DEF GateInStep
    <2>2. CASE /\ blocked' = blocked /\ missed' = missed
               /\ ~(Working(p) /\ op[p].step \in BeforeTheBoard)
      <3>1. ~OnTheWay
        BY <1>1, <2>1, <2>2 DEF OnTheWay, Working
      <3>2. QED
        BY <2>1, <2>2, <3>1 DEF IInv, GateInStep
    <2>3. CASE snap # NoSnap => (blocked' <=> snap.stale)
      BY <2>1, <2>3
    <2>4. QED
      BY <2>1, <2>2, <2>3
  <1>9. QED
    BY <1>2, <1>3, <1>4, <1>5, <1>6, <1>7, <1>8 DEF IInv

\* The steps before a section, and the readback of the surfaces.
LEMMA OutsideSteps ==
  ASSUME IInv, NEW p \in Procs,
         \/ \E kind \in Kinds : Request(p, kind)
         \/ Round(p) \/ Enqueue(p) \/ Periodic(p) \/ Prepare(p) \/ Check(p) \/ ReadSurfaces(p)
  PROVE  IInv'
  <1>0. /\ Lost \in Intent /\ Current \in Intent /\ [Lost EXCEPT !.board = TRUE] \in Intent
        /\ 0 \in Ages
    <2>1. \A e \in Intent : [e EXCEPT !.board = TRUE] \in Intent
      BY DEF Intent
    <2>2. Lost \in Intent /\ Current \in Intent
      BY DEF Lost, Current, Intent
    <2>3. QED
      BY <2>1, <2>2, LimitsAssumption DEF Ages
  <1>1. TypeOK /\ ParityInHand
    BY DEF IInv
  <1>t. Working(p) => op[p] \in Op
    BY <1>1 DEF TypeOK, Working
  <1>b. ASSUME NEW kind \in {"sync", "notify", "beat", "tick"}, NEW e \in Intent,
               NEW step \in {"enqueue", "check", "periodic"}
        PROVE  Harmless(Begin(kind, step, e), confirmed')
    BY DEF Begin, Harmless, Op, Steps, Jobs, InTheLock
  <1>2. ASSUME NEW kind \in Kinds, Request(p, kind)
        PROVE  IInv'
    <2>1. Harmless(Begin(kind, "enqueue", Current), confirmed')
      BY <1>0, <1>b, KindsAssumption
    <2>2. QED
      BY <1>1, <1>2, <2>1, OutsideKeeps DEF Request, sched, TypeOK, Working
  <1>3. CASE Round(p)
    <2>1. CASE pending # NoIntent /\ waited >= SLA
      <3>1. Harmless(Begin("tick", "check", pending), confirmed')
        BY <1>1, <1>b, <2>1 DEF TypeOK
      <3>2. QED
        BY <1>0, <1>1, <1>3, <2>1, <3>1, OutsideKeeps DEF Round, TypeOK, Working
    <2>2. CASE ~(pending # NoIntent /\ waited >= SLA)
      <3>1. Harmless(Begin("tick", "periodic", Lost), confirmed')
        BY <1>0, <1>b
      <3>2. QED
        BY <1>0, <1>1, <1>3, <2>2, <3>1, OutsideKeeps DEF Round, TypeOK, Working
    <2>3. QED
      BY <2>1, <2>2
  <1>4. CASE Enqueue(p)
    <2>1. Harmless(NoOp, confirmed')
      BY DEF Harmless
    <2>2. Harmless([op[p] EXCEPT !.step = "check"], confirmed')
      <3>1. op[p] \in Op /\ Seen(op[p]) /\ op[p].step = "enqueue"
        BY <1>1, <1>t, <1>4 DEF Enqueue, At, ParityInHand
      <3>2. QED
        BY <1>4, <3>1 DEF Harmless, Op, Steps, InTheLock, Seen, Enqueue
    <2>3. op[p].expects \in Intent
      BY <1>t, <1>4 DEF Enqueue, At, Op
    <2>4. PICK o \in {NoOp, [op[p] EXCEPT !.step = "check"]} : Do(p, o)
      BY <1>4 DEF Enqueue
    <2>5. WaitedSoFar \in Ages
      BY <1>0, <1>1 DEF WaitedSoFar, TypeOK
    <2>6. QED
      BY <1>0, <1>1, <1>4, <2>1, <2>2, <2>3, <2>4, <2>5, OutsideKeeps
         DEF Enqueue, TypeOK, At, BeforeTheBoard
  <1>5. CASE Periodic(p)
    <2>1. op[p] \in Op /\ Seen(op[p]) /\ op[p].step = "periodic"
      BY <1>1, <1>t, <1>5 DEF Periodic, At, ParityInHand
    <2>2. Harmless([op[p] EXCEPT !.step = "prepare", !.expects = [Lost EXCEPT !.board = TRUE]],
                   confirmed')
      BY <1>0, <1>5, <2>1 DEF Harmless, Op, Steps, InTheLock, Seen, Periodic
    <2>3. Harmless(Section(op[p], "last"), confirmed')
      BY <2>1, SectionShape DEF Harmless, InTheLock, Jobs
    <2>4. QED
      BY <1>1, <1>5, <2>1, <2>2, <2>3, OutsideKeeps DEF Periodic, TypeOK, At, BeforeTheBoard, sched
  <1>6. CASE Prepare(p)
    <2>1. op[p] \in Op /\ op[p].step = "prepare"
      BY <1>t, <1>6 DEF Prepare, At
    <2>2. Harmless([op[p] EXCEPT !.step = "check", !.job = "publish", !.periodic = TRUE,
                           !.expects.entity = TRUE], confirmed')
      BY <2>1 DEF Harmless, Op, Steps, InTheLock, Jobs, Intent
    <2>3. QED
      BY <1>1, <1>6, <2>1, <2>2, OutsideKeeps DEF Prepare, TypeOK, At, BeforeTheBoard, sched
  <1>7. CASE Check(p)
    <2>1. op[p] \in Op /\ op[p].step = "check"
      BY <1>t, <1>7 DEF Check, At
    <2>2. Harmless([Section(op[p], "publish") EXCEPT !.expects.board = FALSE], confirmed')
      <3> DEFINE s == Section(op[p], "publish")
      <3>1. s \in Op /\ s.step = "enter" /\ s.job = "publish"
        BY <2>1, SectionShape DEF Jobs
      <3> HIDE DEF s
      <3>2. Harmless([s EXCEPT !.expects.board = FALSE], confirmed')
        BY <3>1 DEF Harmless, InTheLock, Op, Intent
      <3>3. QED
        BY <3>2 DEF s
    <2>3. Harmless(Failed(op[p]), confirmed')
      BY <2>1, FailedHarmless
    <2>4. QED
      BY <1>1, <1>7, <2>1, <2>2, <2>3, OutsideKeeps DEF Check, TypeOK, At, BeforeTheBoard, sched
  <1>8. CASE ReadSurfaces(p)
    <2>1. op[p] \in Op /\ op[p].step = "surfaces"
      BY <1>t, <1>8 DEF ReadSurfaces, At
    <2>2. SurfacesAgree(op[p]) => Harmless(Section(op[p], "record"), confirmed')
      BY <1>8, <2>1, SectionShape DEF ReadSurfaces, SurfacesAgree, Harmless, InTheLock, Jobs
    <2>3. Harmless(Failed(op[p]), confirmed')
      BY <2>1, FailedHarmless
    <2>4. confirmed' \in BOOLEAN /\ (confirmed => confirmed')
      BY <1>1, <1>8, <2>1 DEF ReadSurfaces, TypeOK, Op
    <2>5. QED
      BY <1>1, <1>8, <2>1, <2>2, <2>3, <2>4, OutsideKeeps
         DEF ReadSurfaces, TypeOK, At, BeforeTheBoard, sched
  <1>9. QED
    BY <1>2, <1>3, <1>4, <1>5, <1>6, <1>7, <1>8

-----------------------------------------------------------------------------
(***************************************************************************)
(* A process that is inside the lock after its step.                       *)
(***************************************************************************)
\* While one process holds the lock, or nobody does, no other is inside.
LEMMA Alone ==
  ASSUME IInv, NEW p \in Procs, mutex \in {NoProc, p},
         NEW q \in Procs, Working(q), op[q].step \in InTheLock
  PROVE  mutex = p /\ q = p
  BY ProcsAssumption DEF IInv, LockIsHeld, Procs

\* What the holder's step may do to another process: take an expectation or a
\* publication away from it.
Faded(q) ==
    op'[q] # NoOp => /\ Working(q)
                     /\ op'[q].step = op[q].step /\ op'[q].job = op[q].job
                     /\ op'[q].mine => op[q].mine /\ (confirmed => confirmed')

\* The holder's step keeps the invariant if what the holder has in hand is
\* right: what it will write, or what it has written.
LEMMA InsideKeeps ==
  ASSUME IInv, TypeOK', NEW p \in Procs, mutex \in {NoProc, p}, mutex' = p,
         op'[p] # NoOp, op'[p].new \in Snap,
         \A q \in Procs \ {p} : Faded(q),
         op'[p].step = "put" => op'[p].expects.entity,
         op'[p].step \in BeforeTheBoard => op'[p].new = snap',
         Seen(op[p])', ParityIsEarned',
         \/ op'[p].step \in BeforeTheBoard
         \/ mutex = NoProc /\ snap' = snap /\ blocked' = blocked /\ missed' = missed
  PROVE  IInv'
  <1>1. ASSUME NEW q \in Procs, q # p, Working(q)'
        PROVE  /\ Working(q) /\ op[q].step \notin InTheLock /\ op'[q].step \notin InTheLock
               /\ op'[q].mine /\ op'[q].job = "record" /\ op'[q].step # "surfaces" => confirmed'
    <2>1. Faded(q) /\ op'[q] # NoOp
      BY <1>1 DEF Working
    <2>2. Working(q) /\ op[q].step \notin InTheLock
      BY <1>1, <2>1, Alone DEF Faded
    <2>3. Seen(op[q])
      BY <2>2 DEF IInv, ParityInHand
    <2>4. QED
      BY <2>1, <2>2, <2>3 DEF Faded, Seen
  <1>2. LockIsHeld'
    BY <1>1 DEF LockIsHeld
  <1>3. NoLostUpdate'
    BY <1>1 DEF NoLostUpdate, At, InTheLock, Working
  <1>4. WritesWhatItRead'
    BY <1>1 DEF WritesWhatItRead, BeforeTheBoard, Working
  <1>5. ParityInHand'
    BY <1>1 DEF ParityInHand, Seen, InTheLock, Working
  <1>6. GateInStep'
    <2>1. CASE op'[p].step \in BeforeTheBoard
      BY <2>1 DEF GateInStep, OnTheWay, Working
    <2>2. CASE mutex = NoProc /\ snap' = snap /\ blocked' = blocked /\ missed' = missed
      <3>1. ~OnTheWay
        BY <2>2, ProcsAssumption DEF IInv, LockIsHeld, OnTheWay, InTheLock, BeforeTheBoard, Procs
      <3>2. QED
        BY <2>2, <3>1 DEF IInv, GateInStep
    <2>3. QED
      BY <2>1, <2>2
  <1>7. QED
    BY <1>2, <1>3, <1>4, <1>5, <1>6 DEF IInv

\* What a job makes of the snapshot it finds is a snapshot; it claims parity
\* only as a record of the process's own publication or as it was found.
LEMMA RewrittenShape ==
  ASSUME NEW o \in Op, snap \in Snap \/ o.job = "publish"
  PROVE  /\ Rewritten(o) \in Snap
         /\ Rewritten(o).parity => /\ o.job # "publish"
                                  /\ IF o.job = "record" THEN o.mine ELSE snap.parity
  <1>1. Published \in Snap /\ ~Published.parity
    BY LimitsAssumption DEF Published, Snap, Ages
  <1>2. ASSUME snap \in Snap
        PROVE  /\ \A m \in BOOLEAN : Recorded(snap, m) \in Snap /\ Recorded(snap, m).parity = m
               /\ Forced(snap) \in Snap /\ Forced(snap).parity = snap.parity
               /\ Evaluated(snap) \in Snap /\ Evaluated(snap).parity = snap.parity
    BY <1>2 DEF Snap, Recorded, Forced, Evaluated
  <1>3. o.mine \in BOOLEAN
    BY DEF Op
  <1>4. CASE o.job = "publish"
    <2>1. Rewritten(o) = Published
      BY <1>4 DEF Rewritten, Forcing
    <2>2. QED
      BY <1>1, <1>4, <2>1
  <1>5. CASE o.job = "record"
    <2>1. Rewritten(o) = Recorded(snap, o.mine)
      BY <1>5 DEF Rewritten, Forcing
    <2>2. QED
      BY <1>2, <1>3, <1>5, <2>1
  <1>6. CASE o.job \notin {"publish", "record"}
    <2>1. Rewritten(o) = IF Forcing(o) THEN Forced(snap) ELSE Evaluated(snap)
      BY <1>6 DEF Rewritten
    <2>2. QED
      BY <1>2, <1>6, <2>1
  <1>7. QED
    BY <1>4, <1>5, <1>6

LEMMA EnterKeeps ==
  ASSUME IInv, NEW p \in Procs, Enter(p)
  PROVE  IInv'
  <1>1. TypeOK /\ op[p] \in Op /\ Seen(op[p]) /\ Working(p) /\ op[p].step = "enter" /\ mutex = NoProc
    BY DEF IInv, TypeOK, Enter, At, Working, ParityInHand, LockFree
  <1>2. snap' = snap /\ blocked' = blocked /\ troubles' = troubles /\ confirmed' = confirmed
        /\ missed' = missed
    BY DEF Enter
  <1>3. CASE Do(p, Failed(op[p])) /\ UNCHANGED <<mutex, sched>>
    BY <1>1, <1>2, <1>3, FailedHarmless, OutsideKeeps DEF TypeOK, sched, BeforeTheBoard
  <1>4. CASE Succeeded(p) /\ UNCHANGED mutex
    <2>1. PICK o : Do(p, o) /\ Harmless(o, confirmed')
      BY <1>1, <1>2, <1>4, SucceededHarmless DEF Seen
    <2>2. QED
      BY <1>1, <1>2, <1>4, <2>1, SucceededSched, OutsideKeeps DEF TypeOK, BeforeTheBoard
  <1>5. ASSUME NEW step \in {"put", "set"}, NEW new \in Snap, NEW e \in Intent, mutex' = p,
               Do(p, [op[p] EXCEPT !.step = step, !.new = new, !.expects = e]),
               step = "put" => e.entity,
               new.parity => confirmed /\ op[p].job # "publish",
               step = "set" => new = snap,
               UNCHANGED sched
        PROVE  IInv'
    <2> DEFINE o == [op[p] EXCEPT !.step = step, !.new = new, !.expects = e]
    <2>1. /\ o \in Op /\ o.step = step /\ o.new = new /\ o.expects = e
          /\ o.mine = op[p].mine /\ o.job = op[p].job
      BY <1>1, <1>5 DEF Op, Steps
    <2>2. op' = [op EXCEPT ![p] = o]
      BY <1>5 DEF Do
    <2> HIDE DEF o
    <2>3. op'[p] = o /\ o # NoOp /\ op' \in [Procs -> Op \cup {NoOp}]
          /\ \A q \in Procs \ {p} : op'[q] = op[q]
      BY <1>1, <2>1, <2>2, NoOpAssumption DEF TypeOK
    <2>4. TypeOK'
      BY <1>1, <1>2, <1>5, <2>3 DEF TypeOK, sched
    <2>5. Seen(op[p])'
      BY <1>1, <1>2, <1>5, <2>1, <2>3 DEF Seen
    <2>6. \A q \in Procs \ {p} : Faded(q)
      BY <1>2, <2>3 DEF Faded, Working
    <2>7. ParityIsEarned'
      BY <1>2 DEF IInv, ParityIsEarned
    <2>8. QED
      BY <1>1, <1>2, <1>5, <2>1, <2>3, <2>4, <2>5, <2>6, <2>7, InsideKeeps DEF BeforeTheBoard
  <1>6. ASSUME IF op[p].job = "publish" THEN op[p].expects.entity ELSE snap # NoSnap,
               mutex' = p, UNCHANGED sched,
               Do(p, [op[p] EXCEPT !.step = "put", !.new = Rewritten(op[p]), !.expects.entity = TRUE])
        PROVE  IInv'
    <2> DEFINE e == [op[p].expects EXCEPT !.entity = TRUE]
    <2>1. e \in Intent /\ e.entity
      BY <1>1 DEF Op, Intent
    <2>2. snap \in Snap \/ op[p].job = "publish"
      BY <1>1, <1>6 DEF TypeOK
    <2>3. Rewritten(op[p]) \in Snap /\ (Rewritten(op[p]).parity => confirmed /\ op[p].job # "publish")
      BY <1>1, <1>6, <2>2, RewrittenShape DEF Seen, IInv, ParityIsEarned
    <2>4. [op[p] EXCEPT !.step = "put", !.new = Rewritten(op[p]), !.expects.entity = TRUE]
            = [op[p] EXCEPT !.step = "put", !.new = Rewritten(op[p]), !.expects = e]
      BY <1>1 DEF Op
    <2> HIDE DEF e
    <2>5. QED
      BY <1>5, <1>6, <2>1, <2>3, <2>4
  <1>7. ASSUME snap # NoSnap, mutex' = p, UNCHANGED sched, ~Material(op[p]),
               Do(p, [op[p] EXCEPT !.step = "set", !.new = snap, !.expects.board = TRUE])
        PROVE  IInv'
    <2> DEFINE e == [op[p].expects EXCEPT !.board = TRUE]
    <2>1. e \in Intent
      BY <1>1 DEF Op, Intent
    <2>2. snap \in Snap
      BY <1>1, <1>7 DEF TypeOK
    <2>3. snap.parity => confirmed /\ op[p].job # "publish"
      BY <1>7 DEF Material, IInv, ParityIsEarned
    <2>4. [op[p] EXCEPT !.step = "set", !.new = snap, !.expects.board = TRUE]
            = [op[p] EXCEPT !.step = "set", !.new = snap, !.expects = e]
      BY <1>1 DEF Op
    <2> HIDE DEF e
    <2>5. QED
      BY <1>5, <1>7, <2>1, <2>2, <2>3, <2>4
  <1>8. QED
    <2>1. CASE op[p].job = "publish" /\ ~op[p].expects.entity /\ Do(p, Failed(op[p]))
               /\ UNCHANGED <<mutex, sched>>
      BY <1>3, <2>1
    <2>2. CASE op[p].job # "publish" /\ snap = NoSnap /\ Succeeded(p) /\ UNCHANGED mutex
      BY <1>4, <2>2
    <2>3. CASE /\ IF op[p].job = "publish" THEN op[p].expects.entity ELSE snap # NoSnap
               /\ Material(op[p])
               /\ mutex' = p /\ UNCHANGED sched
               /\ Do(p, [op[p] EXCEPT !.step = "put", !.new = Rewritten(op[p]),
                                      !.expects.entity = TRUE])
      BY <1>6, <2>3
    <2>4. CASE /\ IF op[p].job = "publish" THEN op[p].expects.entity ELSE snap # NoSnap
               /\ ~Material(op[p])
               /\ IF Forcing(op[p]) /\ ~blocked
                  THEN /\ mutex' = p
                       /\ Do(p, [op[p] EXCEPT !.step = "set", !.new = snap, !.expects.board = TRUE])
                       /\ UNCHANGED sched
                  ELSE Succeeded(p) /\ UNCHANGED mutex
      <3>1. op[p].job # "publish"
        BY <2>4 DEF Material
      <3>2. QED
        BY <1>4, <1>7, <2>4, <3>1
    <2>5. QED
      BY <2>1, <2>2, <2>3, <2>4 DEF Enter

-----------------------------------------------------------------------------
(***************************************************************************)
(* The writes under the lock.                                              *)
(***************************************************************************)
\* Whoever is inside holds the lock, with a snapshot in hand.
LEMMA Holder ==
  ASSUME IInv, NEW p \in Procs, Working(p), op[p].step \in InTheLock
  PROVE  /\ mutex = p /\ op[p] \in Op /\ op[p].new \in Snap /\ Seen(op[p])
         /\ op[p].step \in BeforeTheBoard => op[p].new = snap
  BY DEF IInv, TypeOK, LockIsHeld, WritesWhatItRead, ParityInHand, Working

\* saveSnapshot.
LEMMA PutKeeps ==
  ASSUME IInv, NEW p \in Procs, Put(p)
  PROVE  IInv'
  <1>1. Working(p) /\ op[p].step = "put"
    BY DEF Put, At
  <1>2. /\ TypeOK /\ mutex = p /\ op[p] \in Op /\ op[p].new \in Snap
        /\ op[p].new # NoSnap /\ op[p].new.parity => confirmed /\ op[p].job # "publish"
        /\ op[p].mine /\ op[p].job = "record" => confirmed
    BY <1>1, Holder DEF InTheLock, IInv, Seen
  <1> DEFINE anew == op[p].job = "publish"
             o == [op[p] EXCEPT !.step = IF anew THEN "bump" ELSE "board",
                                !.mine = @ \/ anew, !.expects = Lost]
  <1>3. /\ o \in Op /\ o.step \in BeforeTheBoard /\ o.new = op[p].new /\ o.job = op[p].job
        /\ o.mine => op[p].mine \/ anew
    <2>1. Lost \in Intent
      BY DEF Lost, Intent
    <2>2. QED
      BY <1>2, <2>1 DEF Op, Steps, BeforeTheBoard
  <1>4. /\ snap' = op[p].new /\ op' = Disturbed(p, o) /\ confirmed' = (confirmed /\ ~anew)
        /\ missed' = (missed /\ ~anew) /\ mutex' = p
        /\ pending' = IF pending = NoIntent THEN NoIntent ELSE [pending EXCEPT !.entity = FALSE]
        /\ UNCHANGED <<blocked, waited, checkup, known, troubles>>
    BY <1>2 DEF Put
  <1> HIDE DEF o
  <1>5. op'[p] = o /\ o # NoOp
    BY <1>3, <1>4, NoOpAssumption DEF Disturbed
  <1>6. ASSUME NEW q \in Procs \ {p}
        PROVE  op'[q] \in Op \cup {NoOp} /\ Faded(q)
    <2>1. op'[q] = IF op[q] = NoOp THEN NoOp
                   ELSE [op[q] EXCEPT !.expects.entity = FALSE, !.mine = @ /\ ~anew]
      BY <1>3, <1>4 DEF Disturbed
    <2>2. op[q] = NoOp \/ op[q] \in Op
      BY <1>2 DEF TypeOK
    <2>3. CASE op[q] = NoOp
      BY <2>1, <2>3 DEF Faded
    <2>4. CASE op[q] # NoOp
      <3> DEFINE y == [op[q] EXCEPT !.expects.entity = FALSE, !.mine = @ /\ ~anew]
      <3>1. /\ y \in Op /\ y.step = op[q].step /\ y.job = op[q].job
            /\ y.mine => op[q].mine /\ ~anew
        BY <2>2, <2>4 DEF Op, Intent
      <3>2. op'[q] = y
        BY <2>1, <2>4
      <3> HIDE DEF y
      <3>3. QED
        BY <1>4, <2>4, <3>1, <3>2 DEF Faded, Working
    <2>5. QED
      BY <2>3, <2>4
  <1>7. TypeOK'
    <2>1. op' \in [Procs -> Op \cup {NoOp}]
      BY <1>3, <1>4, <1>5, <1>6 DEF Disturbed
    <2>2. \A e \in Intent : [e EXCEPT !.entity = FALSE] \in Intent
      BY DEF Intent
    <2>3. QED
      BY <1>2, <1>4, <2>1, <2>2 DEF TypeOK
  <1>8. Seen(op[p])' /\ ParityIsEarned'
    BY <1>2, <1>3, <1>4, <1>5 DEF Seen, ParityIsEarned, BeforeTheBoard
  <1>9. QED
    BY <1>2, <1>3, <1>4, <1>5, <1>6, <1>7, <1>8, InsideKeeps DEF BeforeTheBoard

\* bumpBoardRev and getBoardState: the holder goes on to the gate.
LEMMA TowardsTheBoard ==
  ASSUME IInv, NEW p \in Procs, Working(p), op[p].step \in BeforeTheBoard,
         op' \in [Procs -> Op \cup {NoOp}],
         op'[p] = [op[p] EXCEPT !.step = "set", !.expects.board = TRUE],
         \A q \in Procs \ {p} : Faded(q),
         pending' \in Intent \cup {NoIntent},
         UNCHANGED <<snap, blocked, waited, checkup, known, mutex, troubles, confirmed, missed>>
  PROVE  IInv'
  <1>1. /\ TypeOK /\ mutex = p /\ op[p] \in Op /\ op[p].new \in Snap /\ op[p].new = snap
        /\ Seen(op[p]) /\ op[p].step # "surfaces"
    BY Holder DEF InTheLock, BeforeTheBoard, IInv
  <1> DEFINE o == [op[p] EXCEPT !.step = "set", !.expects.board = TRUE]
  <1>2. /\ o \in Op /\ o.step = "set" /\ o.new = op[p].new /\ o.job = op[p].job
        /\ o.mine = op[p].mine
    BY <1>1 DEF Op, Steps, Intent
  <1> HIDE DEF o
  <1>3. op'[p] = o /\ o # NoOp
    BY <1>2, NoOpAssumption DEF o
  <1>4. TypeOK'
    BY <1>1 DEF TypeOK
  <1>5. Seen(op[p])' /\ ParityIsEarned'
    BY <1>1, <1>2, <1>3 DEF Seen, ParityIsEarned, IInv
  <1>6. QED
    BY <1>1, <1>2, <1>3, <1>4, <1>5, InsideKeeps DEF BeforeTheBoard

\* Losing an expectation of the board's revision changes nothing else.
LEMMA BoardLost ==
  /\ \A x \in Op : LET y == [x EXCEPT !.expects.board = FALSE]
                  IN  /\ y \in Op /\ y.step = x.step /\ y.job = x.job /\ y.mine = x.mine
                      /\ y.new = x.new /\ y.expects.entity = x.expects.entity
  /\ \A e \in Intent : [e EXCEPT !.board = FALSE] \in Intent
  BY DEF Op, Intent

LEMMA BumpBoardKeeps ==
  ASSUME IInv, NEW p \in Procs, BumpBoard(p)
  PROVE  IInv'
  <1>1. TypeOK /\ Working(p) /\ op[p].step = "bump" /\ op[p] \in Op
    BY DEF BumpBoard, At, IInv, TypeOK, Working
  <1>2. op'[p] = [op[p] EXCEPT !.step = "set", !.expects.board = TRUE]
    BY <1>1 DEF BumpBoard, Working
  <1>3. [op[p] EXCEPT !.step = "set", !.expects.board = TRUE] \in Op
    BY <1>1 DEF Op, Steps, Intent
  <1>4. ASSUME NEW q \in Procs \ {p}
        PROVE  op'[q] \in Op \cup {NoOp} /\ Faded(q)
    <2>1. op'[q] = IF op[q] = NoOp THEN NoOp ELSE [op[q] EXCEPT !.expects.board = FALSE]
      BY DEF BumpBoard
    <2>2. op[q] = NoOp \/ op[q] \in Op
      BY <1>1 DEF TypeOK
    <2>3. confirmed' = confirmed
      BY DEF BumpBoard
    <2>4. QED
      BY <2>1, <2>2, <2>3, BoardLost DEF Faded, Working
  <1>5. op' \in [Procs -> Op \cup {NoOp}]
    <2>1. op' = [q \in Procs |-> op'[q]]
      BY DEF BumpBoard
    <2>2. QED
      BY <1>2, <1>3, <1>4, <2>1
  <1>6. pending' \in Intent \cup {NoIntent}
    BY <1>1, BoardLost DEF BumpBoard, TypeOK
  <1>7. QED
    BY <1>1, <1>2, <1>4, <1>5, <1>6, TowardsTheBoard DEF BumpBoard, BeforeTheBoard

LEMMA ReadBoardKeeps ==
  ASSUME IInv, NEW p \in Procs, ReadBoard(p)
  PROVE  IInv'
  <1>1. TypeOK /\ Working(p) /\ op[p].step = "board" /\ op[p] \in Op
    BY DEF ReadBoard, At, IInv, TypeOK, Working
  <1> DEFINE o == [op[p] EXCEPT !.step = "set", !.expects.board = TRUE]
  <1>2. o \in Op
    BY <1>1 DEF Op, Steps, Intent
  <1>3. op' = [op EXCEPT ![p] = o]
    BY DEF ReadBoard, Do
  <1> HIDE DEF o
  <1>4. /\ op'[p] = o /\ op' \in [Procs -> Op \cup {NoOp}]
        /\ \A q \in Procs \ {p} : op'[q] = op[q]
    BY <1>1, <1>2, <1>3 DEF TypeOK
  <1>5. \A q \in Procs \ {p} : Faded(q)
    BY <1>4 DEF Faded, Working, ReadBoard
  <1>6. QED
    BY <1>1, <1>4, <1>5, TowardsTheBoard DEF ReadBoard, BeforeTheBoard, sched, o, TypeOK

\* setBoardState: the gate is set to what the holder has written, or it is noted
\* that it was not.
LEMMA SetBoardKeeps ==
  ASSUME IInv, NEW p \in Procs, SetBoard(p)
  PROVE  IInv'
  <1>1. Working(p) /\ op[p].step = "set"
    BY DEF SetBoard, At
  <1>2. /\ TypeOK /\ mutex = p /\ op[p] \in Op /\ op[p].new \in Snap /\ op[p].new = snap
        /\ op[p].mine /\ op[p].job = "record" => confirmed
    BY <1>1, Holder DEF InTheLock, BeforeTheBoard, IInv, Seen
  <1>3. op[p].new.stale \in BOOLEAN
    BY <1>2 DEF Snap
  <1>4. mutex' = NoProc /\ snap' = snap /\ confirmed' = confirmed
    BY DEF SetBoard
  <1>5. Harmless(Failed(op[p]), confirmed')
    BY <1>2, FailedHarmless
  <1>6. CASE blocked' = op[p].new.stale /\ missed' = FALSE /\ Succeeded(p) /\ UNCHANGED troubles
    <2>1. PICK o : Do(p, o) /\ Harmless(o, confirmed')
      BY <1>1, <1>2, <1>4, <1>6, SucceededHarmless
    <2>2. QED
      BY <1>1, <1>2, <1>3, <1>4, <1>6, <2>1, SucceededSched, OutsideKeeps DEF TypeOK
  <1>7. CASE /\ blocked' = op[p].new.stale /\ missed' = FALSE
             /\ troubles > 0 /\ troubles' = troubles - 1
             /\ Do(p, Failed(op[p])) /\ UNCHANGED sched
    <2>1. troubles' \in 0 .. MaxTroubles
      BY <1>2, <1>7, BoundsAssumption DEF TypeOK
    <2>2. QED
      BY <1>2, <1>3, <1>4, <1>5, <1>7, <2>1, OutsideKeeps DEF TypeOK, sched
  <1>8. CASE missed' = TRUE /\ Do(p, Failed(op[p])) /\ UNCHANGED <<blocked, sched, troubles>>
    BY <1>2, <1>4, <1>5, <1>8, OutsideKeeps DEF TypeOK, sched
  <1>9. QED
    BY <1>6, <1>7, <1>8 DEF SetBoard, DispatchBlock

-----------------------------------------------------------------------------
(***************************************************************************)
(* The surroundings.                                                       *)
(***************************************************************************)
\* A failing statement: whoever was on the way to the gate notes it.
LEMMA FaultKeeps ==
  ASSUME IInv, NEW p \in Procs, Fault(p)
  PROVE  IInv'
  <1>1. Working(p) /\ TypeOK /\ op[p] \in Op
    BY DEF Fault, IInv, TypeOK, Working
  <1>2. PICK o : Do(p, o) /\ Harmless(o, confirmed')
    BY <1>1, FailedHarmless, ThrownHarmless DEF Fault
  <1>3. troubles' \in 0 .. MaxTroubles
    BY <1>1, BoundsAssumption DEF Fault, TypeOK
  <1>4. mutex' = mutex \/ (mutex = p /\ mutex' = NoProc)
    BY DEF Fault
  <1>5. missed' = missed \/ missed' = TRUE
    BY <1>1 DEF Fault, TypeOK
  <1>6. ~missed' => ~(op[p].step \in BeforeTheBoard)
    BY DEF Fault
  <1>7. QED
    BY <1>1, <1>2, <1>3, <1>4, <1>5, <1>6, OutsideKeeps DEF Fault, TypeOK, sched

\* A bump of the board by somebody else.
LEMMA ForeignBumpKeeps ==
  ASSUME IInv, ForeignBump
  PROVE  IInv'
  <1>1. TypeOK
    BY DEF IInv
  <1>2. /\ UNCHANGED <<snap, blocked, waited, checkup, known, mutex, confirmed, missed>>
        /\ troubles' \in 0 .. MaxTroubles /\ pending' \in Intent \cup {NoIntent}
    BY <1>1, BoardLost, BoundsAssumption DEF ForeignBump, BoardMoved, TypeOK
  <1>3. ASSUME NEW q \in Procs
        PROVE  /\ op'[q] \in Op \cup {NoOp}
               /\ Working(q)' <=> Working(q)
               /\ Working(q) => /\ op'[q].step = op[q].step /\ op'[q].job = op[q].job
                                /\ op'[q].mine = op[q].mine /\ op'[q].new = op[q].new
                                /\ op'[q].expects.entity = op[q].expects.entity
    <2>1. op'[q] = IF op[q] = NoOp THEN NoOp ELSE [op[q] EXCEPT !.expects.board = FALSE]
      BY DEF ForeignBump, BoardMoved
    <2>2. op[q] = NoOp \/ op[q] \in Op
      BY <1>1 DEF TypeOK
    <2>3. QED
      BY <2>1, <2>2, BoardLost, NoOpAssumption DEF Working
  <1>4. op' \in [Procs -> Op \cup {NoOp}]
    <2>1. op' = [q \in Procs |-> op'[q]]
      BY DEF ForeignBump, BoardMoved
    <2>2. QED
      BY <1>3, <2>1
  <1>5. TypeOK'
    BY <1>1, <1>2, <1>4 DEF TypeOK
  <1>6. LockIsHeld' /\ NoLostUpdate' /\ WritesWhatItRead' /\ ParityIsEarned'
    BY <1>2, <1>3 DEF IInv, LockIsHeld, NoLostUpdate, At, Working, WritesWhatItRead, ParityIsEarned
  <1>7. ParityInHand' /\ GateInStep'
    BY <1>2, <1>3 DEF IInv, ParityInHand, Seen, GateInStep, OnTheWay
  <1>8. QED
    BY <1>5, <1>6, <1>7 DEF IInv

\* Time passes: the snapshot and the copy in a process's hand age together.
LEMMA TimeKeeps ==
  ASSUME IInv, Time
  PROVE  IInv'
  <1>1. TypeOK
    BY DEF IInv
  <1> DEFINE older(s) == IF s = NoSnap THEN NoSnap ELSE [s EXCEPT !.age = Older(@)]
  <1>2. /\ \A s \in Snap : LET y == [s EXCEPT !.age = Older(@)]
                          IN  y \in Snap /\ y.parity = s.parity /\ y.stale = s.stale
    BY OlderType DEF Snap
  <1>3. \A s \in Snap \cup {NoSnap} :
            /\ older(s) \in Snap \cup {NoSnap}
            /\ s \in Snap => older(s) \in Snap
            /\ older(s) # NoSnap => /\ s # NoSnap /\ older(s).parity = s.parity
                                    /\ older(s).stale = s.stale
    BY <1>2
  <1>4. /\ snap' = older(snap)
        /\ op' = [p \in Procs |-> IF op[p] = NoOp THEN NoOp
                                  ELSE [op[p] EXCEPT !.new = older(op[p].new)]]
        /\ UNCHANGED <<blocked, pending, known, mutex, troubles, confirmed, missed>>
    BY DEF Time
  <1>5. waited' \in Ages /\ checkup' \in Ages \cup {Never}
    <2>1. 0 \in Ages
      BY LimitsAssumption DEF Ages
    <2>2. QED
      BY <1>1, <2>1, OlderType DEF Time, TypeOK
  <1> HIDE DEF older
  <1>6. ASSUME NEW q \in Procs
        PROVE  /\ op'[q] \in Op \cup {NoOp}
               /\ Working(q)' <=> Working(q)
               /\ Working(q) => /\ op'[q].step = op[q].step /\ op'[q].job = op[q].job
                                /\ op'[q].mine = op[q].mine /\ op'[q].new = older(op[q].new)
                                /\ op'[q].expects = op[q].expects
                                /\ op[q].new \in Snap \cup {NoSnap}
    <2>1. CASE op[q] = NoOp
      BY <1>4, <2>1 DEF Working
    <2>2. CASE op[q] # NoOp
      <3>1. op[q] \in Op
        BY <1>1, <2>2 DEF TypeOK
      <3>2. op[q].new \in Snap \cup {NoSnap}
        BY <3>1 DEF Op
      <3>3. older(op[q].new) \in Snap \cup {NoSnap}
        BY <1>3, <3>2
      <3> DEFINE y == [op[q] EXCEPT !.new = older(op[q].new)]
      <3>4. /\ y \in Op /\ y.step = op[q].step /\ y.job = op[q].job /\ y.mine = op[q].mine
            /\ y.new = older(op[q].new) /\ y.expects = op[q].expects
        BY <3>1, <3>3 DEF Op
      <3>5. op'[q] = y
        BY <1>4, <2>2
      <3> HIDE DEF y
      <3>6. QED
        BY <2>2, <3>2, <3>4, <3>5, NoOpAssumption DEF Working
    <2>3. QED
      BY <2>1, <2>2
  <1>7. op' \in [Procs -> Op \cup {NoOp}]
    BY <1>4, <1>6
  <1>8. snap \in Snap \cup {NoSnap}
    BY <1>1 DEF TypeOK
  <1>9. TypeOK'
    BY <1>1, <1>3, <1>4, <1>5, <1>7, <1>8 DEF TypeOK
  <1>10. LockIsHeld' /\ NoLostUpdate'
    BY <1>4, <1>6 DEF IInv, LockIsHeld, NoLostUpdate, At
  <1>11. WritesWhatItRead'
    <2>1. SUFFICES ASSUME NEW q \in Procs, Working(q)', op'[q].step \in InTheLock
                   PROVE  /\ op'[q].new \in Snap
                          /\ op'[q].step \in BeforeTheBoard => op'[q].new = snap'
      BY DEF WritesWhatItRead
    <2>2. /\ op[q].new \in Snap /\ op'[q].new = older(op[q].new)
          /\ op'[q].step \in BeforeTheBoard => op[q].new = snap
      BY <1>6, <2>1 DEF IInv, WritesWhatItRead
    <2>3. QED
      BY <1>3, <1>4, <2>2
  <1>12. ParityIsEarned'
    BY <1>3, <1>4, <1>8 DEF IInv, ParityIsEarned
  <1>13. ParityInHand'
    <2>1. SUFFICES ASSUME NEW q \in Procs, Working(q)'
                   PROVE  Seen(op[q])'
      BY DEF ParityInHand
    <2>2. Working(q) /\ Seen(op[q])
      BY <1>6, <2>1 DEF IInv, ParityInHand
    <2>3. op'[q].new # NoSnap => op[q].new # NoSnap /\ op'[q].new.parity = op[q].new.parity
      BY <1>3, <1>6, <2>2
    <2>4. QED
      BY <1>4, <1>6, <2>2, <2>3 DEF Seen
  <1>14. GateInStep'
    <2>1. OnTheWay' <=> OnTheWay
      BY <1>6 DEF OnTheWay
    <2>2. QED
      BY <1>3, <1>4, <1>8, <2>1 DEF IInv, GateInStep
  <1>15. QED
    BY <1>9, <1>10, <1>11, <1>12, <1>13, <1>14 DEF IInv

\* A restart forgets every process and the scheduler.
LEMMA RestartKeeps ==
  ASSUME IInv, Restart
  PROVE  IInv'
  <1>1. TypeOK
    BY DEF IInv
  <1>2. 0 \in Ages
    BY LimitsAssumption DEF Ages
  <1>3. \A p \in Procs : op'[p] = NoOp
    BY DEF Restart
  <1>4. missed' \in BOOLEAN /\ (~missed' => ~missed /\ ~OnTheWay)
    BY <1>1 DEF Restart, OnTheWay, TypeOK
  <1>5. TypeOK'
    <2>1. troubles' \in 0 .. MaxTroubles
      BY <1>1, BoundsAssumption DEF Restart, TypeOK
    <2>2. op' \in [Procs -> Op \cup {NoOp}]
      BY DEF Restart
    <2>3. UNCHANGED <<snap, blocked, confirmed>>
      BY DEF Restart
    <2>4. pending' = NoIntent /\ waited' = 0 /\ checkup' = Never /\ known' = FALSE /\ mutex' = NoProc
      BY DEF Restart
    <2>5. QED
      BY <1>1, <1>2, <1>4, <2>1, <2>2, <2>3, <2>4 DEF TypeOK
  <1>6. LockIsHeld' /\ NoLostUpdate' /\ WritesWhatItRead' /\ ParityInHand'
    BY <1>3 DEF LockIsHeld, NoLostUpdate, At, WritesWhatItRead, ParityInHand, Working
  <1>7. ParityIsEarned' /\ GateInStep'
    BY <1>4 DEF Restart, IInv, ParityIsEarned, GateInStep
  <1>8. QED
    BY <1>5, <1>6, <1>7 DEF IInv

-----------------------------------------------------------------------------
(***************************************************************************)
(* The theorems.                                                           *)
(***************************************************************************)
\* The invariant holds at the start.
LEMMA InitInv == Init => IInv
  <1> SUFFICES ASSUME Init PROVE IInv
    OBVIOUS
  <1>1. 0 \in Ages /\ MaxTroubles \in 0 .. MaxTroubles
    BY LimitsAssumption, BoundsAssumption DEF Ages
  <1>2. TypeOK
    BY <1>1 DEF Init, TypeOK
  <1>3. QED
    BY <1>2 DEF Init, IInv, LockIsHeld, NoLostUpdate, At, WritesWhatItRead, ParityIsEarned,
                ParityInHand, GateInStep, Working

\* Every step keeps it.
LEMMA NextInv == IInv /\ [Next]_vars => IInv'
  <1> SUFFICES ASSUME IInv, [Next]_vars PROVE IInv'
    OBVIOUS
  <1>1. ASSUME NEW p \in Requests, NEW kind \in Kinds, Request(p, kind)
        PROVE  IInv'
    BY <1>1, OutsideSteps DEF Procs
  <1>2. ASSUME NEW p \in Rounds, Round(p)
        PROVE  IInv'
    BY <1>2, OutsideSteps DEF Procs
  <1>3. ASSUME NEW p \in Procs, Enter(p) \/ Step(p) \/ Fault(p)
        PROVE  IInv'
    BY <1>3, EnterKeeps, OutsideSteps, PutKeeps, BumpBoardKeeps, ReadBoardKeeps, SetBoardKeeps,
       FaultKeeps DEF Step
  <1>4. CASE ForeignBump \/ Time \/ Restart
    BY <1>4, ForeignBumpKeeps, TimeKeeps, RestartKeeps
  <1>5. CASE UNCHANGED vars
    BY <1>5 DEF vars, sched, IInv, TypeOK, LockIsHeld, NoLostUpdate, At, WritesWhatItRead,
                ParityIsEarned, ParityInHand, Seen, GateInStep, OnTheWay, Working
  <1>6. QED
    BY <1>1, <1>2, <1>3, <1>4, <1>5 DEF Next

LEMMA Invariant == Spec => []IInv
  BY InitInv, NextInv, PTL DEF Spec

\* The snapshot, the board, the scheduler and every process keep the shape the
\* code gives them.
THEOREM AccountsTypeCorrect == Spec => []TypeOK
  BY Invariant, PTL DEF IInv

\* However publications, readbacks, freshness checks and closings overlap, what
\* is about to be written was made of the snapshot it replaces
\* (forceStaleUsableZero, syncAccounts).
THEOREM AccountsNoLostUpdate == Spec => []NoLostUpdate
  BY Invariant, PTL DEF IInv

\* A snapshot claims parity only after all surfaces have read back that
\* publication and no older one (recordAccountReadbacks, publishNow).
THEOREM AccountsParityIsEarned == Spec => []ParityIsEarned
  BY Invariant, PTL DEF IInv

\* Whenever nobody is inside the accounts' lock, dispatch is blocked exactly
\* if the snapshot is stale, unless a refused or failed setBoardState has left
\* the board behind (applyDispatchBlock).
THEOREM AccountsGateFollows == Spec => []GateFollowsSnapshot
  <1>1. IInv => GateFollowsSnapshot
    <2> SUFFICES ASSUME IInv, mutex = NoProc
                 PROVE  ~OnTheWay
      BY DEF IInv, GateInStep, GateFollowsSnapshot
    <2> QED
      BY ProcsAssumption DEF IInv, LockIsHeld, OnTheWay, InTheLock, BeforeTheBoard, Procs
  <1>2. QED
    BY Invariant, <1>1, PTL
=============================================================================
