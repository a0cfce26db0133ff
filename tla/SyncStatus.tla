----------------------------- MODULE SyncStatus -----------------------------
(***************************************************************************)
(* cp0-sync-status-publisher.ts with its MySQL adapter and its loop: one   *)
(* board, several servers that each publish its sync status.               *)
(*                                                                         *)
(* A tick takes the board's named lock without waiting, reads the pin,     *)
(* measures the backlog, reads the pin again, loads the row and writes it  *)
(* by compare-and-swap.  The lock lives on a connection of its own while   *)
(* all else goes through the pool: when that connection dies the tick goes *)
(* on without it.  The loop gives up on a tick that takes too long, which  *)
(* does not stop it either, and then starts the next one.                  *)
(*                                                                         *)
(* The pin is the board's revision and its canonical hash; the lifecycle   *)
(* revision moves with the former and is not told apart.  A bump takes the *)
(* revision forward.  An import stores a revision computed from an earlier *)
(* read, and so may take it back, even to a pin the board had before.      *)
(*                                                                         *)
(* Times are ages; `Skew` shifts a server's clock.  The row's revision     *)
(* never returns, so a tick keeps one bit of it: unchanged since it read.  *)
(***************************************************************************)
EXTENDS Integers

CONSTANTS
    Servers,
    Slots,          \* of each server: the tick of its loop and those it gave up on
    NoTick, NoSlot, NoRow,
    Imports,        \* replace_board_snapshot requests, each applied at most once
    Idle, Applied,  \* an import that has read nothing, and one that is through
    Skew,           \* server -> how far its clock is ahead
    Window,         \* the 120 seconds a published row counts as fresh
    MaxHash,        \* snapshots that exist
    MaxRev,         \* bound: the board's revision
    MaxTroubles     \* bound: failing statements, lost locks, runOnce calls, stops, restarts

ASSUME SkewAssumption == Skew \in [Servers -> Nat]
ASSUME LimitsAssumption == Window \in Nat /\ MaxHash \in Nat /\ MaxRev \in Nat /\ MaxTroubles \in Nat
ASSUME SlotsAssumption == NoSlot \notin Slots

Ticks == Servers \X Slots
NoHolder == <<NoSlot, NoSlot>>

VARIABLES
    pin,        \* board_revisions: the board's pin
    pending,    \* import -> the pin it is about to store, Idle or Applied
    row,        \* the row of control_plane_sync_status, or NoRow
    tick,       \* tick -> what it is doing, or NoTick
    lock,       \* the tick whose connection holds the named lock
    loop,       \* server -> its loop
    troubles,   \* how many of them are left
    severed     \* history: a tick went on without its lock

vars == <<pin, pending, row, tick, lock, loop, troubles, severed>>

\* hash: 0 while no snapshot was imported.
Revs == 0 .. MaxRev
Pins == [rev : Revs, hash : 0 .. MaxHash]
Unread == [rev |-> 0, hash |-> 0]
Cap == Window + 1
Skews == {Skew[s] : s \in Servers}
Ages == UNION {(-d) .. Cap : d \in Skews \cup {0}}

\* Mutant: ages are not capped.
OlderForEver(a) == a + 1
Older(a) == IF a > Window THEN a ELSE a + 1

\* History of a reading of the pin: whether some import took the revision back
\* between the tick's two reads, only since then, or not at all.
Backs == {"no", "between", "since"}

\* empty: the backlog was counted, and is empty.  ack: last_ack_revision, 0 for null
\* too.  under: history, the pin in force when the backlog was counted empty.
Row == [pin : Pins, empty : BOOLEAN, ack : Revs, age : Ages, under : Pins, back : Backs]

Steps == {"lock", "pin", "measure", "again", "load", "cas", "release"}

\* age: of the sample.  current: the row is still the one it loaded.
Tick == [step : Steps, pin : Pins, empty : BOOLEAN, ack : Revs, age : Ages,
         under : Pins, back : Backs, current : BOOLEAN]

\* timer: the next sweep is scheduled.  slot: the tick the sweep waits for.
Loop == [up : BOOLEAN, timer : BOOLEAN, slot : Slots \cup {NoSlot}]

Started == [step |-> "lock", pin |-> Unread, empty |-> FALSE, ack |-> 0, age |-> 0,
            under |-> Unread, back |-> "no", current |-> FALSE]

Init ==
    /\ pin \in {[rev |-> 0, hash |-> h] : h \in 0 .. MaxHash}
    /\ pending = [i \in Imports |-> Idle]
    /\ row = NoRow
    /\ tick = [t \in Ticks |-> NoTick]
    /\ lock = NoHolder
    /\ loop = [s \in Servers |-> [up |-> TRUE, timer |-> TRUE, slot |-> NoSlot]]
    /\ troubles = MaxTroubles
    /\ severed = FALSE

At(t, step) == tick[t] # NoTick /\ tick[t].step = step
Do(t, x) == tick' = [tick EXCEPT ![t] = x]
Goto(t, step) == Do(t, [tick[t] EXCEPT !.step = step])

\* A tick that has decided forgets what it measured.
Ending == [Started EXCEPT !.step = "release"]

(***************************************************************************)
(* The loop.                                                               *)
(***************************************************************************)
\* Mutant: a sweep that finished does not schedule the next.
StaysQuiet(l) == [l EXCEPT !.slot = NoSlot]

\* The end of a sweep: scheduleNext, unless the loop was stopped.
SweepDone(l) == [l EXCEPT !.slot = NoSlot, !.timer = l.up]

\* sweep: no two of a loop overlap.  timer: what it leaves of the next one.
Launch(s, timer) ==
    \E k \in Slots :
        /\ tick[<<s, k>>] = NoTick
        /\ Do(<<s, k>>, Started)
        /\ loop' = [loop EXCEPT ![s].slot = k, ![s].timer = timer]

\* The timer fires.  A sweep in progress makes it nothing; the next is scheduled
\* when that one is done.
TimerFires(s) ==
    /\ loop[s].up /\ loop[s].timer
    /\ IF loop[s].slot = NoSlot THEN Launch(s, FALSE)
       ELSE UNCHANGED tick /\ loop' = [loop EXCEPT ![s].timer = FALSE]
    /\ UNCHANGED <<pin, pending, row, lock, troubles, severed>>

\* runOnce, beside the timer.
RunOnce(s) ==
    /\ troubles > 0
    /\ loop[s].up /\ loop[s].slot = NoSlot
    /\ troubles' = troubles - 1
    /\ Launch(s, TRUE)
    /\ UNCHANGED <<pin, pending, row, lock, severed>>

\* withTimeout: the sweep ends, its tick does not.
GiveUp(s) ==
    /\ troubles > 0 /\ loop[s].slot # NoSlot
    /\ troubles' = troubles - 1
    /\ loop' = [loop EXCEPT ![s] = SweepDone(@)]
    /\ UNCHANGED <<pin, pending, row, tick, lock, severed>>

\* stopInternal: it waits for the sweep in progress, not for ever, and starts none.
Stop(s) ==
    /\ troubles > 0 /\ loop[s].up
    /\ troubles' = troubles - 1
    /\ loop' = [loop EXCEPT ![s].timer = FALSE, ![s].up = FALSE]
    /\ UNCHANGED <<pin, pending, row, tick, lock, severed>>

\* The process starts again: its ticks and its connections are gone.
Restart(s) ==
    /\ troubles > 0
    /\ troubles' = troubles - 1
    /\ loop' = [loop EXCEPT ![s] = [up |-> TRUE, timer |-> TRUE, slot |-> NoSlot]]
    /\ tick' = [t \in Ticks |-> IF t[1] = s THEN NoTick ELSE tick[t]]
    /\ lock' = IF lock[1] = s THEN NoHolder ELSE lock
    /\ UNCHANGED <<pin, pending, row, severed>>

(***************************************************************************)
(* A tick.                                                                 *)
(***************************************************************************)
\* GET_LOCK with timeout 0.
AcquireLock(t) ==
    /\ At(t, "lock")
    /\ IF lock = NoHolder
       THEN lock' = t /\ Goto(t, "pin")
       ELSE Do(t, Ending) /\ UNCHANGED lock
    /\ UNCHANGED <<pin, pending, row, loop, troubles, severed>>

ReadPin(t) ==
    /\ At(t, "pin")
    /\ Do(t, IF pin.hash = 0 THEN Ending ELSE [tick[t] EXCEPT !.step = "measure", !.pin = pin])
    /\ UNCHANGED <<pin, pending, row, lock, loop, troubles, severed>>

\* measuredAtMs is taken before the two counts, which are one statement; a
\* missing table or a failing statement leaves them unproven.
Measure(t) ==
    /\ At(t, "measure")
    /\ \E empty \in BOOLEAN :
          Do(t, [tick[t] EXCEPT !.step = "again", !.empty = empty, !.age = -Skew[t[1]],
                                !.under = IF empty THEN pin ELSE Unread])
    /\ UNCHANGED <<pin, pending, row, lock, loop, troubles, severed>>

\* Mutant: the pin is taken as it is after the measurement.
NotCompared(p, q) == TRUE

\* pinsEqual.
SamePin(p, q) == p = q

ReadPinAgain(t) ==
    /\ At(t, "again")
    /\ Do(t, IF SamePin(tick[t].pin, pin)
             THEN [tick[t] EXCEPT !.step = "load", !.pin = pin] ELSE Ending)
    /\ UNCHANGED <<pin, pending, row, lock, loop, troubles, severed>>

\* evaluateCasPreflight: a sample older than the row's is refused.
NotOlder(age) == row = NoRow \/ age <= row.age

\* Mutant: an unproven or filled backlog takes the acknowledgement back.
AckForgotten(x) == IF x.empty THEN x.pin.rev ELSE 0

\* buildPublishCandidate: only a proven empty backlog is acknowledged.
Acknowledged(x) ==
    IF x.empty THEN x.pin.rev ELSE IF row = NoRow THEN 0 ELSE row.ack

\* History: what is kept of the row was read when the row's pin was.
BackWith(x) ==
    IF x.back = "no" /\ ~x.empty /\ row # NoRow /\ row.back # "no" THEN "since" ELSE x.back

LoadRow(t) ==
    /\ At(t, "load")
    /\ Do(t, IF NotOlder(tick[t].age)
             THEN [tick[t] EXCEPT !.step = "cas", !.current = TRUE, !.ack = Acknowledged(tick[t]),
                                   !.back = BackWith(tick[t])]
             ELSE Ending)
    /\ UNCHANGED <<pin, pending, row, lock, loop, troubles, severed>>

\* INSERT, or UPDATE ... WHERE entity_rev = the one loaded.
Swaps(x) == x.current

CasPublish(t) ==
    /\ At(t, "cas")
    /\ LET x == tick[t] IN
       IF Swaps(x)
       THEN /\ row' = [pin |-> x.pin, empty |-> x.empty, ack |-> x.ack, age |-> x.age,
                       under |-> x.under, back |-> x.back]
            /\ tick' = [u \in Ticks |-> IF u = t THEN Ending
                                        ELSE IF tick[u] = NoTick THEN NoTick
                                        ELSE [tick[u] EXCEPT !.current = FALSE]]
       ELSE Do(t, Ending) /\ UNCHANGED row
    /\ UNCHANGED <<pin, pending, lock, loop, troubles, severed>>

\* The tick returns, and with it the sweep that still waits for it.
Release(t) ==
    /\ At(t, "release")
    /\ Do(t, NoTick)
    /\ lock' = IF lock = t THEN NoHolder ELSE lock
    /\ loop' = IF loop[t[1]].slot = t[2] THEN [loop EXCEPT ![t[1]] = SweepDone(@)] ELSE loop
    /\ UNCHANGED <<pin, pending, row, troubles, severed>>

TickStep(t) ==
    \/ AcquireLock(t) \/ ReadPin(t) \/ Measure(t) \/ ReadPinAgain(t)
    \/ LoadRow(t) \/ CasPublish(t) \/ Release(t)

(***************************************************************************)
(* The surroundings.                                                       *)
(***************************************************************************)
\* A statement of the tick throws; it may have written the row before.
Fault(t) ==
    /\ troubles > 0
    /\ tick[t] # NoTick /\ tick[t].step \in {"lock", "pin", "again", "load"}
    /\ troubles' = troubles - 1
    /\ Do(t, Ending)
    /\ UNCHANGED <<pin, pending, row, lock, loop, severed>>

\* The connection that holds the lock dies.
LockLost ==
    /\ troubles > 0 /\ lock # NoHolder
    /\ troubles' = troubles - 1
    /\ lock' = NoHolder
    /\ severed' = TRUE
    /\ UNCHANGED <<pin, pending, row, tick, loop>>

\* bumpBoardRev and bumpBoardAndLifecycleRev.
Bump ==
    /\ pin.rev < MaxRev
    /\ pin' = [pin EXCEPT !.rev = @ + 1]
    /\ UNCHANGED <<pending, row, tick, lock, loop, troubles, severed>>

\* applyImport: the revision it will store is computed from this read.
ImportRead(i, h) ==
    /\ pin.rev < MaxRev
    /\ pending[i] = Idle
    /\ pending' = [pending EXCEPT ![i] = [rev |-> pin.rev + 1, hash |-> h]]
    /\ UNCHANGED <<pin, row, tick, lock, loop, troubles, severed>>

\* History: an import took the revision back, or stored the one there was.
TickTakenBack(x) ==
    IF x.step \in {"measure", "again"} THEN [x EXCEPT !.back = "between"]
    ELSE IF x.step \in {"load", "cas"} /\ x.back = "no" THEN [x EXCEPT !.back = "since"]
    ELSE x
RowTakenBack(r) == IF r.back = "no" THEN [r EXCEPT !.back = "since"] ELSE r

\* applySnapshot: stored whatever the revision is by now.
ImportApply(i) ==
    /\ pending[i] \notin {Idle, Applied}
    /\ pin' = pending[i]
    /\ pending' = [pending EXCEPT ![i] = Applied]
    /\ IF pin'.rev <= pin.rev
       THEN /\ tick' = [t \in Ticks |-> IF tick[t] = NoTick THEN NoTick ELSE TickTakenBack(tick[t])]
            /\ row' = IF row = NoRow THEN NoRow ELSE RowTakenBack(row)
       ELSE UNCHANGED <<tick, row>>
    /\ UNCHANGED <<lock, loop, troubles, severed>>

Time ==
    /\ row' = IF row = NoRow THEN NoRow ELSE [row EXCEPT !.age = Older(@)]
    /\ tick' = [t \in Ticks |-> IF tick[t] = NoTick \/ tick[t].step \notin {"again", "load", "cas"}
                                THEN tick[t] ELSE [tick[t] EXCEPT !.age = Older(@)]]
    /\ UNCHANGED <<pin, pending, lock, loop, troubles, severed>>

Next ==
    \/ \E s \in Servers : TimerFires(s) \/ RunOnce(s) \/ GiveUp(s) \/ Stop(s) \/ Restart(s)
    \/ \E t \in Ticks : TickStep(t) \/ Fault(t)
    \/ LockLost \/ Bump \/ Time
    \/ \E i \in Imports, h \in 1 .. MaxHash : ImportRead(i, h)
    \/ \E i \in Imports : ImportApply(i)

\* Timers fire, statements return or fail, time passes.
Fairness ==
    /\ WF_vars(Time)
    /\ \A s \in Servers : WF_vars(TimerFires(s))
    /\ \A t \in Ticks : WF_vars(TickStep(t))

Spec == Init /\ [][Next]_vars
FairSpec == Spec /\ Fairness

(***************************************************************************)
(* What readers make of the row: buildCp0SyncStatusReadback.               *)
(***************************************************************************)
Parity(p) == row.pin = p

Fresh == row.age <= Window

\* zeroBacklogProven, for a reader that has read the pin p.
ZeroBacklogProven(p) == row # NoRow /\ Parity(p) /\ Fresh /\ row.empty

(***************************************************************************)
(* Properties.                                                             *)
(***************************************************************************)
\* The publishers' state has the shape the code gives it.
TypeOK ==
    /\ pin \in Pins /\ row \in Row \cup {NoRow}
    /\ pending \in [Imports -> [rev : Revs, hash : 1 .. MaxHash] \cup {Idle, Applied}]
    /\ tick \in [Ticks -> Tick \cup {NoTick}]
    /\ lock \in Ticks \cup {NoHolder}
    /\ loop \in [Servers -> Loop]
    /\ troubles \in 0 .. MaxTroubles /\ severed \in BOOLEAN

\* Whatever pin a reader has read: a green readback rests on an empty backlog
\* counted while that very pin was in force (header of
\* cp0-sync-status-publisher.ts, buildCp0SyncStatusReadback) -- unless an import
\* took the board's revision back between the publisher's two reads of the pin.
GreenIsProof ==
    \A p \in Pins : ZeroBacklogProven(p) /\ row.back # "between" => row.under = p

\* The same with imports in play.
GreenIsAlwaysProof == \A p \in Pins : ZeroBacklogProven(p) => row.under = p

\* As long as no tick outlives its lock, the published revision and the
\* acknowledged one go back only where an import took the board's revision back
\* after they were read.
RowGoesBack == row'.ack < row.ack \/ row'.pin.rev < row.pin.rev
AckNeverFalls ==
    [][row # NoRow /\ ~severed /\ RowGoesBack => row.back # "no"]_vars

\* The same with imports in play.
AckMonotonic == [][row # NoRow /\ ~severed => ~RowGoesBack]_vars

\* While some server's loop stays up and the board's pin has come to rest, the row
\* is written again and again, whatever ticks were given up on, whichever clock is
\* ahead (startCp0SyncStatusPublisherLoop).  A pin that moved within every tick
\* would prevent it for ever: such a tick publishes nothing.
RowIsRenewed ==
    (\E s \in Servers : <>[](loop[s].up)) /\ <>[](pin.hash > 0) /\ <>[][FALSE]_pin =>
        []<><<\E t \in Ticks : CasPublish(t) /\ tick[t].current>>_vars
=============================================================================
