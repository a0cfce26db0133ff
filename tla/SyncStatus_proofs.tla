-------------------------- MODULE SyncStatus_proofs --------------------------
(***************************************************************************)
(* The safety properties of SyncStatus for any servers, ticks, clock skews *)
(* and imports, whatever fails and however often.                          *)
(***************************************************************************)
EXTENDS SyncStatus, TLAPS

(***************************************************************************)
(* The inductive invariant.                                                *)
(***************************************************************************)
\* A tick that has asked for the lock and got it.
Inside(t) == tick[t] # NoTick /\ tick[t].step \in {"pin", "measure", "again", "load", "cas"}

\* A pin that was in force no later than another, as far as no import took the
\* revision back in between.
Before(p, q) == p = q \/ p.rev < q.rev

\* A count made between two equal reads was made under that pin, unless an import
\* took the revision back between them.
TickBracketed(x, p) ==
    x # NoTick /\ x.back # "between" =>
        /\ x.step \in {"measure", "again"} => Before(x.pin, p)
        /\ x.step = "again" /\ x.empty => Before(x.pin, x.under) /\ Before(x.under, p)
        /\ x.step \in {"load", "cas"} /\ x.empty => x.pin = x.under

RowBracketed(r) == r # NoRow /\ r.empty /\ r.back # "between" => r.pin = r.under

Bracketed == RowBracketed(row) /\ \A t \in Ticks : TickBracketed(tick[t], pin)

\* As long as no lock was lost, who is inside holds it.
Exclusive == ~severed => \A t \in Ticks : Inside(t) => lock = t

\* What no import took back is in order: the board's revision is ahead of the one
\* the tick has read, and that one ahead of the row's.
RowBehind(r, p) == r # NoRow /\ r.back = "no" => r.ack <= r.pin.rev /\ r.pin.rev <= p.rev

TickAhead(x, r, p) ==
    x # NoTick /\ x.step \in {"measure", "again", "load", "cas"} =>
        /\ x.back = "no" => x.pin.rev <= p.rev
        /\ r # NoRow /\ r.back = "no" => r.pin.rev <= x.pin.rev
        /\ x.step = "cas" => /\ x.back = "no" => x.ack <= x.pin.rev
                             /\ r # NoRow /\ r.back = "no" => r.ack <= x.ack

RowIsBehind ==
    ~severed => RowBehind(row, pin) /\ \A t \in Ticks : TickAhead(tick[t], row, pin)

IInv == TypeOK /\ Bracketed /\ Exclusive /\ RowIsBehind

(***************************************************************************)
(* Type correctness.                                                       *)
(***************************************************************************)
\* Ages start at a server's skew and grow up to a cap.
LEMMA AgesGrow ==
    /\ 0 \in Ages
    /\ \A s \in Servers : -Skew[s] \in Ages
    /\ \A a \in Ages : a \in Int /\ Older(a) \in Ages
<1>1. \A a : a \in Ages <=> \E d \in Skews \cup {0} : a \in (-d) .. Cap
  BY DEF Ages
<1>2. \A d \in Skews \cup {0} : d \in Nat
  BY SkewAssumption DEF Skews
<1>3. Window \in Nat /\ Cap = Window + 1
  BY LimitsAssumption DEF Cap
<1>4. 0 \in Ages
  <2>1. 0 \in (-0) .. Cap
    BY <1>3
  <2>2. QED
    BY <1>1, <2>1
<1>5. ASSUME NEW s \in Servers PROVE -Skew[s] \in Ages
  <2>1. Skew[s] \in Skews /\ Skew[s] \in Nat
    BY SkewAssumption DEF Skews
  <2>2. -Skew[s] \in (-Skew[s]) .. Cap
    BY <1>3, <2>1
  <2>3. QED
    BY <1>1, <2>1, <2>2
<1>6. ASSUME NEW a \in Ages PROVE a \in Int /\ Older(a) \in Ages
  <2>1. PICK d \in Skews \cup {0} : a \in (-d) .. Cap
    BY <1>1
  <2>2. d \in Nat
    BY <1>2
  <2>3. Older(a) \in (-d) .. Cap
    BY <1>3, <2>1, <2>2 DEF Older
  <2>4. QED
    BY <1>1, <2>1, <2>2, <2>3
<1>7. QED
  BY <1>4, <1>5, <1>6

LEMMA PinsHaveRevisions ==
    /\ Unread \in Pins
    /\ \A p \in Pins : p.rev \in Revs
    /\ 0 \in Revs /\ \A v \in Revs : v \in Nat
BY LimitsAssumption DEF Pins, Revs, Unread

LEMMA FreshTicks == Started \in Tick /\ Ending \in Tick /\ Started.step = "lock" /\ Ending.step = "release"
<1>1. Started \in Tick /\ Started.step = "lock"
  BY AgesGrow, PinsHaveRevisions DEF Started, Tick, Steps, Backs
<1>2. \A x \in Tick : [x EXCEPT !.step = "release"] \in Tick /\ [x EXCEPT !.step = "release"].step = "release"
  BY DEF Tick, Steps
<1>3. QED
  BY <1>1, <1>2 DEF Ending

LEMMA Swept == \A l \in Loop : SweepDone(l) \in Loop
BY DEF Loop, SweepDone

LEMMA InitType == Init => TypeOK
<1> SUFFICES ASSUME Init PROVE TypeOK
  OBVIOUS
<1>1. pin \in Pins /\ row \in Row \cup {NoRow}
  <2>1. PICK h \in 0 .. MaxHash : pin = [rev |-> 0, hash |-> h]
    BY DEF Init
  <2>2. [rev |-> 0, hash |-> h] \in Pins
    BY PinsHaveRevisions DEF Pins
  <2>3. QED
    BY <2>1, <2>2 DEF Init
<1>2. tick \in [Ticks -> Tick \cup {NoTick}]
  BY DEF Init
<1>3. loop \in [Servers -> Loop]
  BY DEF Init, Loop
<1>4. troubles \in 0 .. MaxTroubles
  BY LimitsAssumption DEF Init
<1>5. pending \in [Imports -> [rev : Revs, hash : 1 .. MaxHash] \cup {Idle, Applied}]
  BY DEF Init
<1>6. QED
  BY <1>1, <1>2, <1>3, <1>4, <1>5 DEF Init, TypeOK

LEMMA TickFields ==
    ASSUME TypeOK, NEW t \in Ticks, tick[t] # NoTick
    PROVE  /\ tick[t] \in Tick /\ tick[t].pin \in Pins /\ tick[t].under \in Pins
           /\ tick[t].ack \in Revs /\ tick[t].age \in Ages /\ tick[t].step \in Steps
           /\ tick[t].empty \in BOOLEAN /\ tick[t].back \in Backs
           /\ t[1] \in Servers /\ t[2] \in Slots /\ t # NoHolder
BY SlotsAssumption DEF TypeOK, Tick, Ticks, NoHolder

LEMMA RowFields ==
    ASSUME TypeOK, row # NoRow
    PROVE  /\ row \in Row /\ row.pin \in Pins /\ row.ack \in Revs /\ row.under \in Pins
           /\ row.age \in Ages /\ row.empty \in BOOLEAN /\ row.back \in Backs
BY DEF TypeOK, Row

\* What the steps of a tick make of it.
LEMMA TickSteps ==
    ASSUME TypeOK, NEW t \in Ticks
    PROVE  /\ AcquireLock(t) =>
                 \/ tick' = [tick EXCEPT ![t] = Ending] /\ UNCHANGED lock
                 \/ \E x \in Tick : /\ tick' = [tick EXCEPT ![t] = x]
                                    /\ x.step = "pin" /\ lock = NoHolder /\ lock' = t
           /\ ReadPin(t) => \/ tick' = [tick EXCEPT ![t] = Ending]
                            \/ \E x \in Tick : /\ tick' = [tick EXCEPT ![t] = x]
                                               /\ x.step = "measure" /\ x.pin = pin
           /\ Measure(t) => \E x \in Tick : /\ tick' = [tick EXCEPT ![t] = x]
                                            /\ x.step = "again" /\ x.pin = tick[t].pin
                                            /\ x.back = tick[t].back /\ (x.empty => x.under = pin)
           /\ ReadPinAgain(t) => \/ tick' = [tick EXCEPT ![t] = Ending]
                                 \/ \E x \in Tick : /\ tick' = [tick EXCEPT ![t] = x]
                                                    /\ x.step = "load" /\ x.pin = pin /\ pin = tick[t].pin
                                                    /\ x.under = tick[t].under /\ x.empty = tick[t].empty
                                                    /\ x.back = tick[t].back
           /\ LoadRow(t) => \/ tick' = [tick EXCEPT ![t] = Ending]
                            \/ \E x \in Tick : /\ tick' = [tick EXCEPT ![t] = x]
                                               /\ x.step = "cas" /\ x.pin = tick[t].pin
                                               /\ x.under = tick[t].under /\ x.empty = tick[t].empty
                                               /\ x.ack = Acknowledged(tick[t])
                                               /\ x.back = BackWith(tick[t])
<1> USE FreshTicks, AgesGrow, PinsHaveRevisions
<1>1. ASSUME AcquireLock(t)
      PROVE  \/ tick' = [tick EXCEPT ![t] = Ending] /\ UNCHANGED lock
             \/ \E x \in Tick : /\ tick' = [tick EXCEPT ![t] = x]
                                /\ x.step = "pin" /\ lock = NoHolder /\ lock' = t
  <2> DEFINE y == [tick[t] EXCEPT !.step = "pin"]
  <2>1. tick[t] \in Tick
    BY <1>1, TickFields DEF AcquireLock, At
  <2>2. y \in Tick /\ y.step = "pin"
    BY <2>1 DEF Tick, Steps
  <2>3. \/ tick' = [tick EXCEPT ![t] = Ending] /\ UNCHANGED lock
        \/ tick' = [tick EXCEPT ![t] = y] /\ lock = NoHolder /\ lock' = t
    BY <1>1 DEF AcquireLock, Goto, Do
  <2> HIDE DEF y
  <2>4. QED
    BY <2>2, <2>3
<1>2. ASSUME ReadPin(t), tick' # [tick EXCEPT ![t] = Ending]
      PROVE  \E x \in Tick : tick' = [tick EXCEPT ![t] = x] /\ x.step = "measure" /\ x.pin = pin
  <2> DEFINE y == [tick[t] EXCEPT !.step = "measure", !.pin = pin]
  <2>1. tick[t] \in Tick /\ pin \in Pins
    BY <1>2, TickFields DEF ReadPin, At, TypeOK
  <2>2. tick' = [tick EXCEPT ![t] = y]
    BY <1>2 DEF ReadPin, Do
  <2>3. y \in Tick /\ y.step = "measure" /\ y.pin = pin
    BY <2>1 DEF Tick, Steps
  <2> HIDE DEF y
  <2>4. QED
    BY <2>2, <2>3
<1>3. ASSUME Measure(t)
      PROVE  \E x \in Tick : /\ tick' = [tick EXCEPT ![t] = x]
                             /\ x.step = "again" /\ x.pin = tick[t].pin
                             /\ x.back = tick[t].back /\ (x.empty => x.under = pin)
  <2>1. tick[t] \in Tick /\ pin \in Pins /\ t[1] \in Servers
    BY <1>3, TickFields DEF Measure, At, TypeOK
  <2>2. PICK empty \in BOOLEAN :
          tick' = [tick EXCEPT ![t] = [tick[t] EXCEPT !.step = "again", !.empty = empty,
                                                      !.age = -Skew[t[1]],
                                                      !.under = IF empty THEN pin ELSE Unread]]
    BY <1>3 DEF Measure, Do
  <2> DEFINE p == IF empty THEN pin ELSE Unread
             y == [tick[t] EXCEPT !.step = "again", !.empty = empty, !.age = -Skew[t[1]], !.under = p]
  <2>3. p \in Pins /\ (empty => p = pin) /\ -Skew[t[1]] \in Ages
    BY <2>1
  <2>4. tick' = [tick EXCEPT ![t] = y]
    BY <2>2
  <2> HIDE DEF p
  <2>5. /\ y \in Tick /\ y.step = "again" /\ y.pin = tick[t].pin /\ y.back = tick[t].back
        /\ y.empty = empty /\ y.under = p
    BY <2>1, <2>3 DEF Tick, Steps
  <2> HIDE DEF y
  <2>6. QED
    BY <2>3, <2>4, <2>5
<1>4. ASSUME ReadPinAgain(t), tick' # [tick EXCEPT ![t] = Ending]
      PROVE  \E x \in Tick : /\ tick' = [tick EXCEPT ![t] = x]
                             /\ x.step = "load" /\ x.pin = pin /\ pin = tick[t].pin
                             /\ x.under = tick[t].under /\ x.empty = tick[t].empty
                             /\ x.back = tick[t].back
  <2> DEFINE y == [tick[t] EXCEPT !.step = "load", !.pin = pin]
  <2>1. tick[t] \in Tick /\ pin \in Pins
    BY <1>4, TickFields DEF ReadPinAgain, At, TypeOK
  <2>2. tick' = [tick EXCEPT ![t] = y] /\ tick[t].pin = pin
    BY <1>4 DEF ReadPinAgain, Do, SamePin
  <2>3. /\ y \in Tick /\ y.step = "load" /\ y.pin = pin /\ y.under = tick[t].under
        /\ y.empty = tick[t].empty /\ y.back = tick[t].back
    BY <2>1 DEF Tick, Steps
  <2> HIDE DEF y
  <2>4. QED
    BY <2>2, <2>3
<1>5. ASSUME LoadRow(t), tick' # [tick EXCEPT ![t] = Ending]
      PROVE  \E x \in Tick : /\ tick' = [tick EXCEPT ![t] = x]
                             /\ x.step = "cas" /\ x.pin = tick[t].pin
                             /\ x.under = tick[t].under /\ x.empty = tick[t].empty
                             /\ x.ack = Acknowledged(tick[t]) /\ x.back = BackWith(tick[t])
  <2>1. tick[t] \in Tick
    BY <1>5, TickFields DEF LoadRow, At
  <2>2. tick' = [tick EXCEPT ![t] = [tick[t] EXCEPT !.step = "cas", !.current = TRUE,
                                                    !.ack = Acknowledged(tick[t]),
                                                    !.back = BackWith(tick[t])]]
    BY <1>5 DEF LoadRow, Do
  <2>3. tick[t].pin.rev \in Revs /\ tick[t].back \in Backs
    BY <2>1 DEF Tick
  <2>4. Acknowledged(tick[t]) \in Revs /\ BackWith(tick[t]) \in Backs
    BY <2>3, RowFields DEF Acknowledged, BackWith, Backs
  <2> DEFINE a == Acknowledged(tick[t])
             b == BackWith(tick[t])
             y == [tick[t] EXCEPT !.step = "cas", !.current = TRUE, !.ack = a, !.back = b]
  <2>5. tick' = [tick EXCEPT ![t] = y] /\ a \in Revs /\ b \in Backs
    BY <2>2, <2>4
  <2>6. a = Acknowledged(tick[t]) /\ b = BackWith(tick[t])
    OBVIOUS
  <2> HIDE DEF a, b
  <2>7. /\ y \in Tick /\ y.step = "cas" /\ y.pin = tick[t].pin /\ y.under = tick[t].under
        /\ y.empty = tick[t].empty /\ y.ack = a /\ y.back = b
    BY <2>1, <2>5 DEF Tick, Steps
  <2> HIDE DEF y
  <2>8. QED
    BY <2>5, <2>6, <2>7
<1>6. QED
  BY <1>1, <1>2, <1>3, <1>4, <1>5

\* What is left of a tick that has decided.
LEMMA RowWritten ==
    ASSUME TypeOK, NEW t \in Ticks, CasPublish(t)
    PROVE  \/ tick' = [tick EXCEPT ![t] = Ending] /\ row' = row
           \/ /\ tick[t].current
              /\ row' \in Row /\ row'.pin = tick[t].pin /\ row'.under = tick[t].under
              /\ row'.ack = tick[t].ack /\ row'.empty = tick[t].empty /\ row'.back = tick[t].back
              /\ tick' = [u \in Ticks |-> IF u = t THEN Ending
                                          ELSE IF tick[u] = NoTick THEN NoTick
                                          ELSE [tick[u] EXCEPT !.current = FALSE]]
<1>1. tick[t] \in Tick
  BY TickFields DEF CasPublish, At
<1>2. CASE tick[t].current
  <2> DEFINE y == [pin |-> tick[t].pin, empty |-> tick[t].empty, ack |-> tick[t].ack,
                   age |-> tick[t].age, under |-> tick[t].under, back |-> tick[t].back]
  <2>1. row' = y
    BY <1>2 DEF CasPublish, Swaps
  <2>2. /\ y \in Row /\ y.pin = tick[t].pin /\ y.under = tick[t].under /\ y.ack = tick[t].ack
        /\ y.empty = tick[t].empty /\ y.back = tick[t].back
    BY <1>1 DEF Tick, Row
  <2>3. tick' = [u \in Ticks |-> IF u = t THEN Ending
                                 ELSE IF tick[u] = NoTick THEN NoTick
                                 ELSE [tick[u] EXCEPT !.current = FALSE]]
    BY <1>2 DEF CasPublish, Swaps
  <2> HIDE DEF y
  <2>4. QED
    BY <1>2, <2>1, <2>2, <2>3
<1>3. CASE ~tick[t].current
  BY <1>3 DEF CasPublish, Swaps, Do
<1>4. QED
  BY <1>2, <1>3

\* Two states of a tick that differ in the age of the sample, or in whether the row
\* it loaded is still there.
SameWork(x, y) ==
    /\ x # NoTick
    /\ y.step = x.step /\ y.pin = x.pin /\ y.under = x.under /\ y.ack = x.ack
    /\ y.empty = x.empty /\ y.back = x.back

\* A tick keeps what it has measured when the row under it changes or time
\* passes.
LEMMA TickKeeps ==
    ASSUME TypeOK, NEW u \in Ticks, tick[u] # NoTick, NEW y,
           y \in {[tick[u] EXCEPT !.current = FALSE], [tick[u] EXCEPT !.age = Older(@)]}
    PROVE  y \in Tick /\ SameWork(tick[u], y)
<1>1. ASSUME NEW x \in Tick
      PROVE  /\ [x EXCEPT !.current = FALSE] \in Tick
             /\ [x EXCEPT !.current = FALSE].step = x.step
             /\ [x EXCEPT !.current = FALSE].pin = x.pin
             /\ [x EXCEPT !.current = FALSE].under = x.under
             /\ [x EXCEPT !.current = FALSE].ack = x.ack
             /\ [x EXCEPT !.current = FALSE].empty = x.empty
             /\ [x EXCEPT !.current = FALSE].back = x.back
  BY DEF Tick
<1>2. ASSUME NEW x \in Tick
      PROVE  /\ [x EXCEPT !.age = Older(@)] \in Tick
             /\ [x EXCEPT !.age = Older(@)].step = x.step
             /\ [x EXCEPT !.age = Older(@)].pin = x.pin
             /\ [x EXCEPT !.age = Older(@)].under = x.under
             /\ [x EXCEPT !.age = Older(@)].ack = x.ack
             /\ [x EXCEPT !.age = Older(@)].empty = x.empty
             /\ [x EXCEPT !.age = Older(@)].back = x.back
  <2>1. Older(x.age) \in Ages
    BY AgesGrow DEF Tick
  <2>2. QED
    BY <2>1 DEF Tick
<1>3. tick[u] \in Tick
  BY TickFields
<1>4. CASE y = [tick[u] EXCEPT !.current = FALSE]
  BY <1>1, <1>3, <1>4 DEF SameWork
<1>5. CASE y = [tick[u] EXCEPT !.age = Older(@)]
  BY <1>2, <1>3, <1>5 DEF SameWork
<1>6. QED
  BY <1>4, <1>5

\* In a step of the loops, of time or of the board, ticks keep what they have
\* measured, start anew, end or vanish.
Kept(u) ==
    \/ tick'[u] = tick[u]
    \/ tick'[u] \in {NoTick, Started, Ending}
    \/ SameWork(tick[u], tick'[u])

\* And the row keeps what was published.
SameRow ==
    /\ row' # NoRow => row # NoRow
    /\ row # NoRow => /\ row'.pin = row.pin /\ row'.under = row.under /\ row'.ack = row.ack
                      /\ row'.empty = row.empty /\ row'.back = row.back

LEMMA Aged ==
    ASSUME TypeOK, Time
    PROVE  /\ tick' \in [Ticks -> Tick \cup {NoTick}]
           /\ row' \in Row \cup {NoRow}
           /\ SameRow /\ \A u \in Ticks : Kept(u)
<1>1. ASSUME row # NoRow PROVE row' \in Row /\ SameRow
  <2>1. row \in Row /\ Older(row.age) \in Ages
    BY <1>1, RowFields, AgesGrow
  <2>2. row' = [row EXCEPT !.age = Older(@)]
    BY <1>1 DEF Time
  <2>3. QED
    BY <1>1, <2>1, <2>2 DEF Row, SameRow
<1>2. row = NoRow => row' = NoRow
  BY DEF Time
<1>3. ASSUME NEW u \in Ticks
      PROVE  tick'[u] \in Tick \cup {NoTick} /\ Kept(u)
  <2>1. CASE tick'[u] = tick[u]
    BY <2>1 DEF Kept, TypeOK
  <2>2. CASE tick[u] # NoTick /\ tick'[u] = [tick[u] EXCEPT !.age = Older(@)]
    BY <2>2, TickKeeps DEF Kept
  <2>3. QED
    BY <2>1, <2>2 DEF Time
<1>4. tick' \in [Ticks -> Tick \cup {NoTick}]
  <2>1. tick' = [u \in Ticks |-> tick'[u]]
    BY DEF Time
  <2>2. QED
    BY <1>3, <2>1
<1>5. QED
  BY <1>1, <1>2, <1>3, <1>4 DEF SameRow

\* A step that is not one of the tick's own five statements before the write, nor
\* the write, nor an import that takes the revision back: ticks are kept.
Around ==
    \/ \E s \in Servers : TimerFires(s) \/ RunOnce(s) \/ GiveUp(s) \/ Stop(s) \/ Restart(s)
    \/ \E t \in Ticks : Release(t) \/ Fault(t)
    \/ \E i \in Imports, h \in 1 .. MaxHash : ImportRead(i, h)
    \/ \E i \in Imports : ImportApply(i) /\ pin'.rev > pin.rev
    \/ LockLost \/ Bump \/ Time \/ UNCHANGED vars

LEMMA Launched ==
    ASSUME TypeOK, NEW s \in Servers, NEW timer \in BOOLEAN, Launch(s, timer)
    PROVE  /\ loop' \in [Servers -> Loop] /\ tick' \in [Ticks -> Tick \cup {NoTick}]
           /\ \A u \in Ticks : Kept(u)
<1>1. PICK k \in Slots : /\ Do(<<s, k>>, Started)
                         /\ loop' = [loop EXCEPT ![s].slot = k, ![s].timer = timer]
  BY DEF Launch
<1>2. loop[s] \in Loop
  BY DEF TypeOK
<1>3. [loop[s] EXCEPT !.slot = k, !.timer = timer] \in Loop
  BY <1>2 DEF Loop
<1>4. loop' \in [Servers -> Loop]
  BY <1>1, <1>3 DEF TypeOK
<1>5. QED
  BY <1>1, <1>4, FreshTicks DEF TypeOK, Do, Kept, Ticks

\* What an import stores is a pin.
LEMMA ImportedPin ==
    ASSUME TypeOK, NEW i \in Imports, ImportApply(i)
    PROVE  /\ pin' \in Pins
           /\ pending' \in [Imports -> [rev : Revs, hash : 1 .. MaxHash] \cup {Idle, Applied}]
<1>1. pending[i] \in [rev : Revs, hash : 1 .. MaxHash]
  BY DEF TypeOK, ImportApply
<1>2. \A p \in [rev : Revs, hash : 1 .. MaxHash] : p \in Pins
  BY LimitsAssumption DEF Pins
<1>3. QED
  BY <1>1, <1>2 DEF ImportApply, TypeOK

LEMMA AroundType ==
    ASSUME TypeOK, Around
    PROVE  TypeOK' /\ \A u \in Ticks : Kept(u)
<1> USE FreshTicks
<1>1. ASSUME NEW s \in Servers, TimerFires(s) \/ RunOnce(s)
      PROVE  TypeOK' /\ \A u \in Ticks : Kept(u)
  <2>0. loop[s] \in Loop
    BY DEF TypeOK
  <2>1. CASE Launch(s, FALSE) \/ Launch(s, TRUE)
    <3>1. troubles' \in 0 .. MaxTroubles
      <4>1. CASE TimerFires(s)
        BY <4>1 DEF TimerFires, TypeOK
      <4>2. CASE RunOnce(s)
        <5>1. troubles > 0 /\ troubles' = troubles - 1
          BY <4>2 DEF RunOnce
        <5>2. QED
          BY <5>1, LimitsAssumption DEF TypeOK
      <4>3. QED
        BY <1>1, <4>1, <4>2
    <3>2. UNCHANGED <<pin, pending, row, lock, severed>>
      BY <1>1 DEF TimerFires, RunOnce
    <3>3. /\ loop' \in [Servers -> Loop] /\ tick' \in [Ticks -> Tick \cup {NoTick}]
          /\ \A u \in Ticks : Kept(u)
      BY <2>1, Launched
    <3>4. QED
      BY <3>1, <3>2, <3>3 DEF TypeOK
  <2>2. CASE tick' = tick /\ loop' = [loop EXCEPT ![s].timer = FALSE] /\ TimerFires(s)
    <3>1. [loop[s] EXCEPT !.timer = FALSE] \in Loop
      BY <2>0 DEF Loop
    <3>2. loop' \in [Servers -> Loop]
      BY <2>2, <3>1 DEF TypeOK
    <3>3. QED
      BY <2>2, <3>2 DEF TimerFires, TypeOK, Kept
  <2>3. QED
    BY <1>1, <2>1, <2>2 DEF TimerFires, RunOnce
<1>2. ASSUME NEW s \in Servers, GiveUp(s) \/ Stop(s) \/ Restart(s)
      PROVE  TypeOK' /\ \A u \in Ticks : Kept(u)
  <2>0. loop[s] \in Loop
    BY DEF TypeOK
  <2>1. troubles' \in 0 .. MaxTroubles
    BY <1>2, LimitsAssumption DEF TypeOK, GiveUp, Stop, Restart
  <2>2. CASE GiveUp(s)
    <3>1. loop' \in [Servers -> Loop]
      BY <2>2, Swept DEF TypeOK, GiveUp
    <3>2. QED
      BY <2>1, <2>2, <3>1 DEF GiveUp, TypeOK, Kept
  <2>3. CASE Stop(s)
    <3>1. [loop[s] EXCEPT !.timer = FALSE, !.up = FALSE] \in Loop
      BY <2>0 DEF Loop
    <3>2. loop' \in [Servers -> Loop]
      BY <2>3, <3>1 DEF TypeOK, Stop
    <3>3. QED
      BY <2>1, <2>3, <3>2 DEF Stop, TypeOK, Kept
  <2>4. CASE Restart(s)
    <3>1. loop' \in [Servers -> Loop]
      BY <2>4 DEF TypeOK, Restart, Loop
    <3>2. tick' \in [Ticks -> Tick \cup {NoTick}] /\ \A u \in Ticks : Kept(u)
      BY <2>4 DEF TypeOK, Restart, Kept
    <3>3. QED
      BY <2>1, <2>4, <3>1, <3>2 DEF Restart, TypeOK
  <2>5. QED
    BY <1>2, <2>2, <2>3, <2>4
<1>3. ASSUME NEW t \in Ticks, Release(t)
      PROVE  TypeOK' /\ \A u \in Ticks : Kept(u)
  <2>1. t[1] \in Servers
    BY DEF Ticks
  <2>2. loop' \in [Servers -> Loop]
    BY <1>3, <2>1, Swept DEF Release, TypeOK
  <2>3. QED
    BY <1>3, <2>2 DEF Release, Do, TypeOK, Kept
<1>4. ASSUME NEW t \in Ticks, Fault(t)
      PROVE  TypeOK' /\ \A u \in Ticks : Kept(u)
  <2>1. troubles' \in 0 .. MaxTroubles
    BY <1>4, LimitsAssumption DEF TypeOK, Fault
  <2>2. QED
    BY <1>4, <2>1 DEF Fault, Do, TypeOK, Kept
<1>5. ASSUME LockLost \/ UNCHANGED vars
      PROVE  TypeOK' /\ \A u \in Ticks : Kept(u)
  <2>1. troubles' \in 0 .. MaxTroubles
    BY <1>5, LimitsAssumption DEF TypeOK, LockLost, vars
  <2>2. QED
    BY <1>5, <2>1 DEF LockLost, vars, TypeOK, Kept
<1>6. ASSUME Bump
      PROVE  TypeOK' /\ \A u \in Ticks : Kept(u)
  <2>1. pin \in Pins /\ pin.rev < MaxRev /\ pin' = [pin EXCEPT !.rev = @ + 1]
    BY <1>6 DEF Bump, TypeOK
  <2>2. pin' \in Pins
    BY <2>1, LimitsAssumption DEF Pins, Revs
  <2>3. QED
    BY <1>6, <2>2 DEF Bump, TypeOK, Kept
<1>7. ASSUME NEW i \in Imports, NEW h \in 1 .. MaxHash, ImportRead(i, h)
      PROVE  TypeOK' /\ \A u \in Ticks : Kept(u)
  <2>1. pin.rev + 1 \in Revs
    BY <1>7, PinsHaveRevisions, LimitsAssumption DEF ImportRead, TypeOK, Revs
  <2>2. [rev |-> pin.rev + 1, hash |-> h] \in [rev : Revs, hash : 1 .. MaxHash]
    BY <2>1
  <2>3. pending' \in [Imports -> [rev : Revs, hash : 1 .. MaxHash] \cup {Idle, Applied}]
    BY <1>7, <2>2 DEF ImportRead, TypeOK
  <2>4. QED
    BY <1>7, <2>3 DEF ImportRead, TypeOK, Kept
<1>8. ASSUME NEW i \in Imports, ImportApply(i), pin'.rev > pin.rev
      PROVE  TypeOK' /\ \A u \in Ticks : Kept(u)
  <2>1. UNCHANGED <<tick, row>>
    BY <1>8, ImportedPin, PinsHaveRevisions DEF ImportApply, TypeOK
  <2>2. QED
    BY <1>8, <2>1, ImportedPin DEF ImportApply, TypeOK, Kept
<1>9. ASSUME Time
      PROVE  TypeOK' /\ \A u \in Ticks : Kept(u)
  <2>1. UNCHANGED <<pin, pending, lock, loop, troubles, severed>>
    BY <1>9 DEF Time
  <2>2. QED
    BY <1>9, <2>1, Aged DEF TypeOK
<1>10. QED
  BY <1>1, <1>2, <1>3, <1>4, <1>5, <1>6, <1>7, <1>8, <1>9 DEF Around

\* The steps of a tick up to its write.
Stepping(t) == AcquireLock(t) \/ ReadPin(t) \/ Measure(t) \/ ReadPinAgain(t) \/ LoadRow(t)

LEMMA SteppingType ==
    ASSUME TypeOK, NEW t \in Ticks, Stepping(t)
    PROVE  TypeOK' /\ \E x \in Tick : tick' = [tick EXCEPT ![t] = x]
<1>1. \E x \in Tick : tick' = [tick EXCEPT ![t] = x]
  BY TickSteps, FreshTicks DEF Stepping
<1>2. tick' \in [Ticks -> Tick \cup {NoTick}]
  BY <1>1 DEF TypeOK
<1>3. UNCHANGED <<pin, pending, row, loop, severed>>
  BY DEF Stepping, AcquireLock, ReadPin, Measure, ReadPinAgain, LoadRow
<1>4. lock' \in Ticks \cup {NoHolder}
  BY DEF Stepping, AcquireLock, ReadPin, Measure, ReadPinAgain, LoadRow, TypeOK
<1>5. troubles' \in 0 .. MaxTroubles
  BY LimitsAssumption DEF Stepping, AcquireLock, ReadPin, Measure, ReadPinAgain, LoadRow, TypeOK
<1>6. QED
  BY <1>1, <1>2, <1>3, <1>4, <1>5 DEF TypeOK

LEMMA WritingType ==
    ASSUME TypeOK, NEW t \in Ticks, CasPublish(t)
    PROVE  TypeOK'
<1>1. row' \in Row \cup {NoRow}
  BY RowWritten DEF TypeOK
<1>2. tick' \in [Ticks -> Tick \cup {NoTick}]
  <2>1. CASE tick' = [tick EXCEPT ![t] = Ending]
    BY <2>1, FreshTicks DEF TypeOK
  <2>2. CASE tick' = [u \in Ticks |-> IF u = t THEN Ending
                                     ELSE IF tick[u] = NoTick THEN NoTick
                                     ELSE [tick[u] EXCEPT !.current = FALSE]]
    <3>1. ASSUME NEW u \in Ticks, tick[u] # NoTick
          PROVE  [tick[u] EXCEPT !.current = FALSE] \in Tick
      BY <3>1, TickKeeps
    <3>2. QED
      BY <2>2, <3>1, FreshTicks
  <2>3. QED
    BY <2>1, <2>2, RowWritten
<1>3. UNCHANGED <<pin, pending, lock, loop, troubles, severed>>
  BY DEF CasPublish
<1>4. QED
  BY <1>1, <1>2, <1>3 DEF TypeOK

\* An import that takes the revision back marks the readings that rest on it.
TakingBack == \E i \in Imports : ImportApply(i) /\ pin'.rev <= pin.rev

MarkedTick(x, y) ==
    /\ y.step = x.step /\ y.pin = x.pin /\ y.under = x.under /\ y.empty = x.empty
    /\ x.step \in {"measure", "again"} => y.back = "between"
    /\ x.step \in {"load", "cas"} => y.back # "no"
    /\ x.step \in {"load", "cas"} /\ x.back = "between" => y.back = "between"

MarkedRow(r, q) ==
    /\ q.pin = r.pin /\ q.under = r.under /\ q.ack = r.ack /\ q.empty = r.empty
    /\ q.back # "no"
    /\ r.back = "between" => q.back = "between"

LEMMA Marked ==
    ASSUME TypeOK, TakingBack
    PROVE  /\ TypeOK'
           /\ \A u \in Ticks : tick[u] = NoTick => tick'[u] = NoTick
           /\ \A u \in Ticks : tick[u] # NoTick => MarkedTick(tick[u], tick'[u])
           /\ row = NoRow => row' = NoRow
           /\ row # NoRow => MarkedRow(row, row')
           /\ UNCHANGED <<lock, severed>>
<1>1. PICK i \in Imports : ImportApply(i) /\ pin'.rev <= pin.rev
  BY DEF TakingBack
<1>2. /\ tick' = [t \in Ticks |-> IF tick[t] = NoTick THEN NoTick ELSE TickTakenBack(tick[t])]
      /\ row' = IF row = NoRow THEN NoRow ELSE RowTakenBack(row)
      /\ UNCHANGED <<lock, loop, troubles, severed>>
  BY <1>1 DEF ImportApply
<1>3. pin' \in Pins /\ pending' \in [Imports -> [rev : Revs, hash : 1 .. MaxHash] \cup {Idle, Applied}]
  BY <1>1, ImportedPin
<1>4. ASSUME NEW x \in Tick
      PROVE  TickTakenBack(x) \in Tick /\ MarkedTick(x, TickTakenBack(x))
  <2>1. /\ [x EXCEPT !.back = "between"] \in Tick
        /\ [x EXCEPT !.back = "since"] \in Tick
    BY DEF Tick, Backs
  <2>2. CASE x.step \in {"measure", "again"}
    <3>1. TickTakenBack(x) = [x EXCEPT !.back = "between"]
      BY <2>2 DEF TickTakenBack
    <3>2. QED
      BY <2>1, <2>2, <3>1 DEF Tick, MarkedTick
  <2>3. CASE x.step \in {"load", "cas"} /\ x.back = "no"
    <3>1. TickTakenBack(x) = [x EXCEPT !.back = "since"]
      BY <2>3 DEF TickTakenBack
    <3>2. QED
      BY <2>1, <2>3, <3>1 DEF Tick, MarkedTick
  <2>4. CASE x.step \notin {"measure", "again"} /\ ~(x.step \in {"load", "cas"} /\ x.back = "no")
    <3>1. TickTakenBack(x) = x
      BY <2>4 DEF TickTakenBack
    <3>2. QED
      BY <2>4, <3>1 DEF MarkedTick
  <2>5. QED
    BY <2>2, <2>3, <2>4
<1>5. ASSUME NEW r \in Row
      PROVE  RowTakenBack(r) \in Row /\ MarkedRow(r, RowTakenBack(r))
  <2>1. [r EXCEPT !.back = "since"] \in Row
    BY DEF Row, Backs
  <2>2. CASE r.back = "no"
    <3>1. RowTakenBack(r) = [r EXCEPT !.back = "since"]
      BY <2>2 DEF RowTakenBack
    <3>2. QED
      BY <2>1, <2>2, <3>1 DEF Row, MarkedRow
  <2>3. CASE r.back # "no"
    <3>1. RowTakenBack(r) = r
      BY <2>3 DEF RowTakenBack
    <3>2. QED
      BY <2>3, <3>1 DEF MarkedRow
  <2>4. QED
    BY <2>2, <2>3
<1>6. ASSUME NEW u \in Ticks, tick[u] # NoTick
      PROVE  tick[u] \in Tick /\ tick'[u] = TickTakenBack(tick[u])
  BY <1>2, <1>6, TickFields
<1>7. row # NoRow => row \in Row /\ row' = RowTakenBack(row)
  BY <1>2, RowFields
<1>8. tick' \in [Ticks -> Tick \cup {NoTick}]
  BY <1>2, <1>4, <1>6
<1>9. row' \in Row \cup {NoRow}
  BY <1>2, <1>5, <1>7
<1>10. TypeOK'
  BY <1>2, <1>3, <1>8, <1>9 DEF TypeOK
<1>11. QED
  BY <1>2, <1>4, <1>5, <1>6, <1>7, <1>10

\* Every step is one of these.
LEMMA Steppings ==
    ASSUME TypeOK, [Next]_vars
    PROVE  Around \/ TakingBack \/ \E t \in Ticks : Stepping(t) \/ CasPublish(t)
<1>1. ASSUME NEW i \in Imports, ImportApply(i) PROVE Around \/ TakingBack
  BY <1>1, ImportedPin, PinsHaveRevisions DEF Around, TakingBack, TypeOK
<1>2. QED
  BY <1>1 DEF Next, TickStep, Around, Stepping

LEMMA NextType == TypeOK /\ [Next]_vars => TypeOK'
BY Steppings, AroundType, SteppingType, WritingType, Marked

(***************************************************************************)
(* Where steps leave pin, row and lock.                                    *)
(***************************************************************************)
LEMMA AroundRow ==
    ASSUME TypeOK, Around
    PROVE  SameRow /\ Before(pin, pin') /\ pin.rev <= pin'.rev
<1>0. pin \in Pins /\ pin.rev \in Nat
  BY PinsHaveRevisions DEF TypeOK
<1>1. CASE Time
  BY <1>0, <1>1, Aged DEF Before, Time
<1>2. CASE ~Time
  <2>1. row' = row
    <3>1. ASSUME NEW i \in Imports, ImportApply(i), pin'.rev > pin.rev PROVE row' = row
      BY <3>1, ImportedPin, PinsHaveRevisions DEF ImportApply, TypeOK
    <3>2. QED
      BY <1>2, <3>1 DEF Around, TimerFires, RunOnce, GiveUp, Stop, Restart, Release, Fault, LockLost,
                        Bump, ImportRead, vars
  <2>2. pin' = pin \/ pin'.rev > pin.rev
    <3>1. Bump => pin'.rev > pin.rev
      BY <1>0 DEF Bump, Pins
    <3>2. QED
      BY <1>2, <3>1 DEF Around, TimerFires, RunOnce, GiveUp, Stop, Restart, Release, Fault, LockLost,
                        ImportRead, vars
  <2>3. pin'.rev \in Nat
    BY <1>0, AroundType, PinsHaveRevisions DEF TypeOK
  <2>4. QED
    BY <1>0, <2>1, <2>2, <2>3 DEF SameRow, Before
<1>3. QED
  BY <1>1, <1>2

\* A tick that is inside after such a step was inside before.
LEMMA KeptInside ==
    ASSUME TypeOK, NEW u \in Ticks, Kept(u), tick'[u] # NoTick,
           tick'[u].step \notin {"lock", "release"}
    PROVE  /\ tick[u] # NoTick /\ tick'[u].step = tick[u].step /\ tick'[u].pin = tick[u].pin
           /\ tick'[u].under = tick[u].under /\ tick'[u].ack = tick[u].ack
           /\ tick'[u].empty = tick[u].empty /\ tick'[u].back = tick[u].back
BY FreshTicks DEF Kept, SameWork

LEMMA AroundLock ==
    ASSUME TypeOK, Around, ~severed', NEW u \in Ticks, tick'[u] # NoTick,
           tick[u] # NoTick, lock = u
    PROVE  lock' = u
<1>1. CASE \E s \in Servers : Restart(s)
  BY <1>1 DEF Restart, TypeOK
<1>2. CASE \E t \in Ticks : Release(t)
  BY <1>2 DEF Release, Do, TypeOK
<1>3. CASE /\ ~\E s \in Servers : Restart(s)
           /\ ~\E t \in Ticks : Release(t)
  <2>1. ~LockLost
    BY DEF LockLost
  <2>2. lock' = lock
    BY <1>3, <2>1 DEF Around, TimerFires, RunOnce, GiveUp, Stop, Fault, Bump, ImportRead, ImportApply,
                      Time, vars
  <2>3. QED
    BY <2>2
<1>4. QED
  BY <1>1, <1>2, <1>3

LEMMA Unsevered == [Next]_vars /\ ~severed' => ~severed
BY DEF Next, TickStep, TimerFires, RunOnce, GiveUp, Stop, Restart, Release, Fault, LockLost, Bump,
       ImportRead, ImportApply, Time, vars, AcquireLock, ReadPin, Measure, ReadPinAgain, LoadRow,
       CasPublish

LEMMA SteppingFrame ==
    ASSUME NEW t \in Ticks, Stepping(t) \/ CasPublish(t)
    PROVE  pin' = pin /\ severed' = severed
BY DEF Stepping, AcquireLock, ReadPin, Measure, ReadPinAgain, LoadRow, CasPublish

LEMMA SteppingRow ==
    ASSUME NEW t \in Ticks, Stepping(t)
    PROVE  row' = row
BY DEF Stepping, AcquireLock, ReadPin, Measure, ReadPinAgain, LoadRow

\* Of the other ticks, a write changes nothing but that their row is outdated.
LEMMA WritingKeeps ==
    ASSUME TypeOK, NEW t \in Ticks, CasPublish(t), NEW u \in Ticks
    PROVE  Kept(u)
<1>1. CASE tick' = [tick EXCEPT ![t] = Ending]
  BY <1>1 DEF Kept, TypeOK
<1>2. CASE tick' = [v \in Ticks |-> IF v = t THEN Ending
                                   ELSE IF tick[v] = NoTick THEN NoTick
                                   ELSE [tick[v] EXCEPT !.current = FALSE]]
  <2>1. CASE u # t /\ tick[u] # NoTick
    <3>1. tick'[u] = [tick[u] EXCEPT !.current = FALSE]
      BY <1>2, <2>1
    <3>2. QED
      BY <2>1, <3>1, TickKeeps DEF Kept
  <2>2. CASE u = t \/ tick[u] = NoTick
    BY <1>2, <2>2 DEF Kept
  <2>3. QED
    BY <2>1, <2>2
<1>3. QED
  BY <1>1, <1>2, RowWritten

(***************************************************************************)
(* Counts and pins.                                                        *)
(***************************************************************************)
LEMMA BeforeIsTransitive ==
    ASSUME NEW p \in Pins, NEW q \in Pins, NEW o \in Pins, Before(p, q), Before(q, o)
    PROVE  Before(p, o)
BY PinsHaveRevisions DEF Before

LEMMA BeforeIsOneWay ==
    ASSUME NEW p \in Pins, NEW q \in Pins, Before(p, q), Before(q, p)
    PROVE  p = q
BY PinsHaveRevisions DEF Before

\* A tick that is kept while the pin moves on.
LEMMA KeptBracketed ==
    ASSUME TypeOK, TypeOK', NEW u \in Ticks, Kept(u), TickBracketed(tick[u], pin), Before(pin, pin')
    PROVE  TickBracketed(tick'[u], pin')
<1>1. CASE tick'[u] = NoTick \/ tick'[u].step \in {"lock", "release"}
  BY <1>1 DEF TickBracketed
<1>2. CASE tick'[u] # NoTick /\ tick'[u].step \notin {"lock", "release"}
  <2>1. /\ tick[u] # NoTick /\ tick'[u].step = tick[u].step /\ tick'[u].pin = tick[u].pin
        /\ tick'[u].under = tick[u].under /\ tick'[u].empty = tick[u].empty
        /\ tick'[u].back = tick[u].back
    BY <1>2, KeptInside
  <2>2. tick[u].pin \in Pins /\ tick[u].under \in Pins /\ pin \in Pins /\ pin' \in Pins
    BY <2>1, TickFields DEF TypeOK
  <2>3. Before(tick[u].pin, pin) => Before(tick[u].pin, pin')
    BY <2>2, BeforeIsTransitive
  <2>4. Before(tick[u].under, pin) => Before(tick[u].under, pin')
    BY <2>2, BeforeIsTransitive
  <2>5. QED
    BY <1>2, <2>1, <2>3, <2>4 DEF TickBracketed
<1>3. QED
  BY <1>1, <1>2

LEMMA SteppingBracketed ==
    ASSUME TypeOK, NEW t \in Ticks, Stepping(t), TickBracketed(tick[t], pin)
    PROVE  TickBracketed(tick'[t], pin)
<1>1. PICK x \in Tick : tick' = [tick EXCEPT ![t] = x]
  BY SteppingType
<1>2. tick'[t] = x
  BY <1>1 DEF TypeOK
<1>3. tick[t] # NoTick
  BY DEF Stepping, AcquireLock, ReadPin, Measure, ReadPinAgain, LoadRow, At
<1>4. tick[t].pin \in Pins /\ tick[t].under \in Pins /\ pin \in Pins
  BY <1>3, TickFields DEF TypeOK
<1>5. CASE x.step \notin {"measure", "again", "load", "cas"}
  BY <1>2, <1>5 DEF TickBracketed
<1>6. CASE AcquireLock(t)
  BY <1>2, <1>5, <1>6, TickSteps, FreshTicks DEF TypeOK
<1>7. CASE ReadPin(t) /\ x.step # "release"
  <2>1. x.step = "measure" /\ x.pin = pin
    BY <1>2, <1>7, TickSteps, FreshTicks DEF TypeOK
  <2>2. QED
    BY <1>2, <2>1 DEF TickBracketed, Before
<1>8. CASE Measure(t)
  <2>1. /\ x.step = "again" /\ x.pin = tick[t].pin /\ x.back = tick[t].back
        /\ x.empty => x.under = pin
    BY <1>2, <1>8, TickSteps DEF TypeOK
  <2>2. x.back # "between" => Before(x.pin, pin)
    BY <1>3, <1>8, <2>1 DEF Measure, At, TickBracketed
  <2>3. QED
    BY <1>2, <2>1, <2>2 DEF TickBracketed, Before
<1>9. CASE ReadPinAgain(t) /\ x.step # "release"
  <2>1. /\ x.step = "load" /\ x.pin = pin /\ pin = tick[t].pin /\ x.under = tick[t].under
        /\ x.empty = tick[t].empty /\ x.back = tick[t].back
    BY <1>2, <1>9, TickSteps, FreshTicks DEF TypeOK
  <2>2. x.empty /\ x.back # "between" => Before(pin, x.under) /\ Before(x.under, pin)
    BY <1>3, <1>9, <2>1 DEF ReadPinAgain, At, TickBracketed
  <2>3. x.empty /\ x.back # "between" => x.pin = x.under
    BY <1>4, <2>1, <2>2, BeforeIsOneWay
  <2>4. QED
    BY <1>2, <2>1, <2>3 DEF TickBracketed
<1>10. CASE LoadRow(t) /\ x.step # "release"
  <2>1. /\ x.step = "cas" /\ x.pin = tick[t].pin /\ x.under = tick[t].under
        /\ x.empty = tick[t].empty /\ x.back = BackWith(tick[t])
    BY <1>2, <1>10, TickSteps, FreshTicks DEF TypeOK
  <2>2. x.back # "between" => tick[t].back # "between"
    BY <2>1 DEF BackWith
  <2>3. QED
    BY <1>2, <1>3, <1>10, <2>1, <2>2 DEF LoadRow, At, TickBracketed
<1>11. QED
  BY <1>5, <1>6, <1>7, <1>8, <1>9, <1>10 DEF Stepping

LEMMA NextBracketed ==
    ASSUME TypeOK, TypeOK', Bracketed, [Next]_vars
    PROVE  Bracketed'
<1>1. CASE Around
  <2>1. SameRow /\ Before(pin, pin') /\ \A u \in Ticks : Kept(u)
    BY <1>1, AroundRow, AroundType
  <2>2. RowBracketed(row')
    BY <2>1 DEF Bracketed, RowBracketed, SameRow
  <2>3. \A u \in Ticks : TickBracketed(tick'[u], pin')
    BY <2>1, KeptBracketed DEF Bracketed
  <2>4. QED
    BY <2>2, <2>3 DEF Bracketed
<1>2. ASSUME NEW t \in Ticks, Stepping(t) PROVE Bracketed'
  <2>1. pin' = pin /\ row' = row
    BY <1>2, SteppingFrame, SteppingRow
  <2>2. ASSUME NEW u \in Ticks, u # t PROVE tick'[u] = tick[u]
    BY <1>2, <2>2, SteppingType DEF TypeOK
  <2>3. TickBracketed(tick'[t], pin)
    BY <1>2, SteppingBracketed DEF Bracketed
  <2>4. \A u \in Ticks : TickBracketed(tick'[u], pin')
    BY <2>1, <2>2, <2>3 DEF Bracketed
  <2>5. QED
    BY <2>1, <2>4 DEF Bracketed
<1>3. ASSUME NEW t \in Ticks, CasPublish(t) PROVE Bracketed'
  <2>1. pin' = pin /\ tick[t] # NoTick /\ tick[t].step = "cas"
    BY <1>3, SteppingFrame DEF CasPublish, At
  <2>2. tick[t].empty /\ tick[t].back # "between" => tick[t].pin = tick[t].under
    BY <2>1 DEF Bracketed, TickBracketed
  <2>3. RowBracketed(row')
    BY <1>3, <2>2, RowWritten DEF Bracketed, RowBracketed
  <2>4. Before(pin, pin')
    BY <2>1 DEF Before
  <2>5. \A u \in Ticks : TickBracketed(tick'[u], pin')
    BY <1>3, <2>4, WritingKeeps, KeptBracketed DEF Bracketed
  <2>6. QED
    BY <2>3, <2>5 DEF Bracketed
<1>4. CASE TakingBack
  <2>1. RowBracketed(row')
    BY <1>4, Marked DEF Bracketed, RowBracketed, MarkedRow
  <2>2. ASSUME NEW u \in Ticks PROVE TickBracketed(tick'[u], pin')
    <3>1. CASE tick[u] = NoTick \/ tick[u].step \notin {"load", "cas"}
      BY <1>4, <3>1, Marked DEF TickBracketed, MarkedTick
    <3>2. CASE tick[u] # NoTick /\ tick[u].step \in {"load", "cas"}
      <4>1. /\ tick'[u].step = tick[u].step /\ tick'[u].pin = tick[u].pin
            /\ tick'[u].under = tick[u].under /\ tick'[u].empty = tick[u].empty
            /\ tick[u].back = "between" => tick'[u].back = "between"
        BY <1>4, <3>2, Marked DEF MarkedTick
      <4>2. TickBracketed(tick[u], pin)
        BY DEF Bracketed
      <4>3. QED
        BY <3>2, <4>1, <4>2 DEF TickBracketed
    <3>3. QED
      BY <3>1, <3>2
  <2>3. QED
    BY <2>1, <2>2 DEF Bracketed
<1>5. QED
  BY <1>1, <1>2, <1>3, <1>4, Steppings

(***************************************************************************)
(* The lock.                                                               *)
(***************************************************************************)
LEMMA NextExclusive ==
    ASSUME TypeOK, Exclusive, [Next]_vars
    PROVE  Exclusive'
<1> SUFFICES ASSUME ~severed', NEW u \in Ticks, Inside(u)'
             PROVE  lock' = u
  BY DEF Exclusive
<1>0. /\ ~severed /\ tick'[u] # NoTick /\ tick'[u].step \in {"pin", "measure", "again", "load", "cas"}
  BY Unsevered DEF Inside
<1>1. CASE Around
  <2>1. Inside(u)
    BY <1>0, <1>1, AroundType, KeptInside DEF Inside
  <2>2. QED
    BY <1>0, <1>1, <2>1, AroundLock DEF Exclusive, Inside
<1>2. ASSUME NEW t \in Ticks, Stepping(t) PROVE lock' = u
  <2>1. PICK x \in Tick : tick' = [tick EXCEPT ![t] = x]
    BY <1>2, SteppingType
  <2>2. tick'[t] = x /\ \A v \in Ticks : v # t => tick'[v] = tick[v]
    BY <2>1 DEF TypeOK
  <2>3. CASE AcquireLock(t)
    <3>1. CASE u = t
      <4>1. x.step # "release"
        BY <1>0, <2>2, <3>1
      <4>2. QED
        BY <2>2, <2>3, <3>1, <4>1, TickSteps, FreshTicks DEF TypeOK
    <3>2. CASE u # t
      <4>1. Inside(u)
        BY <1>0, <2>2, <3>2 DEF Inside
      <4>2. lock = u /\ u # NoHolder
        BY <1>0, <4>1, TickFields DEF Exclusive, Inside
      <4>3. QED
        BY <2>3, <4>2 DEF AcquireLock
    <3>3. QED
      BY <3>1, <3>2
  <2>4. CASE ReadPin(t) \/ Measure(t) \/ ReadPinAgain(t) \/ LoadRow(t)
    <3>1. Inside(t) /\ lock' = lock
      BY <2>4 DEF ReadPin, Measure, ReadPinAgain, LoadRow, Inside, At
    <3>2. Inside(u)
      BY <1>0, <2>2, <3>1 DEF Inside
    <3>3. QED
      BY <1>0, <3>1, <3>2 DEF Exclusive
  <2>5. QED
    BY <1>2, <2>3, <2>4 DEF Stepping
<1>3. ASSUME NEW t \in Ticks, CasPublish(t) PROVE lock' = u
  <2>1. Inside(u)
    BY <1>0, <1>3, WritingKeeps, KeptInside DEF Inside
  <2>2. QED
    BY <1>0, <1>3, <2>1 DEF Exclusive, CasPublish
<1>4. CASE TakingBack
  <2>1. tick[u] # NoTick /\ tick'[u].step = tick[u].step /\ lock' = lock
    BY <1>0, <1>4, Marked DEF MarkedTick
  <2>2. QED
    BY <1>0, <2>1 DEF Exclusive, Inside
<1>5. QED
  BY <1>1, <1>2, <1>3, <1>4, Steppings

(***************************************************************************)
(* The row and the tick that is about to write it.                         *)
(***************************************************************************)
LEMMA KeptAhead ==
    ASSUME TypeOK, TypeOK', NEW u \in Ticks, Kept(u), TickAhead(tick[u], row, pin), SameRow,
           pin.rev <= pin'.rev
    PROVE  TickAhead(tick'[u], row', pin')
<1>1. CASE tick'[u] = NoTick \/ tick'[u].step \notin {"measure", "again", "load", "cas"}
  BY <1>1 DEF TickAhead
<1>2. CASE tick'[u] # NoTick /\ tick'[u].step \in {"measure", "again", "load", "cas"}
  <2>1. /\ tick[u] # NoTick /\ tick'[u].step = tick[u].step /\ tick'[u].pin = tick[u].pin
        /\ tick'[u].ack = tick[u].ack /\ tick'[u].back = tick[u].back
    BY <1>2, KeptInside
  <2>2. tick[u].pin.rev \in Nat /\ pin.rev \in Nat /\ pin'.rev \in Nat
    BY <2>1, TickFields, PinsHaveRevisions DEF TypeOK
  <2>3. tick[u].pin.rev <= pin.rev => tick[u].pin.rev <= pin'.rev
    BY <2>2
  <2>4. QED
    BY <1>2, <2>1, <2>3 DEF TickAhead, SameRow
<1>3. QED
  BY <1>1, <1>2

LEMMA SteppingAhead ==
    ASSUME TypeOK, NEW t \in Ticks, Stepping(t), TickAhead(tick[t], row, pin), RowBehind(row, pin)
    PROVE  TickAhead(tick'[t], row, pin)
<1>1. PICK x \in Tick : tick' = [tick EXCEPT ![t] = x]
  BY SteppingType
<1>2. tick'[t] = x
  BY <1>1 DEF TypeOK
<1>3. tick[t] # NoTick
  BY DEF Stepping, AcquireLock, ReadPin, Measure, ReadPinAgain, LoadRow, At
<1>4. tick[t].pin.rev \in Nat /\ pin.rev \in Nat
  BY <1>3, TickFields, PinsHaveRevisions DEF TypeOK
<1>5. row # NoRow => row.pin.rev \in Nat /\ row.ack \in Nat
  BY RowFields, PinsHaveRevisions
<1>6. CASE x.step \notin {"measure", "again", "load", "cas"}
  BY <1>2, <1>6 DEF TickAhead
<1>7. CASE AcquireLock(t)
  BY <1>2, <1>6, <1>7, TickSteps, FreshTicks DEF TypeOK
<1>8. CASE ReadPin(t) /\ x.step # "release"
  <2>1. x.step = "measure" /\ x.pin = pin
    BY <1>2, <1>8, TickSteps, FreshTicks DEF TypeOK
  <2>2. QED
    BY <1>2, <1>4, <1>5, <2>1 DEF TickAhead, RowBehind
<1>9. CASE Measure(t)
  <2>1. x.step = "again" /\ x.pin = tick[t].pin /\ x.back = tick[t].back
    BY <1>2, <1>9, TickSteps DEF TypeOK
  <2>2. tick[t].step = "measure"
    BY <1>9 DEF Measure, At
  <2>3. QED
    BY <1>2, <1>3, <2>1, <2>2 DEF TickAhead
<1>10. CASE ReadPinAgain(t) /\ x.step # "release"
  <2>1. x.step = "load" /\ x.pin = tick[t].pin /\ x.back = tick[t].back
    BY <1>2, <1>10, TickSteps, FreshTicks DEF TypeOK
  <2>2. tick[t].step = "again"
    BY <1>10 DEF ReadPinAgain, At
  <2>3. QED
    BY <1>2, <1>3, <2>1, <2>2 DEF TickAhead
<1>11. CASE LoadRow(t) /\ x.step # "release"
  <2>1. /\ x.step = "cas" /\ x.pin = tick[t].pin /\ x.empty = tick[t].empty
        /\ x.ack = Acknowledged(tick[t]) /\ x.back = BackWith(tick[t])
    BY <1>2, <1>11, TickSteps, FreshTicks DEF TypeOK
  <2>2. tick[t].step = "load"
    BY <1>11 DEF LoadRow, At
  <2>3. /\ tick[t].back = "no" => tick[t].pin.rev <= pin.rev
        /\ row # NoRow /\ row.back = "no" => row.pin.rev <= tick[t].pin.rev
    BY <1>3, <2>2 DEF TickAhead
  <2>4. x.back = "no" => /\ tick[t].back = "no"
                         /\ tick[t].empty \/ row = NoRow \/ row.back = "no"
    BY <2>1 DEF BackWith
  <2>5. row # NoRow /\ row.back = "no" => row.ack <= row.pin.rev
    BY DEF RowBehind
  <2>6. /\ x.back = "no" => x.ack <= x.pin.rev
        /\ row # NoRow /\ row.back = "no" => row.ack <= x.ack
    <3>1. CASE tick[t].empty
      <4>1. x.ack = tick[t].pin.rev
        BY <2>1, <3>1 DEF Acknowledged
      <4>2. QED
        BY <1>4, <1>5, <2>1, <2>3, <2>5, <4>1
    <3>2. CASE ~tick[t].empty /\ row = NoRow
      <4>1. x.ack = 0
        BY <2>1, <3>2 DEF Acknowledged
      <4>2. QED
        BY <1>4, <2>1, <3>2, <4>1
    <3>3. CASE ~tick[t].empty /\ row # NoRow
      <4>1. x.ack = row.ack
        BY <2>1, <3>3 DEF Acknowledged
      <4>2. QED
        BY <1>4, <1>5, <2>1, <2>3, <2>4, <2>5, <3>3, <4>1
    <3>4. QED
      BY <3>1, <3>2, <3>3
  <2>7. QED
    BY <1>2, <2>1, <2>3, <2>4, <2>6 DEF TickAhead
<1>12. QED
  BY <1>6, <1>7, <1>8, <1>9, <1>10, <1>11 DEF Stepping

LEMMA NextBehind ==
    ASSUME TypeOK, TypeOK', Exclusive, RowIsBehind, [Next]_vars
    PROVE  RowIsBehind'
<1> SUFFICES ASSUME ~severed'
             PROVE  RowBehind(row', pin') /\ \A u \in Ticks : TickAhead(tick'[u], row', pin')
  BY DEF RowIsBehind
<1>0. ~severed /\ RowBehind(row, pin) /\ \A u \in Ticks : TickAhead(tick[u], row, pin)
  BY Unsevered DEF RowIsBehind
<1>1. CASE Around
  <2>1. SameRow /\ pin.rev <= pin'.rev /\ \A u \in Ticks : Kept(u)
    BY <1>1, AroundRow, AroundType
  <2>2. RowBehind(row', pin')
    <3>1. pin.rev \in Nat /\ pin'.rev \in Nat
      BY PinsHaveRevisions DEF TypeOK
    <3>2. row # NoRow => row.pin.rev \in Nat
      BY RowFields, PinsHaveRevisions
    <3>3. row # NoRow /\ row.pin.rev <= pin.rev => row.pin.rev <= pin'.rev
      BY <2>1, <3>1, <3>2
    <3>4. QED
      BY <1>0, <2>1, <3>3 DEF RowBehind, SameRow
  <2>3. \A u \in Ticks : TickAhead(tick'[u], row', pin')
    BY <1>0, <2>1, KeptAhead
  <2>4. QED
    BY <2>2, <2>3
<1>2. ASSUME NEW t \in Ticks, Stepping(t)
      PROVE  RowBehind(row', pin') /\ \A u \in Ticks : TickAhead(tick'[u], row', pin')
  <2>1. row' = row /\ pin' = pin
    BY <1>2, SteppingRow, SteppingFrame
  <2>2. TickAhead(tick'[t], row, pin)
    BY <1>0, <1>2, SteppingAhead
  <2>3. ASSUME NEW u \in Ticks, u # t PROVE tick'[u] = tick[u]
    BY <1>2, <2>3, SteppingType DEF TypeOK
  <2>4. QED
    BY <1>0, <2>1, <2>2, <2>3
<1>3. ASSUME NEW t \in Ticks, CasPublish(t)
      PROVE  RowBehind(row', pin') /\ \A u \in Ticks : TickAhead(tick'[u], row', pin')
  <2>0. pin' = pin /\ pin.rev \in Nat /\ tick[t] # NoTick /\ tick[t].step = "cas"
    BY <1>3, SteppingFrame, PinsHaveRevisions DEF CasPublish, At, TypeOK
  <2>1. CASE row' = row
    <3>1. SameRow /\ pin.rev <= pin'.rev
      BY <2>0, <2>1 DEF SameRow
    <3>2. QED
      BY <1>0, <1>3, <2>0, <2>1, <3>1, WritingKeeps, KeptAhead
  <2>2. CASE row' # row
    <3>1. RowBehind(row', pin')
      <4>1. row'.pin = tick[t].pin /\ row'.ack = tick[t].ack /\ row'.back = tick[t].back
        BY <1>3, <2>2, RowWritten
      <4>2. TickAhead(tick[t], row, pin)
        BY <1>0
      <4>3. QED
        BY <2>0, <4>1, <4>2 DEF TickAhead, RowBehind
    <3>2. ASSUME NEW u \in Ticks
          PROVE  tick'[u] = NoTick \/ tick'[u].step \notin {"measure", "again", "load", "cas"}
      <4>1. CASE u = t
        <5>1. tick'[t] = Ending
          BY <1>3, <2>2, RowWritten
        <5>2. QED
          BY <4>1, <5>1, FreshTicks
      <4>2. CASE u # t
        <5>1. ~Inside(u)
          BY <1>0, <1>3, <4>2 DEF Exclusive, Inside, CasPublish, At
        <5>2. QED
          BY <1>3, <5>1, WritingKeeps, KeptInside DEF Inside
      <4>3. QED
        BY <4>1, <4>2
    <3>3. QED
      BY <3>1, <3>2 DEF TickAhead
  <2>3. QED
    BY <2>1, <2>2
<1>4. CASE TakingBack
  <2>1. RowBehind(row', pin')
    BY <1>4, Marked DEF RowBehind, MarkedRow
  <2>2. ASSUME NEW u \in Ticks PROVE TickAhead(tick'[u], row', pin')
    <3>1. row' # NoRow => row'.back # "no"
      BY <1>4, Marked DEF MarkedRow
    <3>2. tick'[u] # NoTick /\ tick'[u].step \in {"measure", "again", "load", "cas"} => tick'[u].back # "no"
      BY <1>4, Marked DEF MarkedTick
    <3>3. QED
      BY <3>1, <3>2 DEF TickAhead
  <2>3. QED
    BY <2>1, <2>2
<1>5. QED
  BY <1>1, <1>2, <1>3, <1>4, Steppings

(***************************************************************************)
(* The theorems.                                                           *)
(***************************************************************************)
LEMMA InitInv == Init => IInv
<1> SUFFICES ASSUME Init PROVE IInv
  OBVIOUS
<1>1. TypeOK
  BY InitType
<1>2. row = NoRow /\ \A t \in Ticks : tick[t] = NoTick
  BY DEF Init
<1>3. Bracketed /\ Exclusive /\ RowIsBehind
  BY <1>2 DEF Bracketed, RowBracketed, TickBracketed, Exclusive, Inside, RowIsBehind, RowBehind, TickAhead
<1>4. QED
  BY <1>1, <1>3 DEF IInv

LEMMA NextInv == IInv /\ [Next]_vars => IInv'
BY NextType, NextBracketed, NextExclusive, NextBehind DEF IInv

LEMMA Invariant == Spec => []IInv
BY InitInv, NextInv, PTL DEF Spec

\* The publishers' state has the shape the code gives it
\* (cp0-sync-status-publisher.ts and its runtime), for any servers and skews.
THEOREM SyncTypeCorrect == Spec => []TypeOK
<1>1. IInv => TypeOK
  BY DEF IInv
<1>2. QED
  BY Invariant, <1>1, PTL

\* A green readback rests on an empty backlog counted under the reader's pin,
\* however many servers publish, whichever ticks go on without their lock and
\* whatever imports do before or after -- unless one took the board's revision
\* back between the two reads (runCp0SyncStatusPublisherTick,
\* buildCp0SyncStatusReadback, applySnapshot).
THEOREM SyncGreenIsProof == Spec => []GreenIsProof
<1>1. IInv => GreenIsProof
  BY DEF IInv, Bracketed, RowBracketed, GreenIsProof, ZeroBacklogProven, Parity
<1>2. QED
  BY Invariant, <1>1, PTL

LEMMA AckStep ==
    ASSUME IInv, [Next]_vars, row # NoRow, ~severed, row.back = "no"
    PROVE  ~RowGoesBack
<1>0. row.ack \in Nat /\ row.pin.rev \in Nat
  BY RowFields, PinsHaveRevisions DEF IInv
<1>1. CASE Around
  <2>1. row'.ack = row.ack /\ row'.pin = row.pin
    BY <1>1, AroundRow DEF IInv, SameRow
  <2>2. QED
    BY <1>0, <2>1 DEF RowGoesBack
<1>2. CASE row' = row
  BY <1>0, <1>2 DEF RowGoesBack
<1>3. ASSUME NEW t \in Ticks, CasPublish(t), row' # row
      PROVE  ~RowGoesBack
  <2>1. row'.pin = tick[t].pin /\ row'.ack = tick[t].ack
    BY <1>3, RowWritten DEF IInv
  <2>2. tick[t] # NoTick /\ tick[t].step = "cas" /\ TickAhead(tick[t], row, pin)
    BY <1>3 DEF IInv, RowIsBehind, CasPublish, At
  <2>3. tick[t].pin.rev \in Nat /\ tick[t].ack \in Nat
    BY <2>2, TickFields, PinsHaveRevisions DEF IInv
  <2>4. row.pin.rev <= tick[t].pin.rev /\ row.ack <= tick[t].ack
    BY <2>2 DEF TickAhead
  <2>5. QED
    BY <1>0, <2>1, <2>3, <2>4 DEF RowGoesBack
<1>4. CASE TakingBack
  <2>1. row'.ack = row.ack /\ row'.pin = row.pin
    BY <1>4, Marked DEF IInv, MarkedRow
  <2>2. QED
    BY <1>0, <2>1 DEF RowGoesBack
<1>5. QED
  BY <1>1, <1>2, <1>3, <1>4, Steppings, SteppingRow DEF IInv

\* As long as no tick outlives its lock, the published revision and the
\* acknowledged one go back only from a row whose reading an import has overtaken
\* (buildPublishCandidate, the compare-and-swap of the adapter, applySnapshot).
THEOREM SyncAckNeverFalls == Spec => AckNeverFalls
<1>1. IInv /\ [Next]_vars =>
        [row # NoRow /\ ~severed /\ RowGoesBack => row.back # "no"]_vars
  BY AckStep
<1>2. QED
  BY Invariant, <1>1, PTL DEF Spec, AckNeverFalls
=============================================================================
