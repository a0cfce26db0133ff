------------------------- MODULE Idempotency_proofs -------------------------
(***************************************************************************)
(* Proofs about Idempotency, for any sets of calls, scopes, hashes and run *)
(* ids, any TTL, and calls of any length.                                  *)
(***************************************************************************)
EXTENDS Idempotency, TLAPS

(***************************************************************************)
(* Type correctness.                                                       *)
(***************************************************************************)
LEMMA NewRecordType ==
    ASSUME TypeOK, NEW c \in Calls
    PROVE  NewRecord(c) \in Record
BY TimeAssumption DEF TypeOK, NewRecord, Record, Requests

\* Recording a response changes one row, and neither its owner nor its run id.
LEMMA RecordedRow ==
    ASSUME TypeOK, NEW c \in Calls, NEW s, s = req[c].scope
    PROVE  /\ \/ Recorded(c) = table /\ table[s] = NoRecord
              \/ Recorded(c) = [table EXCEPT ![s] = Recorded(c)[s]]
           /\ table[s] # NoRecord =>
                 /\ Recorded(c)[s] \in Record /\ Recorded(c)[s] # NoRecord
                 /\ Recorded(c)[s].owner = table[s].owner
                 /\ Recorded(c)[s].run = table[s].run
                 /\ Recorded(c)[s].hash = req[c].hash
                 /\ Recorded(c)[s].resp = c
                 /\ ~Recorded(c)[s].inProgress
<1>1. CASE table[s] = NoRecord
  BY <1>1 DEF Recorded
<1>2. CASE table[s] # NoRecord
  <2> DEFINE old == table[s]
             new == [old EXCEPT !.hash = req[c].hash, !.inProgress = FALSE, !.resp = c]
  <2>1. s \in Scopes /\ old \in Record /\ req[c].hash \in Hashes
    BY <1>2 DEF TypeOK, Requests
  <2>2. new \in Record
    BY <2>1 DEF Record
  <2>3. new # NoRecord
    BY <2>2, NoRecordAssumption
  <2>4. /\ new.owner = old.owner /\ new.run = old.run
        /\ new.hash = req[c].hash /\ new.resp = c /\ ~new.inProgress
    BY <2>1 DEF Record
  <2>5. Recorded(c) = [table EXCEPT ![s] = new]
    BY <1>2 DEF Recorded
  <2> HIDE DEF new
  <2>6. Recorded(c)[s] = new
    BY <2>1, <2>5 DEF TypeOK
  <2>7. QED
    BY <2>2, <2>3, <2>4, <2>5, <2>6
<1>3. QED
  BY <1>1, <1>2

LEMMA RecordedType ==
    ASSUME TypeOK, NEW c \in Calls
    PROVE  Recorded(c) \in [Scopes -> Record \cup {NoRecord}]
<1> DEFINE s == req[c].scope
<1>1. CASE Recorded(c) = table
  BY <1>1 DEF TypeOK
<1>2. CASE Recorded(c) = [table EXCEPT ![s] = Recorded(c)[s]] /\ table[s] # NoRecord
  <2>1. Recorded(c)[s] \in Record
    BY <1>2, RecordedRow
  <2>2. QED
    BY <1>2, <2>1 DEF TypeOK
<1>3. table[s] = NoRecord => Recorded(c) = table
  BY DEF Recorded
<1>4. QED
  BY <1>1, <1>2, <1>3, RecordedRow

LEMMA InitType == Init => TypeOK
BY DEF Init, TypeOK, Phases, Requests

LEMMA NextType == TypeOK /\ [Next]_vars => TypeOK'
<1> SUFFICES ASSUME TypeOK, [Next]_vars PROVE TypeOK'
  OBVIOUS
<1> USE DEF TypeOK
<1>1. CASE Tick
  BY <1>1 DEF Tick
<1>2. ASSUME NEW c \in Calls, Arrive(c) \/ Crash(c)
      PROVE TypeOK'
  BY <1>2 DEF Arrive, Crash, Goto, FirstPhase, Phases, Beginning, Final
<1>3. ASSUME NEW c \in Calls, Step(c)
      PROVE TypeOK'
  <2> req[c].scope \in Scopes /\ req[c].hash \in Hashes
    BY DEF Requests
  <2>1. CASE CheckRun(c) \/ Vanished(c) \/ Restart(c)
    BY <2>1 DEF CheckRun, Vanished, Restart, Goto, FirstPhase, Phases, Beginning, Final
  <2>2. CASE HandlerSucceeds(c) \/ HandlerFails(c)
    BY <2>2 DEF HandlerSucceeds, HandlerFails, Goto, Phases, Executing
  <2>3. ASSUME NEW rec \in Record, Answer(c, rec)
        PROVE pc' \in [Calls -> Phases] /\ answer' \in [Calls -> Calls \cup {NoCall}]
    BY <2>3 DEF Answer, Verdict, Goto, Phases, Final, Record
  <2>4. CASE ReadScope(c)
    <3>1. CASE table[req[c].scope] \in Record /\ Answer(c, table[req[c].scope])
      BY <2>3, <2>4, <3>1 DEF ReadScope
    <3>2. QED
      BY <2>4, <3>1 DEF ReadScope, Goto, Phases, Beginning
  <2>5. CASE Reread(c)
    <3>1. PICK s \in Blocking(c) :
             \/ Expired(table[s], c) /\ Goto(c, "reclear") /\ UNCHANGED answer
             \/ ~Expired(table[s], c) /\ Answer(c, table[s])
      BY <2>5 DEF Reread
    <3>2. table[s] \in Record
      BY <3>1 DEF Blocking, BoundTo
    <3>3. QED
      BY <2>3, <2>5, <3>1, <3>2 DEF Reread, Goto, Phases, Beginning
  <2>6. CASE ClearExpired(c) \/ Cleanup(c)
    BY <2>6 DEF ClearExpired, Cleanup, Goto, Phases, Beginning, Final
  <2>7. CASE Insert(c)
    BY <2>7, NewRecordType DEF Insert, Goto, Phases, Beginning, Executing
  <2>8. CASE Complete(c)
    BY <2>8, RecordedType DEF Complete, Goto, Phases, Final
  <2>9. CASE RecordFails(c)
    BY <2>9, RecordedType DEF RecordFails, Goto, Phases, Executing
  <2>10. QED
    BY <1>3, <2>1, <2>2, <2>4, <2>5, <2>6, <2>7, <2>8, <2>9 DEF Step
<1>4. CASE UNCHANGED vars
  BY <1>4 DEF vars
<1>5. QED
  BY <1>1, <1>2, <1>3, <1>4 DEF Next

\* Every reachable state is well typed.
THEOREM TypeCorrect == Spec => []TypeOK
BY InitType, NextType, PTL DEF Spec

(***************************************************************************)
(* The inductive invariant.  A call that may run its handler, or has run   *)
(* it, owns the row of its scope -- until somebody deletes an expired row. *)
(***************************************************************************)
\* The phases in which a call's handler has taken effect.
EffectPhases ==
    /\ \A c \in effect :
          \/ pc[c] \in {"complete", "done", "crashed"}
          \/ pc[c] \in {"cleanup", "failed"} /\ req[c].scope \in cleared
    /\ \A c \in Calls : pc[c] \in {"complete", "done"} => c \in effect

Ownership ==
    \A c \in Calls : Spent(c) /\ req[c].scope \notin cleared =>
        /\ table[req[c].scope] # NoRecord
        /\ table[req[c].scope].owner = c

\* The unique index on run_id, and what the column holds.
RunIndex ==
    /\ \A s \in Scopes : table[s] # NoRecord => table[s].run = req[table[s].owner].run
    /\ \A s, t \in Scopes :
          /\ table[s] # NoRecord /\ table[t] # NoRecord
          /\ table[s].run = table[t].run /\ table[s].run # NoRun
          => s = t

\* A completed row holds the response of a request with its hash.
RowsAreFaithful ==
    \A s \in Scopes : table[s] # NoRecord /\ ~table[s].inProgress =>
        /\ table[s].resp \in effect
        /\ req[table[s].resp].hash = table[s].hash

IInv ==
    /\ TypeOK
    /\ EffectPhases
    /\ Ownership
    /\ RunIndex
    /\ RowsAreFaithful
    /\ ReplayIsFaithful
    /\ CompletedIsRecorded

LEMMA InitInv == Init => IInv
BY InitType DEF Init, IInv, EffectPhases, Ownership, RunIndex, RowsAreFaithful,
   ReplayIsFaithful, CompletedIsRecorded, Spent, Executing

\* Steps that touch neither the table nor the histories, and end no handler.
LEMMA QuietStep ==
    ASSUME IInv, TypeOK', NEW c \in Calls, NEW p \in Phases,
           pc' = [pc EXCEPT ![c] = p],
           p \notin Executing, p \notin {"replayed", "done"},
           c \in effect => p = "crashed",
           UNCHANGED <<table, req, answer, effect, cleared>>
    PROVE  IInv'
BY DEF IInv, TypeOK, EffectPhases, Ownership, RunIndex, RowsAreFaithful,
   ReplayIsFaithful, CompletedIsRecorded, Spent, Executing

\* A verdict on row rec, read by c.
LEMMA AnswerStep ==
    ASSUME IInv, TypeOK', NEW c \in Calls, NEW s \in Scopes,
           table[s] # NoRecord, Answer(c, table[s]), c \notin effect,
           UNCHANGED <<table, req, effect, cleared>>
    PROVE  IInv'
<1> USE DEF IInv, TypeOK
<1>1. CASE Verdict(c, table[s]) = "replayed"
  <2>1. ~table[s].inProgress /\ table[s].hash = req[c].hash
    BY <1>1 DEF Verdict
  <2>2. table[s].resp \in effect /\ req[table[s].resp].hash = req[c].hash
    BY <2>1 DEF RowsAreFaithful
  <2>3. pc' = [pc EXCEPT ![c] = "replayed"] /\ answer' = [answer EXCEPT ![c] = table[s].resp]
    BY <1>1 DEF Answer, Goto
  <2>4. ReplayIsFaithful'
    BY <2>2, <2>3 DEF ReplayIsFaithful
  <2>5. QED
    BY <2>3, <2>4 DEF EffectPhases, Ownership, RunIndex, RowsAreFaithful,
       CompletedIsRecorded, Spent, Executing
<1>2. CASE Verdict(c, table[s]) # "replayed"
  <2>1. PICK p \in {"conflict", "busy"} : pc' = [pc EXCEPT ![c] = p]
    BY <1>2 DEF Answer, Verdict, Goto
  <2>2. UNCHANGED answer
    BY <1>2 DEF Answer
  <2>3. QED
    BY <2>1, <2>2, QuietStep DEF Phases, Final, Executing
<1>3. QED
  BY <1>1, <1>2

\* Recording the response of a handler that took effect.
LEMMA RecordStep ==
    ASSUME IInv, NEW c \in effect, NEW s, s = req[c].scope,
           table' \in {table, Recorded(c)}, UNCHANGED <<req, effect>>
    PROVE  /\ RunIndex' /\ RowsAreFaithful'
           /\ \A t \in Scopes : t # s => table'[t] = table[t]
           /\ table[s] # NoRecord => table'[s] # NoRecord /\ table'[s].owner = table[s].owner
<1>1. CASE table' = table
  BY <1>1 DEF IInv, RunIndex, RowsAreFaithful
<1>2. CASE table' = Recorded(c)
  <2> DEFINE new == Recorded(c)[s]
  <2>1. c \in Calls /\ s \in Scopes /\ TypeOK
    BY DEF IInv, TypeOK, Requests
  <2>2. /\ \/ table' = table /\ table[s] = NoRecord
           \/ table' = [table EXCEPT ![s] = new]
        /\ table[s] # NoRecord =>
              /\ new # NoRecord
              /\ new.owner = table[s].owner /\ new.run = table[s].run
              /\ new.hash = req[c].hash /\ new.resp = c /\ ~new.inProgress
    BY <1>2, <2>1, RecordedRow
  <2> HIDE DEF new
  <2>3. CASE table' = table
    BY <2>3 DEF IInv, RunIndex, RowsAreFaithful
  <2>4. CASE table' = [table EXCEPT ![s] = new] /\ table[s] # NoRecord
    <3>1. table'[s] = new /\ \A t \in Scopes : t # s => table'[t] = table[t]
      BY <2>1, <2>4 DEF TypeOK
    <3>2. RunIndex'
      BY <2>1, <2>2, <2>4, <3>1 DEF IInv, TypeOK, RunIndex
    <3>3. RowsAreFaithful'
      BY <2>1, <2>2, <2>4, <3>1 DEF IInv, TypeOK, RowsAreFaithful
    <3>4. QED
      BY <2>2, <2>4, <3>1, <3>2, <3>3
  <2>5. CASE table[s] = NoRecord
    <3>1. table' = table
      BY <1>2, <2>5 DEF Recorded
    <3>2. QED
      BY <2>3, <3>1
  <2>6. QED
    BY <2>2, <2>3, <2>4, <2>5
<1>3. QED
  BY <1>1, <1>2

LEMMA NextInv == IInv /\ [Next]_vars => IInv'
<1> SUFFICES ASSUME IInv, [Next]_vars PROVE IInv'
  OBVIOUS
<1>t. TypeOK /\ TypeOK'
  BY NextType DEF IInv
<1>1. CASE Tick
  BY <1>1, <1>t DEF Tick, IInv, EffectPhases, Ownership, RunIndex, RowsAreFaithful,
     ReplayIsFaithful, CompletedIsRecorded, Spent
<1>2. ASSUME NEW c \in Calls, Arrive(c)
      PROVE IInv'
  <2>1. FirstPhase(c) \in Beginning /\ c \notin effect
    BY <1>2 DEF Arrive, FirstPhase, Beginning, IInv, EffectPhases
  <2>2. QED
    BY <1>2, <1>t, <2>1, QuietStep DEF Arrive, Goto, Beginning, Executing, Phases
<1>3. ASSUME NEW c \in Calls, Crash(c)
      PROVE IInv'
  BY <1>3, <1>t, QuietStep DEF Crash, Goto, Executing, Phases, Final
<1>4. ASSUME NEW c \in Calls, Step(c)
      PROVE IInv'
  <2> DEFINE s == req[c].scope
  <2>s. s \in Scopes
    BY <1>t DEF TypeOK, Requests
  <2>e. pc[c] \in Beginning => c \notin effect
    BY DEF IInv, EffectPhases, Beginning
  <2>1. CASE CheckRun(c)
    BY <1>t, <2>1, <2>e, QuietStep DEF CheckRun, Goto, Beginning, Executing, Phases, Final
  <2>2. CASE ReadScope(c)
    <3>1. CASE Answer(c, table[s]) /\ table[s] # NoRecord
      BY <1>t, <2>2, <2>s, <2>e, <3>1, AnswerStep DEF ReadScope, Beginning
    <3>2. CASE UNCHANGED answer /\ \E p \in {"insert", "clear"} : Goto(c, p)
      BY <1>t, <2>2, <2>e, <3>2, QuietStep
      DEF ReadScope, Goto, Beginning, Executing, Phases
    <3>3. QED
      BY <2>2, <3>1, <3>2 DEF ReadScope
  <2>3. CASE ClearExpired(c)
    <3>1. PICK p \in {"insert", "reinsert"} : pc' = [pc EXCEPT ![c] = p]
      BY <2>3 DEF ClearExpired, Goto
    <3>2. c \notin effect
      BY <2>3, <2>e DEF ClearExpired, Beginning
    <3>3. table' = [table EXCEPT ![s] = NoRecord] /\ cleared' = cleared \cup {s}
          /\ UNCHANGED <<req, answer, effect>>
      BY <2>3 DEF ClearExpired
    <3>4. EffectPhases' /\ ReplayIsFaithful'
      BY <1>t, <3>1, <3>2, <3>3 DEF IInv, TypeOK, EffectPhases, ReplayIsFaithful
    <3>5. Ownership' /\ CompletedIsRecorded'
      BY <1>t, <2>s, <3>1, <3>3
      DEF IInv, TypeOK, Ownership, CompletedIsRecorded, Spent, Executing
    <3>6. RunIndex' /\ RowsAreFaithful'
      BY <1>t, <2>s, <3>3 DEF IInv, TypeOK, RunIndex, RowsAreFaithful
    <3>7. QED
      BY <1>t, <3>4, <3>5, <3>6 DEF IInv
  <2>4. CASE Insert(c)
    <3>e. c \notin effect
      BY <2>4, <2>e DEF Insert, Beginning
    <3>1. CASE Taken(c)
      BY <1>t, <2>4, <3>e, <3>1, QuietStep DEF Insert, Goto, Beginning, Executing, Phases
    <3>2. CASE ~Taken(c)
      <4>1. table' = [table EXCEPT ![s] = NewRecord(c)] /\ pc' = [pc EXCEPT ![c] = "execute"]
            /\ UNCHANGED <<req, answer, effect, cleared>>
        BY <2>4, <3>2 DEF Insert, Goto
      <4>2. table[s] = NoRecord
        BY <3>2 DEF Taken
      <4>3. NewRecord(c) # NoRecord
        BY <1>t, NewRecordType, NoRecordAssumption
      <4>4. EffectPhases' /\ ReplayIsFaithful'
        BY <1>t, <3>e, <4>1 DEF IInv, TypeOK, EffectPhases, ReplayIsFaithful
      <4>5. Ownership'
        BY <1>t, <2>s, <4>1, <4>2, <4>3
        DEF IInv, TypeOK, Ownership, Spent, Executing, NewRecord
      <4>6. CompletedIsRecorded'
        BY <1>t, <2>s, <4>1, <4>2, <4>3
        DEF IInv, TypeOK, CompletedIsRecorded, NewRecord
      <4>7. RunIndex'
        <5>1. \A t \in Scopes : table[t] # NoRecord /\ req[c].run # NoRun
                 => table[t].run # req[c].run
          BY <3>2 DEF Taken, BoundTo
        <5>2. QED
          BY <1>t, <2>s, <4>1, <4>2, <4>3, <5>1 DEF IInv, TypeOK, RunIndex, NewRecord
      <4>8. RowsAreFaithful'
        BY <1>t, <2>s, <4>1, <4>3 DEF IInv, TypeOK, RowsAreFaithful, NewRecord
      <4>9. QED
        BY <1>t, <4>4, <4>5, <4>6, <4>7, <4>8 DEF IInv
    <3>3. QED
      BY <3>1, <3>2
  <2>5. CASE Vanished(c)
    BY <1>t, <2>5, <2>e, QuietStep DEF Vanished, Goto, Beginning, Executing, Phases, Final
  <2>6. CASE Reread(c)
    <3>1. PICK t \in Blocking(c) :
             \/ Expired(table[t], c) /\ Goto(c, "reclear") /\ UNCHANGED answer
             \/ ~Expired(table[t], c) /\ Answer(c, table[t])
      BY <2>6 DEF Reread
    <3>2. t \in Scopes /\ table[t] # NoRecord
      BY <2>s, <3>1 DEF Blocking, BoundTo
    <3>3. c \notin effect
      BY <2>6, <2>e DEF Reread, Beginning
    <3>4. CASE Answer(c, table[t])
      BY <1>t, <2>6, <3>2, <3>3, <3>4, AnswerStep DEF Reread
    <3>5. CASE Goto(c, "reclear") /\ UNCHANGED answer
      BY <1>t, <2>6, <3>3, <3>5, QuietStep DEF Reread, Goto, Beginning, Executing, Phases
    <3>6. QED
      BY <3>1, <3>4, <3>5
  <2>7. CASE Restart(c)
    BY <1>t, <2>7, <2>e, QuietStep
    DEF Restart, Goto, FirstPhase, Beginning, Executing, Phases
  <2>8. CASE HandlerSucceeds(c)
    <3>1. /\ pc[c] = "execute" /\ pc' = [pc EXCEPT ![c] = "complete"]
          /\ effect' = effect \cup {c} /\ UNCHANGED <<table, req, answer, cleared>>
      BY <2>8 DEF HandlerSucceeds, Goto
    <3>2. EffectPhases'
      BY <1>t, <3>1 DEF IInv, TypeOK, EffectPhases
    <3>3. Ownership'
      BY <1>t, <3>1 DEF IInv, TypeOK, Ownership, Spent, Executing
    <3>4. RunIndex' /\ RowsAreFaithful' /\ ReplayIsFaithful' /\ CompletedIsRecorded'
      BY <1>t, <3>1
      DEF IInv, TypeOK, RunIndex, RowsAreFaithful, ReplayIsFaithful, CompletedIsRecorded
    <3>5. QED
      BY <1>t, <3>2, <3>3, <3>4 DEF IInv
  <2>9. CASE HandlerFails(c)
    BY <1>t, <2>9 DEF HandlerFails, Goto, IInv, TypeOK, EffectPhases, Ownership,
       RunIndex, RowsAreFaithful, ReplayIsFaithful, CompletedIsRecorded, Spent, Executing
  <2>10. CASE Complete(c)
    <3>1. table' = Recorded(c)
          /\ pc' = [pc EXCEPT ![c] = "done"] /\ UNCHANGED <<req, answer, effect, cleared>>
          /\ c \in effect
      BY <2>10 DEF Complete, Goto, IInv, EffectPhases
    <3>2. /\ RunIndex' /\ RowsAreFaithful'
          /\ \A t \in Scopes : t # s => table'[t] = table[t]
          /\ table[s] # NoRecord => table'[s] # NoRecord /\ table'[s].owner = table[s].owner
      BY <3>1, RecordStep
    <3>3. table[s] # NoRecord => table'[s].resp = c /\ ~table'[s].inProgress
      BY <1>t, <3>1, RecordedRow
    <3>4. s \notin cleared => table[s] # NoRecord /\ table[s].owner = c
      BY <3>1 DEF IInv, Ownership, Spent
    <3>5. EffectPhases' /\ ReplayIsFaithful'
      BY <1>t, <3>1 DEF IInv, TypeOK, EffectPhases, ReplayIsFaithful
    <3>6. Ownership'
      BY <1>t, <2>s, <3>1, <3>2 DEF IInv, TypeOK, Requests, Ownership, Spent, Executing
    <3>7. CompletedIsRecorded'
      <4> SUFFICES ASSUME NEW d \in Calls, pc'[d] = "done", req[d].scope \notin cleared
                   PROVE  /\ table'[req[d].scope] # NoRecord
                          /\ table'[req[d].scope].resp = d
                          /\ ~table'[req[d].scope].inProgress
        BY <3>1 DEF CompletedIsRecorded
      <4>1. CASE d = c
        BY <3>2, <3>3, <3>4, <4>1
      <4>2. CASE d # c
        <5>1. pc[d] = "done" /\ Spent(d)
          BY <1>t, <3>1, <4>2 DEF TypeOK, IInv, EffectPhases, Spent
        <5>2. table[req[d].scope] # NoRecord /\ table[req[d].scope].owner = d
          BY <5>1 DEF IInv, Ownership
        <5>3. req[d].scope # s
          BY <3>4, <4>2, <5>2
        <5>4. req[d].scope \in Scopes
          BY <1>t DEF TypeOK, Requests
        <5>5. QED
          BY <3>2, <5>1, <5>3, <5>4 DEF IInv, CompletedIsRecorded
      <4>3. QED
        BY <4>1, <4>2
    <3>8. QED
      BY <1>t, <3>2, <3>5, <3>6, <3>7 DEF IInv
  <2>11. CASE RecordFails(c)
    <3>1. table' \in {table, Recorded(c)} /\ cleared' = cleared \cup {s}
          /\ pc' = [pc EXCEPT ![c] = "cleanup"] /\ UNCHANGED <<req, answer, effect>>
          /\ c \in effect
      BY <2>11 DEF RecordFails, Goto, IInv, EffectPhases
    <3>2. RunIndex' /\ RowsAreFaithful' /\ \A t \in Scopes : t # s => table'[t] = table[t]
      BY <3>1, RecordStep
    <3>3. EffectPhases' /\ ReplayIsFaithful'
      BY <1>t, <3>1 DEF IInv, TypeOK, EffectPhases, ReplayIsFaithful
    <3>4. Ownership' /\ CompletedIsRecorded'
      BY <1>t, <3>1, <3>2
      DEF IInv, TypeOK, Requests, Ownership, CompletedIsRecorded, Spent, Executing
    <3>5. QED
      BY <1>t, <3>2, <3>3, <3>4 DEF IInv
  <2>12. CASE Cleanup(c)
    <3>1. table' = [table EXCEPT ![s] = NoRecord] /\ pc' = [pc EXCEPT ![c] = "failed"]
          /\ UNCHANGED <<req, answer, effect, cleared>>
          /\ (c \in effect => s \in cleared)
      BY <2>12 DEF Cleanup, Goto, IInv, EffectPhases
    <3>2. s \notin cleared => table[s].owner = c
      BY <2>12 DEF Cleanup, IInv, Ownership, Spent, Executing
    <3>3. EffectPhases' /\ ReplayIsFaithful'
      BY <1>t, <3>1 DEF IInv, TypeOK, EffectPhases, ReplayIsFaithful
    <3>4. Ownership' /\ CompletedIsRecorded'
      <4>1. ASSUME NEW d \in Calls, Spent(d)', req[d].scope \notin cleared
            PROVE  d # c /\ Spent(d) /\ req[d].scope # s
                   /\ table'[req[d].scope] = table[req[d].scope]
        <5>1. d # c /\ Spent(d)
          BY <1>t, <3>1, <4>1 DEF Spent, Executing, TypeOK
        <5>2. table[req[d].scope].owner = d
          BY <4>1, <5>1 DEF IInv, Ownership
        <5>3. QED
          BY <1>t, <2>s, <3>1, <3>2, <4>1, <5>1, <5>2 DEF TypeOK, Requests
      <4>2. Ownership'
        BY <3>1, <4>1 DEF IInv, Ownership
      <4>3. ASSUME NEW d \in Calls, pc'[d] = "done"
            PROVE  Spent(d)' /\ pc[d] = "done"
        BY <1>t, <3>1, <4>3 DEF TypeOK, IInv, EffectPhases, Spent
      <4>4. CompletedIsRecorded'
        BY <3>1, <4>1, <4>3 DEF IInv, CompletedIsRecorded
      <4>5. QED
        BY <4>2, <4>4
    <3>5. RunIndex' /\ RowsAreFaithful'
      BY <1>t, <2>s, <3>1 DEF IInv, TypeOK, RunIndex, RowsAreFaithful
    <3>6. QED
      BY <1>t, <3>3, <3>4, <3>5 DEF IInv
  <2>13. QED
    BY <1>4, <2>1, <2>2, <2>3, <2>4, <2>5, <2>6, <2>7, <2>8, <2>9, <2>10, <2>11, <2>12 DEF Step
<1>5. CASE UNCHANGED vars
  BY <1>5, <1>t DEF vars, IInv, EffectPhases, Ownership, RunIndex, RowsAreFaithful,
     ReplayIsFaithful, CompletedIsRecorded, Spent
<1>6. QED
  BY <1>1, <1>2, <1>3, <1>4, <1>5 DEF Next

LEMMA InvariantHolds == Spec => []IInv
BY InitInv, NextInv, PTL DEF Spec

\* At most one request per scope runs its handler with effect while no expired
\* row of the scope has been deleted.
THEOREM ExactlyOnce == Spec => []ExactlyOncePerScope
<1>1. IInv => ExactlyOncePerScope
  BY DEF IInv, Ownership, ExactlyOncePerScope
<1>2. QED
  BY <1>1, InvariantHolds, PTL

\* A run id is never bound by two requests under different keys.
THEOREM RunIdBinding == Spec => []RunIdBoundOnce
<1>1. IInv => RunIdBoundOnce
  <2> SUFFICES ASSUME IInv, NEW c \in Calls, NEW d \in Calls,
                      req[c].run = req[d].run, req[c].run # NoRun,
                      req[c].scope \notin cleared, req[d].scope \notin cleared,
                      Spent(c), Spent(d)
               PROVE  c = d
    BY DEF RunIdBoundOnce
  <2>1. /\ table[req[c].scope] # NoRecord /\ table[req[c].scope].owner = c
        /\ table[req[d].scope] # NoRecord /\ table[req[d].scope].owner = d
    BY DEF IInv, Ownership
  <2>2. req[c].scope \in Scopes /\ req[d].scope \in Scopes
    BY DEF IInv, TypeOK, Requests
  <2>3. req[c].scope = req[d].scope
    BY <2>1, <2>2 DEF IInv, RunIndex
  <2>4. QED
    BY <2>1, <2>3
<1>2. QED
  BY <1>1, InvariantHolds, PTL

\* A replayed response was recorded by a handler run for the same request body.
THEOREM FaithfulReplay == Spec => []ReplayIsFaithful
BY InvariantHolds, PTL DEF IInv

\* The row of an answered request stays until it expires.
THEOREM CompletedStays == Spec => []CompletedIsRecorded
BY InvariantHolds, PTL DEF IInv
=============================================================================
