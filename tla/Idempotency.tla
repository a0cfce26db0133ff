---------------------------- MODULE Idempotency ----------------------------
(***************************************************************************)
(* beginIdempotent / completeIdempotent over the MySQL idempotency table   *)
(* (idempotency.ts, createMysqlIdempotencyStorage).                        *)
(*                                                                         *)
(* Every mutating operation of the control plane is bracketed by them:     *)
(*   begin -> EXECUTE | REPLAY | 409,  handler,  complete or delete.       *)
(* The bracket runs OUTSIDE the board mutex and each storage call is one   *)
(* autocommitted statement, so the statements of concurrent requests       *)
(* interleave freely.  A call of the model is one client request; its pc   *)
(* is the storage statement it awaits next.                                *)
(***************************************************************************)
EXTENDS Integers, FiniteSets

CONSTANTS
    Calls,      \* client requests, each sent once (a retry is another call)
    Scopes,     \* scope hashes: actor + board + endpoint + key
    Hashes,     \* canonical request hashes
    RunIds,     \* run ids a request may bind (register_run binds one)
    NoRun,      \* a request that binds no run id
    NoRecord,   \* no row in control_plane_idempotency
    NoCall,     \* no response yet
    TTL,        \* IDEMPOTENCY_TTL_MS, in clock ticks
    MaxAge,     \* bound: a call ends before it is MaxAge ticks old
    MaxTime     \* bound on the clock

ASSUME NoRunAssumption == NoRun \notin RunIds
ASSUME NoCallAssumption == NoCall \notin Calls
ASSUME TimeAssumption == TTL \in Nat \ {0} /\ MaxAge \in Nat /\ MaxTime \in Nat

VARIABLES
    table,      \* scope -> its row, or NoRecord
    req,        \* call -> the request it carries
    pc,         \* call -> the statement it is about to issue
    start,      \* call -> opts.nowMs, read once when the request arrives
    answer,     \* call -> the call whose recorded response it was replayed
    now,        \* the clock
    effect,     \* history: the calls whose handler took effect
    cleared     \* history: the scopes that lost a row which had expired, or whose
                \* response could not be recorded

vars == <<table, req, pc, start, answer, now, effect, cleared>>

Requests == [scope : Scopes, hash : Hashes, run : RunIds \cup {NoRun}]

Record == [owner : Calls, hash : Hashes, run : RunIds \cup {NoRun},
           inProgress : BOOLEAN, resp : Calls \cup {NoCall}, expires : Int]

ASSUME NoRecordAssumption == NoRecord \notin Record

Beginning == {"byRun", "get", "clear", "insert", "reread",
              "reclear", "reinsert", "lost"}
Executing == {"execute", "complete", "cleanup"}
Final     == {"done", "failed", "replayed", "busy", "conflict", "error", "crashed"}
Phases    == {"new"} \cup Beginning \cup Executing \cup Final

Running(c) == pc[c] \in Beginning \cup Executing

\* The row whose run_id column holds r (uq board_id, run_id).
BoundTo(r) == {s \in Scopes : table[s] # NoRecord /\ table[s].run = r}

Expired(rec, c) == rec.expires <= start[c]

(***************************************************************************)
(* The steps of one call.                                                  *)
(***************************************************************************)
Goto(c, phase) == pc' = [pc EXCEPT ![c] = phase]

\* Where beginIdempotent starts, and starts over when it loses a race.
FirstPhase(c) == IF req[c].run # NoRun THEN "byRun" ELSE "get"

Arrive(c) ==
    /\ pc[c] = "new"
    /\ start' = [start EXCEPT ![c] = now]
    /\ Goto(c, FirstPhase(c))
    /\ UNCHANGED <<table, req, answer, now, effect, cleared>>

\* getByRunId: the run id must not belong to another scope, nor to a completed
\* request of this scope with another body.
RunConflict(c) ==
    \E s \in BoundTo(req[c].run) :
        \/ s # req[c].scope
        \/ table[s].hash # req[c].hash /\ ~table[s].inProgress

CheckRun(c) ==
    /\ pc[c] = "byRun"
    /\ Goto(c, IF RunConflict(c) THEN "conflict" ELSE "get")
    /\ UNCHANGED <<table, req, start, answer, now, effect, cleared>>

\* Mutant: a refused request runs the handlers' catch block, which deletes the row.
VerdictThatCleansUp(c, rec) ==
    IF rec.hash # req[c].hash THEN "cleanup"
    ELSE IF rec.inProgress THEN "busy" ELSE "replayed"

\* The verdict on a row that has not expired: both in the first read and after
\* a lost insert.
Verdict(c, rec) ==
    IF rec.hash # req[c].hash THEN "conflict"
    ELSE IF rec.inProgress THEN "busy" ELSE "replayed"

\* Mutant: the row is handed back instead of the response it holds.
AnswerWithTheRow(c, rec) ==
    /\ Goto(c, Verdict(c, rec))
    /\ answer' = IF Verdict(c, rec) = "replayed"
                 THEN [answer EXCEPT ![c] = rec]
                 ELSE answer

Answer(c, rec) ==
    /\ Goto(c, Verdict(c, rec))
    /\ answer' = IF Verdict(c, rec) = "replayed"
                 THEN [answer EXCEPT ![c] = rec.resp]
                 ELSE answer

ReadScope(c) ==
    LET rec == table[req[c].scope] IN
    /\ pc[c] = "get"
    /\ \/ /\ rec = NoRecord
          /\ Goto(c, "insert")
          /\ UNCHANGED answer
       \/ /\ rec # NoRecord
          /\ Expired(rec, c)
          /\ Goto(c, "clear")
          /\ UNCHANGED answer
       \/ /\ rec # NoRecord
          /\ ~Expired(rec, c)
          /\ Answer(c, rec)
    /\ UNCHANGED <<table, req, start, now, effect, cleared>>

\* DELETE ... WHERE scope_hash=?: whatever row is there by now.
ClearExpired(c) ==
    /\ pc[c] \in {"clear", "reclear"}
    /\ table' = [table EXCEPT ![req[c].scope] = NoRecord]
    /\ cleared' = cleared \cup {req[c].scope}
    /\ Goto(c, IF pc[c] = "clear" THEN "insert" ELSE "reinsert")
    /\ UNCHANGED <<req, start, answer, now, effect>>

NewRecord(c) ==
    [owner |-> c, hash |-> req[c].hash, run |-> req[c].run,
     inProgress |-> TRUE, resp |-> NoCall, expires |-> start[c] + TTL]

\* Mutant: an upsert in place of the plain INSERT.
TakenUnderUpsert(c) ==
    req[c].run # NoRun /\ BoundTo(req[c].run) \ {req[c].scope} # {}

\* Mutant: no unique index on (board_id, run_id).
TakenByScopeOnly(c) == table[req[c].scope] # NoRecord

\* INSERT: refused by the primary key or by the unique run id.
Taken(c) ==
    \/ table[req[c].scope] # NoRecord
    \/ req[c].run # NoRun /\ BoundTo(req[c].run) # {}

Insert(c) ==
    /\ pc[c] \in {"insert", "reinsert"}
    /\ \/ /\ ~Taken(c)
          /\ table' = [table EXCEPT ![req[c].scope] = NewRecord(c)]
          /\ Goto(c, "execute")
       \/ /\ Taken(c)
          /\ Goto(c, IF pc[c] = "insert" THEN "reread" ELSE "lost")
          /\ UNCHANGED table
    /\ UNCHANGED <<req, start, answer, now, effect, cleared>>

\* After ER_DUP_ENTRY putIfAbsent returns get(scope) ?? getByRunId(run).
Blocking(c) ==
    IF table[req[c].scope] # NoRecord THEN {req[c].scope}
    ELSE IF req[c].run # NoRun THEN BoundTo(req[c].run) ELSE {}

\* The row that refused the insert may be gone again: the driver error is rethrown.
Vanished(c) ==
    /\ pc[c] \in {"reread", "lost"}
    /\ Blocking(c) = {}
    /\ Goto(c, "error")
    /\ UNCHANGED <<table, req, start, answer, now, effect, cleared>>

Reread(c) ==
    /\ pc[c] = "reread"
    /\ \E s \in Blocking(c) :
          \/ /\ Expired(table[s], c)
             /\ Goto(c, "reclear")
             /\ UNCHANGED answer
          \/ /\ ~Expired(table[s], c)
             /\ Answer(c, table[s])
    /\ UNCHANGED <<table, req, start, now, effect, cleared>>

\* "concurrent winner": beginIdempotent calls itself again.
Restart(c) ==
    /\ pc[c] = "lost"
    /\ Blocking(c) # {}
    /\ Goto(c, FirstPhase(c))
    /\ UNCHANGED <<table, req, start, answer, now, effect, cleared>>

\* The handler of an EXECUTE verdict: it takes effect, or throws.
HandlerSucceeds(c) ==
    /\ pc[c] = "execute"
    /\ effect' = effect \cup {c}
    /\ Goto(c, "complete")
    /\ UNCHANGED <<table, req, start, answer, now, cleared>>

HandlerFails(c) ==
    /\ pc[c] = "execute"
    /\ Goto(c, "cleanup")
    /\ UNCHANGED <<table, req, start, answer, now, effect, cleared>>

\* Mutant: complete patches the response but not the request hash.
RecordedKeepingHash(c) ==
    LET s == req[c].scope IN
    IF table[s] = NoRecord THEN table
    ELSE [table EXCEPT ![s] = [table[s] EXCEPT !.inProgress = FALSE, !.resp = c]]

\* UPDATE ... WHERE scope_hash=?: no row, no effect.
Recorded(c) ==
    LET s == req[c].scope IN
    IF table[s] = NoRecord THEN table
    ELSE [table EXCEPT ![s] = [table[s] EXCEPT
             !.hash = req[c].hash, !.inProgress = FALSE, !.resp = c]]

Complete(c) ==
    /\ pc[c] = "complete"
    /\ table' = Recorded(c)
    /\ Goto(c, "done")
    /\ UNCHANGED <<req, start, answer, now, effect, cleared>>

\* The UPDATE is answered by an error, whether or not it was carried out: the
\* handlers' catch block takes that for a failed handler.
RecordFails(c) ==
    /\ pc[c] = "complete"
    /\ table' \in {table, Recorded(c)}
    /\ cleared' = cleared \cup {req[c].scope}
    /\ Goto(c, "cleanup")
    /\ UNCHANGED <<req, start, answer, now, effect>>

\* A handler that threw deletes the row of its scope so that a retry may run.
Cleanup(c) ==
    /\ pc[c] = "cleanup"
    /\ table' = [table EXCEPT ![req[c].scope] = NoRecord]
    /\ Goto(c, "failed")
    /\ UNCHANGED <<req, start, answer, now, effect, cleared>>

\* The process dies, or the handler throws an error whose catch block keeps
\* the row (register_run after a persistence error): the row stays as it is.
Crash(c) ==
    /\ Running(c)
    /\ Goto(c, "crashed")
    /\ UNCHANGED <<table, req, start, answer, now, effect, cleared>>

\* MaxAge = TTL says that no request runs for the 24 hours a row lives; a larger
\* MaxAge lets a row expire under the request that inserted it.
Tick ==
    /\ now < MaxTime
    /\ \A c \in Calls : Running(c) => now + 1 < start[c] + MaxAge
    /\ now' = now + 1
    /\ UNCHANGED <<table, req, pc, start, answer, effect, cleared>>

Step(c) ==
    \/ CheckRun(c) \/ ReadScope(c) \/ ClearExpired(c) \/ Insert(c)
    \/ Vanished(c) \/ Reread(c) \/ Restart(c)
    \/ HandlerSucceeds(c) \/ HandlerFails(c) \/ Complete(c)
    \/ RecordFails(c) \/ Cleanup(c)

Init ==
    /\ table = [s \in Scopes |-> NoRecord]
    /\ req \in [Calls -> Requests]
    /\ pc = [c \in Calls |-> "new"]
    /\ start = [c \in Calls |-> 0]
    /\ answer = [c \in Calls |-> NoCall]
    /\ now = 0
    /\ effect = {}
    /\ cleared = {}

Next == Tick \/ \E c \in Calls : Arrive(c) \/ Step(c) \/ Crash(c)

Spec == Init /\ [][Next]_vars

(***************************************************************************)
(* Properties                                                              *)
(***************************************************************************)
\* Every variable has its type.
TypeOK ==
    /\ table \in [Scopes -> Record \cup {NoRecord}]
    /\ req \in [Calls -> Requests]
    /\ pc \in [Calls -> Phases]
    /\ start \in [Calls -> Nat]
    /\ answer \in [Calls -> Calls \cup {NoCall}]
    /\ now \in Nat
    /\ effect \in SUBSET Calls
    /\ cleared \in SUBSET Scopes

\* The handler of c is running, or has run: nobody else may run it again.
Spent(c) == pc[c] \in Executing \/ c \in effect

\* Exactly-once: as long as no row of the scope expired, and no response of it
\* could not be recorded, at most one of all the requests sent under it runs its
\* handler with effect, however they interleave, fail, crash or are retried
\* (beginIdempotent's EXECUTE verdict).
ExactlyOncePerScope ==
    \A c, d \in Calls :
        /\ req[c].scope = req[d].scope /\ req[c].scope \notin cleared
        /\ Spent(c) /\ Spent(d)
        => c = d

\* A run id is bound once: two requests under different keys cannot both
\* register it (the getByRunId check backed by the unique index).
RunIdBoundOnce ==
    \A c, d \in Calls :
        /\ req[c].run = req[d].run /\ req[c].run # NoRun
        /\ {req[c].scope, req[d].scope} \cap cleared = {}
        /\ Spent(c) /\ Spent(d)
        => c = d

\* A replayed response is one that a handler run produced for the same request
\* body, even when rows were expired, deleted and re-inserted under the reader.
ReplayIsFaithful ==
    \A c \in Calls : pc[c] = "replayed" =>
        /\ answer[c] \in effect
        /\ req[answer[c]].hash = req[c].hash

\* A request that was answered 200 is on record: until the row expires, its
\* retries find it (no other request's cleanup removes a completed row).
CompletedIsRecorded ==
    \A c \in Calls :
        pc[c] = "done" /\ req[c].scope \notin cleared
        => /\ table[req[c].scope] # NoRecord
           /\ table[req[c].scope].resp = c
           /\ ~table[req[c].scope].inProgress

\* What the module comment promises without a word about expiry: one executor
\* per scope at any time.
OneExecutorPerScope ==
    \A c, d \in Calls :
        /\ req[c].scope = req[d].scope
        /\ pc[c] \in Executing /\ pc[d] \in Executing
        => c = d

=============================================================================
