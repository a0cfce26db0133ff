---------------------------- MODULE DecisionInbox ----------------------------
(***************************************************************************)
(* The decisions of a board (decisions-v3.ts over the MySQL store):        *)
(* open_decision_v3, acknowledge, snooze, resolve, reject, and the list    *)
(* that expires what is due.                                               *)
(*                                                                         *)
(* Opening and answering work under a named lock of their own: check, bump *)
(* the board revision, write the decision.  Answering does not look at the *)
(* date.  The list writes the copies it read back as EXPIRED, without the  *)
(* lock.                                                                   *)
(***************************************************************************)
EXTENDS BoardClock

CONSTANTS
    Decisions, NoDecision,  \* decision ids; no row
    Blocking,               \* decisions that cannot be snoozed
    Listers,                \* requests that list
    NoDeed                  \* nobody holds the decision lock

VARIABLES
    decision,       \* control_plane_decisions: id -> its row
    deed,           \* what the holder of the decision lock is doing
    expiring,       \* lister -> ids and rows it is about to write back
    answers         \* history: decision -> answers given

inbox == <<decision, deed, expiring, answers>>

PendingStates == {"OPEN", "ACKNOWLEDGED"}
AnswerStates == {"RESOLVED", "REJECTED"}

DecisionRow ==
    [status : PendingStates \cup AnswerStates \cup {"EXPIRED"}, due : 1..Never,
     snoozed : BOOLEAN, rev : Nat \ {0}, at : Nat]

Deeds == [id : Decisions, step : {"bump", "read", "put"}, row : DecisionRow]

ASSUME DecisionAssumption == NoDecision \notin DecisionRow

IsPending(row) == row.status \in PendingStates

\* openDecisionV3.
Open(d, due) ==
    /\ Spend
    /\ deed = NoDeed
    /\ decision[d] = NoDecision
    /\ deed' = [id |-> d, step |-> "bump",
                row |-> [status |-> "OPEN", due |-> due, snoozed |-> FALSE, rev |-> 1, at |-> 0]]
    /\ UNCHANGED <<board, now, troubles, decision, expiring, answers>>

\* mutateDecision: the change, made to the row as it was read.
Mutate(d, change) ==
    /\ Spend
    /\ deed = NoDeed
    /\ decision[d] # NoDecision
    /\ deed' = [id |-> d, step |-> "bump", row |-> [change EXCEPT !.rev = decision[d].rev + 1]]
    /\ UNCHANGED <<board, now, troubles, decision, expiring, answers>>

Acknowledge(d) ==
    /\ decision[d] # NoDecision /\ decision[d].status = "OPEN"
    /\ Mutate(d, [decision[d] EXCEPT !.status = "ACKNOWLEDGED"])

Snooze(d) ==
    /\ decision[d] # NoDecision /\ IsPending(decision[d])
    /\ d \notin Blocking
    /\ Mutate(d, [decision[d] EXCEPT !.snoozed = TRUE])

\* Mutant: an answer may be given until the decision has expired.
Unexpired(row) == row.status # "EXPIRED"

Answerable(row) == IsPending(row)

\* resolve and reject.
Answer(d, s) ==
    /\ decision[d] # NoDecision /\ Answerable(decision[d])
    /\ Mutate(d, [decision[d] EXCEPT !.status = s, !.snoozed = FALSE])

Step(s) == deed # NoDeed /\ deed.step = s

BumpForDecision ==
    /\ Step("bump")
    /\ Raise
    /\ deed' = [deed EXCEPT !.step = "read"]
    /\ UNCHANGED <<now, left, troubles, decision, expiring, answers>>

ReadForDecision ==
    /\ Step("read")
    /\ ReadBack
    /\ deed' = [deed EXCEPT !.step = "put", !.row.at = rev]
    /\ UNCHANGED <<now, left, troubles, decision, expiring, answers>>

PutDecision ==
    /\ Step("put")
    /\ decision' = [decision EXCEPT ![deed.id] = deed.row]
    /\ answers' = IF deed.row.status \in AnswerStates
                  THEN [answers EXCEPT ![deed.id] = @ + 1] ELSE answers
    /\ deed' = NoDeed
    /\ UNCHANGED <<clock, expiring>>

\* A statement fails; a bump that was made stays.
CutDecision ==
    /\ Fail
    /\ deed # NoDeed
    /\ deed' = NoDeed
    /\ Release(Step("read"))
    /\ UNCHANGED <<now, left, decision, expiring, answers>>

(***************************************************************************)
(* listDecisionsV3.                                                        *)
(***************************************************************************)
Listed == {d \in Decisions : decision[d] # NoDecision /\ IsPending(decision[d]) /\ Due(decision[d])}

Expired(row) == [row EXCEPT !.status = "EXPIRED", !.rev = @ + 1]

List(v) ==
    /\ Spend
    /\ expiring[v] = {}
    /\ expiring' = [expiring EXCEPT ![v] = {[id |-> d, row |-> Expired(decision[d])] : d \in Listed}]
    /\ UNCHANGED <<board, now, troubles, decision, deed, answers>>

Expire(v, e) ==
    /\ e \in expiring[v]
    /\ decision' = [decision EXCEPT ![e.id] = e.row]
    /\ expiring' = [expiring EXCEPT ![v] = @ \ {e}]
    /\ UNCHANGED <<clock, deed, answers>>

InboxInit ==
    /\ decision = [d \in Decisions |-> NoDecision]
    /\ deed = NoDeed
    /\ expiring = [v \in Listers |-> {}]
    /\ answers = [d \in Decisions |-> 0]

(***************************************************************************)
(* Properties                                                              *)
(***************************************************************************)
\* What the table and its writers hold.
InboxTypeOK ==
    /\ decision \in [Decisions -> DecisionRow \cup {NoDecision}]
    /\ expiring \in [Listers -> SUBSET [id : Decisions, row : DecisionRow]]
    /\ answers \in [Decisions -> Nat]
    /\ deed \in Deeds \cup {NoDeed}

\* A decision is answered once, whoever lists it meanwhile and whatever fails:
\* a list may write over an answer, but never makes it pending again.
AnsweredOnce == \A d \in Decisions : answers[d] <= 1
=============================================================================
