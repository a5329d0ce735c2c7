------------------------------- MODULE Store -------------------------------
(* Postgres.Evaluate, called by Processor.HandleTransaction from many worker *)
(* goroutines of many replicas at once.  Each call is one READ COMMITTED     *)
(* transaction, and a statement of it is one step; only the first INSERT,    *)
(* which meets the keys of the other calls, is taken apart into what it does *)
(* to each key.  A record is delivered any number of times, to any sessions, *)
(* also to two of them together (a partition that moved).  All events are of *)
(* one account: others share nothing but the unique keys.                    *)
EXTENDS Integers

CONSTANTS Events,    \* transaction events on the topic
          TxOf,      \* TxOf[e]: the transaction_id of e, the idempotency key
          IdOf,      \* IdOf[e]: the event_id of e
          When,      \* When[e]: occurred_at of e
          Malformed, \* events that do not decode or validate
          Sessions   \* handler calls that can be in progress at once

ASSUME StoreAssumption ==
  /\ Malformed \subseteq Events
  /\ When \in [Events -> Int]

VARIABLES
  \* committed rows
  transactions, \* the events whose rows are in the table
  assessments,  \* [event, history, before]: the event assessed, the rows its
                \* features were computed from, and (history variable) the
                \* rows that were committed when its handler was called
  outbox,       \* events whose assessment has an outbox row
  \* calls
  session,      \* session[s]: where the call is, and what it has read
  answers       \* answers[e]: how HandleTransaction has ended for e, retries
                \* apart (history variable)

tables == <<transactions, assessments, outbox>>
vars == <<tables, session, answers>>

Steps == {"decode", "insert", "key", "event", "clash", "lookup",
          "history", "assess", "publish", "commit", "cancelled", "rollback"}
Free == [at |-> "free"]
Calls == [at : Steps, event : Events, history : SUBSET Events, before : SUBSET Events]

TypeOK ==
  /\ transactions \subseteq Events
  /\ assessments \subseteq
       [event : Events, history : SUBSET Events, before : SUBSET Events]
  /\ outbox \subseteq Events
  /\ session \in [Sessions -> Calls \cup {Free}]
  /\ answers \in [Events -> SUBSET {"ok", "rejected"}]

Init ==
  /\ transactions = {}
  /\ assessments = {}
  /\ outbox = {}
  /\ session = [s \in Sessions |-> Free]
  /\ answers = [e \in Events |-> {}]

-----------------------------------------------------------------------------
At(s, step) == session[s].at = step
Event(s) == session[s].event

(* The entries that the row of s has in the indexes of transaction_id and of *)
(* event_id, while its database transaction is open.                         *)
HoldsEvent(s) == session[s].at \in {"history", "assess", "publish", "commit", "rollback"}
HoldsKey(s) == HoldsEvent(s) \/ session[s].at \in {"event", "clash", "cancelled"}

SameTx(e, f) == TxOf[e] = TxOf[f]
SameId(e, f) == IdOf[e] = IdOf[f]

GoTo(s, step) == session' = [session EXCEPT ![s].at = step]

(* The call ends, and with it its database transaction. *)
Answer(s, answer) ==
  /\ session' = [session EXCEPT ![s] = Free]
  /\ answers' = [answers EXCEPT ![Event(s)] = @ \cup {answer}]

(* A record reaches a handler: the first time, or again. *)
Deliver(s, e) ==
  /\ session[s] = Free
  /\ session' = [session EXCEPT ![s] = [at |-> "decode", event |-> e,
                                        history |-> {}, before |-> transactions]]
  /\ UNCHANGED <<tables, answers>>

(* Mistaken variant: an event that does not decode is ignored. *)
DecodeIgnores(s) ==
  /\ At(s, "decode")
  /\ IF Event(s) \in Malformed
     THEN Answer(s, "ignored")
     ELSE GoTo(s, "insert") /\ UNCHANGED answers
  /\ UNCHANGED tables

Decode(s) ==
  /\ At(s, "decode")
  /\ IF Event(s) \in Malformed
     THEN Answer(s, "rejected")
     ELSE GoTo(s, "insert") /\ UNCHANGED answers
  /\ UNCHANGED tables

(* INSERT ... ON CONFLICT (transaction_id) DO NOTHING begins by looking for  *)
(* the transaction_id, and waits for a transaction that holds an entry of it *)
(* to end.  It holds nothing itself, not even what it has found.             *)
CheckKey(s) ==
  /\ At(s, "insert")
  /\ IF \E r \in transactions : SameTx(r, Event(s))
     THEN GoTo(s, "lookup")
     ELSE /\ ~\E t \in Sessions \ {s} : HoldsKey(t) /\ SameTx(Event(t), Event(s))
          /\ GoTo(s, "key")
  /\ UNCHANGED <<tables, answers>>

KeyTaken(s) ==
  \/ \E r \in transactions : SameTx(r, Event(s))
  \/ \E t \in Sessions \ {s} : HoldsKey(t) /\ SameTx(Event(t), Event(s))

(* Mistaken variant: a SELECT for the key and then an INSERT without it. *)
EnterKeyAnyway(s) ==
  /\ At(s, "key")
  /\ GoTo(s, "event")
  /\ UNCHANGED <<tables, answers>>

(* The row enters the index of transaction_id, without waiting.  If it meets *)
(* an entry that was not there before, this is only noted.                   *)
EnterKey(s) ==
  /\ At(s, "key")
  /\ GoTo(s, IF KeyTaken(s) THEN "clash" ELSE "event")
  /\ UNCHANGED <<tables, answers>>

(* Then the index of event_id, which ON CONFLICT does not name: another      *)
(* entry makes it wait, and one that is committed is a unique violation even *)
(* if it is that of the same event, delivered twice.  A row that has met its *)
(* transaction_id before is taken out again, and the statement starts again. *)
EnterEvent(s) ==
  /\ At(s, "event") \/ At(s, "clash")
  /\ ~\E t \in Sessions \ {s} : HoldsEvent(t) /\ SameId(Event(t), Event(s))
  /\ IF \E r \in transactions : SameId(r, Event(s))
     THEN Answer(s, "rejected")
     ELSE /\ GoTo(s, IF At(s, "clash") THEN "insert" ELSE "history")
          /\ UNCHANGED answers
  /\ UNCHANGED tables

(* Zero rows inserted: a redelivery, if the assessment is there. *)
Lookup(s) ==
  /\ At(s, "lookup")
  /\ Answer(s, IF \E a \in assessments : SameTx(a.event, Event(s)) THEN "ok" ELSE "rejected")
  /\ UNCHANGED tables

(* Mistaken variant: occurred_at <= the event's, which its own row satisfies. *)
ReadHistoryUpToNow(s) ==
  /\ At(s, "history")
  /\ session' = [session EXCEPT
       ![s].at = "assess",
       ![s].history = {r \in transactions \cup {Event(s)} : When[r] <= When[Event(s)]}]
  /\ UNCHANGED <<tables, answers>>

(* The statement sees what is committed by now, and its own row. *)
ReadHistory(s) ==
  /\ At(s, "history")
  /\ session' = [session EXCEPT
       ![s].at = "assess",
       ![s].history = {r \in transactions \cup {Event(s)} : When[r] < When[Event(s)]}]
  /\ UNCHANGED <<tables, answers>>

(* Mistaken variant: the statement runs on the pool, not in the transaction. *)
InsertAssessmentOnPool(s) ==
  /\ At(s, "assess")
  /\ assessments' = assessments \cup
       {[event |-> Event(s), history |-> session[s].history, before |-> session[s].before]}
  /\ GoTo(s, "publish")
  /\ UNCHANGED <<transactions, outbox, answers>>

(* Both rows have a key of their own, made of the transaction_id. *)
InsertAssessment(s) ==
  /\ At(s, "assess")
  /\ IF \E a \in assessments : SameTx(a.event, Event(s))
     THEN Answer(s, "rejected")
     ELSE GoTo(s, "publish") /\ UNCHANGED answers
  /\ UNCHANGED tables

InsertOutbox(s) ==
  /\ At(s, "publish")
  /\ IF \E r \in outbox : SameTx(r, Event(s))
     THEN Answer(s, "rejected")
     ELSE GoTo(s, "commit") /\ UNCHANGED answers
  /\ UNCHANGED tables

(* The three rows become visible together. *)
RowsCommit(s) ==
  /\ transactions' = transactions \cup {Event(s)}
  /\ assessments' = assessments \cup
       {[event |-> Event(s), history |-> session[s].history, before |-> session[s].before]}
  /\ outbox' = outbox \cup {Event(s)}

Commit(s) == At(s, "commit") /\ RowsCommit(s) /\ Answer(s, "ok")

(* The reply to COMMIT is lost, after it was executed: the caller retries. *)
CommitUnknown(s) ==
  /\ At(s, "commit")
  /\ RowsCommit(s)
  /\ session' = [session EXCEPT ![s] = Free]
  /\ UNCHANGED answers

Running(s) == session[s].at \in Steps \ {"cancelled", "rollback"}

(* Mistaken variant: the error of a failed statement is swallowed. *)
FailUnnoticed(s) ==
  /\ Running(s)
  /\ Answer(s, "ok")
  /\ UNCHANGED tables

(* Mistaken variant: every failure of the database is unprocessable. *)
FailForGood(s) ==
  /\ Running(s)
  /\ Answer(s, "rejected")
  /\ UNCHANGED tables

(* Any statement fails, the context ends, or the process dies: the record    *)
(* comes again, perhaps before the server knows that the transaction is over.*)
Fail(s) ==
  /\ Running(s)
  /\ IF HoldsKey(s)
     THEN GoTo(s, IF HoldsEvent(s) THEN "rollback" ELSE "cancelled")
     ELSE session' = [session EXCEPT ![s] = Free]
  /\ UNCHANGED <<tables, answers>>

(* Mistaken variant: without the deferred Rollback, only a connection that   *)
(* was cut while a statement waited ends its transaction.                    *)
RollbackNever(s) ==
  /\ At(s, "cancelled") \/ At(s, "rollback")
  /\ session' = IF At(s, "cancelled") THEN [session EXCEPT ![s] = Free] ELSE session
  /\ UNCHANGED <<tables, answers>>

(* The deferred Rollback, or the end of the connection. *)
Rollback(s) ==
  /\ At(s, "cancelled") \/ At(s, "rollback")
  /\ session' = [session EXCEPT ![s] = Free]
  /\ UNCHANGED <<tables, answers>>

Step(s) ==
  \/ Decode(s) \/ CheckKey(s) \/ EnterKey(s) \/ EnterEvent(s) \/ Lookup(s)
  \/ ReadHistory(s) \/ InsertAssessment(s) \/ InsertOutbox(s)
  \/ Commit(s) \/ CommitUnknown(s) \/ Rollback(s)

Next == \E s \in Sessions : \/ \E e \in Events : Deliver(s, e)
                            \/ Step(s) \/ Fail(s)

Spec == Init /\ [][Next]_vars

(* A statement returns and a transaction ends.  One that waits is not        *)
(* overtaken for ever when what it waits for ends again and again, and the   *)
(* INSERT does not meet a new entry each time between its look and its entry.*)
FairSpec ==
  Spec /\ \A s \in Sessions : /\ WF_vars(Step(s))
                             /\ SF_vars(CheckKey(s))
                             /\ SF_vars(EnterKey(s) /\ ~KeyTaken(s))
                             /\ SF_vars(EnterEvent(s))

-----------------------------------------------------------------------------
(* A transaction row, its assessment and its outbox row exist together or    *)
(* not at all, and one of each per transaction and per event_id, although    *)
(* calls for one transaction overlap, fail half way and are repeated.        *)
AllOrNothing ==
  /\ outbox = transactions
  /\ transactions = {a.event : a \in assessments}
  /\ \A a, b \in assessments : SameTx(a.event, b.event) \/ SameId(a.event, b.event) => a = b

(* The offset of an event is committed only if its transaction has been      *)
(* assessed: nil from HandleTransaction survives every later failure.        *)
AcknowledgedIsAssessed ==
  \A e \in Events : "ok" \in answers[e] => \E a \in assessments : SameTx(a.event, e)

(* An event is dead-lettered only if it is malformed or if its event_id is   *)
(* stored with an assessment for good: that of another transaction, or its   *)
(* own that an overlapping delivery has stored, so that no good event is     *)
(* dead-lettered in place of its assessment, because of a call that is in    *)
(* progress, was rolled back or has failed.                                  *)
RejectedForGood ==
  \A e \in Events : "rejected" \in answers[e] =>
    e \in Malformed \/ \E a \in assessments : SameId(a.event, e)

(* The features of an assessment are computed from committed rows of earlier *)
(* events, never its own row; and no earlier event is missing that had been  *)
(* assessed when the handler was called, which is what in-order delivery     *)
(* within a partition is for.                                                *)
HistoryIsPast ==
  \A a \in assessments :
    LET earlier == {r \in Events : When[r] < When[a.event]}
    IN  a.before \cap earlier \subseteq a.history /\ a.history \subseteq transactions \cap earlier

(* Features are "independent of arrival order": an assessment has seen every *)
(* stored row of an earlier event.                                           *)
ArrivalOrderIndependent ==
  \A a \in assessments : a.history = {r \in transactions : When[r] < When[a.event]}

(* Calls step as scoring promises. *)
Promise ==
  INSTANCE IdempotentScoring
  WITH assessed <- {[event |-> a.event, history |-> a.history] : a \in assessments}
PromiseKept == Promise!Spec

(* No INSERT waits for ever: although a call that waits for an event_id      *)
(* holds a transaction_id that others wait for, and calls fail with both in  *)
(* their hands, what it waits for is given back.                             *)
Inserting(s) == session[s].at \in {"insert", "key", "event", "clash"}
InsertReturns == \A s \in Sessions : Inserting(s) ~> ~Inserting(s)
=============================================================================
