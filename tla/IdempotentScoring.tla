------------------------- MODULE IdempotentScoring -------------------------
(* What scoring promises, with no database in it: a transaction is assessed  *)
(* once, from rows of earlier transactions, and an event is acknowledged     *)
(* only when its transaction has been assessed, and rejected only when it    *)
(* can never be, or when the event has been assessed already.                *)
EXTENDS Integers

CONSTANTS Events,    \* transaction events on the topic
          TxOf,      \* TxOf[e]: the transaction_id of e, the idempotency key
          IdOf,      \* IdOf[e]: the event_id of e
          When,      \* When[e]: occurred_at of e
          Malformed  \* events that do not decode or validate

VARIABLES assessed,  \* records [event, history]
          answers    \* answers[e]: the answers given for e

vars == <<assessed, answers>>

Earlier(e) == {r \in Events : When[r] < When[e]}

Init ==
  /\ assessed = {}
  /\ answers = [e \in Events |-> {}]

(* e is assessed, from assessed events only; the caller may not hear of it.  *)
Assess(e) ==
  /\ e \notin Malformed
  /\ \A a \in assessed : TxOf[a.event] # TxOf[e] /\ IdOf[a.event] # IdOf[e]
  /\ \E past \in SUBSET (Earlier(e) \cap {a.event : a \in assessed}) :
       assessed' = assessed \cup {[event |-> e, history |-> past]}
  /\ answers' \in {answers, [answers EXCEPT ![e] = @ \cup {"ok"}]}

Acknowledge(e) ==
  /\ \E a \in assessed : TxOf[a.event] = TxOf[e]
  /\ answers' = [answers EXCEPT ![e] = @ \cup {"ok"}]
  /\ UNCHANGED assessed

Reject(e) ==
  /\ \/ e \in Malformed
     \/ \E a \in assessed : IdOf[a.event] = IdOf[e]
  /\ answers' = [answers EXCEPT ![e] = @ \cup {"rejected"}]
  /\ UNCHANGED assessed

Next == \E e \in Events : Assess(e) \/ Acknowledge(e) \/ Reject(e)

Spec == Init /\ [][Next]_vars
=============================================================================
