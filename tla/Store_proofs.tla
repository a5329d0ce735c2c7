---------------------------- MODULE Store_proofs ----------------------------
(* Theorems about Store, for every set of events, every reuse of their keys  *)
(* and any number of calls in progress.                                      *)
EXTENDS Store, TLAPS

-----------------------------------------------------------------------------
(* The inductive invariant                                                   *)

(* The steps of a call that is the only one to write its transaction_id, of  *)
(* one that is the only one to write its event_id too, and of one that has   *)
(* read its history.                                                         *)
Clean == {"event", "history", "assess", "publish", "commit"}
Open == {"history", "assess", "publish", "commit"}
Read == {"assess", "publish", "commit"}

EarlierThan(e) == {r \in Events : When[r] < When[e]}

(* What a call c may rely on when rows are the committed ones: its event is  *)
(* good, the keys that it alone writes are nobody's, a lookup will find a    *)
(* row, and its history is what it should have read.                         *)
CallOK(c, rows) ==
  /\ c.at \in Steps \ {"decode"} => c.event \notin Malformed
  /\ c.at \in Clean => \A r \in rows : ~SameTx(r, c.event)
  /\ c.at \in Open => \A r \in rows : ~SameId(r, c.event)
  /\ c.at = "lookup" => \E r \in rows : SameTx(r, c.event)
  /\ c.at \in Steps => c.before \subseteq rows
  /\ c.at \in Read => /\ c.before \cap EarlierThan(c.event) \subseteq c.history
                      /\ c.history \subseteq rows \cap EarlierThan(c.event)

SessionInv == \A s \in Sessions : CallOK(session[s], transactions)

(* The call c and another one do not write the same key to be committed.     *)
Apart(c, d) ==
  /\ c.at \in Clean /\ d.at \in Clean => ~SameTx(c.event, d.event)
  /\ c.at \in Open /\ d.at \in Open => ~SameId(c.event, d.event)

Exclusive == \A s, t \in Sessions : s # t => Apart(session[s], session[t])

(* Every answer has its grounds in the tables. *)
AnswersInv == AcknowledgedIsAssessed /\ RejectedForGood

IInv ==
  /\ TypeOK /\ SessionInv /\ Exclusive
  /\ AllOrNothing /\ AnswersInv /\ HistoryIsPast

-----------------------------------------------------------------------------
(* Calls                                                                     *)

(* What a session can hold. *)
LEMMA SessionFacts ==
  ASSUME TypeOK, NEW s \in Sessions
  PROVE  /\ session[s] = Free \/ session[s] \in Calls
         /\ session[s] # Free <=> session[s].at \in Steps
         /\ session[s] # Free => session[s] \in Calls
         /\ Free.at \notin Steps
<1>1. session[s] = Free \/ session[s] \in Calls BY DEF TypeOK
<1>2. Free.at = "free" BY DEF Free
<1>3. session[s] \in Calls => session[s].at \in Steps BY DEF Calls
<1> QED BY <1>1, <1>2, <1>3 DEF Steps

(* A call that has a step is a call on an event. *)
LEMMA CallFacts ==
  ASSUME TypeOK, NEW s \in Sessions, session[s].at \in Steps
  PROVE  /\ session[s] \in Calls
         /\ Event(s) \in Events
         /\ session[s].history \subseteq Events /\ session[s].before \subseteq Events
BY SessionFacts DEF Calls, Event

(* A call that goes to its next step. *)
LEMMA MovedCall ==
  ASSUME TypeOK, NEW s \in Sessions, session[s].at \in Steps, NEW step \in Steps
  PROVE  LET c == [session[s] EXCEPT !.at = step]
         IN  /\ c \in Calls /\ c.at = step /\ c.event = Event(s)
             /\ c.history = session[s].history /\ c.before = session[s].before
BY CallFacts DEF Calls, Event

(* One session changes: what it holds, and what all others hold. *)
LEMMA SetSession ==
  ASSUME TypeOK, NEW s \in Sessions, NEW c, session' = [session EXCEPT ![s] = c]
  PROVE  /\ session'[s] = c
         /\ \A t \in Sessions \ {s} : session'[t] = session[t]
         /\ c \in Calls \cup {Free} => session' \in [Sessions -> Calls \cup {Free}]
BY DEF TypeOK

(* A session that has ended relies on nothing. *)
LEMMA FreeOK == ASSUME NEW rows PROVE CallOK(Free, rows)
<1>1. Free.at = "free" BY DEF Free
<1> QED BY <1>1 DEF CallOK, Steps, Clean, Open, Read

(* A session may go on to c if what c relies on holds, and if no other one   *)
(* writes its keys.                                                          *)
LEMMA SessionStep ==
  ASSUME TypeOK, SessionInv, Exclusive, NEW s \in Sessions, NEW c \in Calls \cup {Free},
         session' = [session EXCEPT ![s] = c], UNCHANGED transactions,
         CallOK(c, transactions),
         \A t \in Sessions \ {s} : Apart(c, session[t])
  PROVE  /\ session' \in [Sessions -> Calls \cup {Free}]
         /\ SessionInv' /\ Exclusive'
<1>1. /\ session'[s] = c
      /\ \A t \in Sessions \ {s} : session'[t] = session[t]
      /\ session' \in [Sessions -> Calls \cup {Free}]
  BY SetSession
<1>2. SessionInv' BY <1>1 DEF SessionInv
<1>3. ASSUME NEW t \in Sessions, NEW u \in Sessions, t # u
      PROVE  Apart(session'[t], session'[u])
  <2>1. CASE t = s BY <1>1, <1>3, <2>1
  <2>2. CASE u = s BY <1>1, <1>3, <2>2 DEF Apart, SameTx, SameId
  <2>3. CASE t # s /\ u # s BY <1>1, <1>3, <2>3 DEF Exclusive
  <2> QED BY <2>1, <2>2, <2>3
<1>4. Exclusive' BY <1>3 DEF Exclusive, Apart, SameTx, SameId
<1> QED BY <1>1, <1>2, <1>4

(* A call at a step with no key of its own is apart from all others.         *)
LEMMA KeylessApart ==
  ASSUME NEW c, c.at \notin Clean
  PROVE  \A d : Apart(c, d)
BY DEF Apart, Clean, Open

(* A session that ends. *)
LEMMA SessionEnds ==
  ASSUME TypeOK, SessionInv, Exclusive, NEW s \in Sessions,
         session' = [session EXCEPT ![s] = Free], UNCHANGED transactions
  PROVE  /\ session' \in [Sessions -> Calls \cup {Free}]
         /\ SessionInv' /\ Exclusive'
<1>1. Free.at \notin Clean BY DEF Free, Clean
<1>2. Free \in Calls \cup {Free} OBVIOUS
<1> QED BY <1>1, <1>2, FreeOK, KeylessApart, SessionStep

-----------------------------------------------------------------------------
(* Answers                                                                   *)

(* An answer that is given with its grounds, while no row disappears. *)
LEMMA AnswerStep ==
  ASSUME TypeOK, AnswersInv, NEW e \in Events, NEW answer \in {"ok", "rejected"},
         answers' = [answers EXCEPT ![e] = @ \cup {answer}],
         transactions \subseteq transactions', assessments \subseteq assessments',
         answer = "ok" => \E a \in assessments' : SameTx(a.event, e),
         answer = "rejected" => \/ e \in Malformed
                                \/ \E a \in assessments' : SameId(a.event, e)
  PROVE  AnswersInv' /\ answers' \in [Events -> SUBSET {"ok", "rejected"}]
<1>1. /\ answers'[e] = answers[e] \cup {answer}
      /\ \A f \in Events \ {e} : answers'[f] = answers[f]
      /\ answers' \in [Events -> SUBSET {"ok", "rejected"}]
  BY DEF TypeOK
<1>2. AcknowledgedIsAssessed'
  <2>1. ASSUME NEW f \in Events, "ok" \in answers'[f]
        PROVE  \E a \in assessments' : SameTx(a.event, f)
    <3>1. CASE "ok" \in answers[f] BY <3>1 DEF AnswersInv, AcknowledgedIsAssessed
    <3>2. CASE "ok" \notin answers[f] BY <1>1, <2>1, <3>2
    <3> QED BY <3>1, <3>2
  <2> QED BY <2>1 DEF AcknowledgedIsAssessed, SameTx
<1>3. RejectedForGood'
  <2>1. ASSUME NEW f \in Events, "rejected" \in answers'[f]
        PROVE  f \in Malformed \/ \E a \in assessments' : SameId(a.event, f)
    <3>1. CASE "rejected" \in answers[f] BY <3>1 DEF AnswersInv, RejectedForGood
    <3>2. CASE "rejected" \notin answers[f] BY <1>1, <2>1, <3>2
    <3> QED BY <3>1, <3>2
  <2> QED BY <2>1 DEF RejectedForGood, SameId
<1> QED BY <1>1, <1>2, <1>3 DEF AnswersInv

(* No new answer, while no row disappears. *)
LEMMA NoAnswerStep ==
  ASSUME AnswersInv, UNCHANGED answers,
         transactions \subseteq transactions', assessments \subseteq assessments'
  PROVE  AnswersInv'
BY DEF AnswersInv, AcknowledgedIsAssessed, RejectedForGood, SameTx, SameId

(* What the tables alone decide. *)
LEMMA TablesStep ==
  ASSUME AllOrNothing, HistoryIsPast, UNCHANGED tables
  PROVE  AllOrNothing' /\ HistoryIsPast'
BY DEF AllOrNothing, HistoryIsPast, tables, SameTx, SameId

(* A step that moves one session and leaves tables and answers alone. *)
LEMMA QuietStep ==
  ASSUME IInv, NEW s \in Sessions, NEW c \in Calls \cup {Free},
         session' = [session EXCEPT ![s] = c], UNCHANGED <<tables, answers>>,
         CallOK(c, transactions),
         \A t \in Sessions \ {s} : Apart(c, session[t])
  PROVE  IInv'
<1>1. UNCHANGED <<transactions, assessments, outbox, answers>> BY DEF tables
<1>2. session' \in [Sessions -> Calls \cup {Free}] /\ SessionInv' /\ Exclusive'
  BY <1>1, SessionStep DEF IInv
<1>3. TypeOK' BY <1>1, <1>2 DEF IInv, TypeOK
<1>4. AnswersInv' BY <1>1, NoAnswerStep DEF IInv
<1>5. AllOrNothing' /\ HistoryIsPast' BY TablesStep DEF IInv
<1> QED BY <1>2, <1>3, <1>4, <1>5 DEF IInv

(* A step that ends a call with an answer, and leaves the tables alone. *)
LEMMA AnswerEnds ==
  ASSUME IInv, NEW s \in Sessions, session[s].at \in Steps,
         NEW answer \in {"ok", "rejected"}, Answer(s, answer), UNCHANGED tables,
         answer = "ok" => \E a \in assessments : SameTx(a.event, Event(s)),
         answer = "rejected" =>
           Event(s) \in Malformed \/ \E a \in assessments : SameId(a.event, Event(s))
  PROVE  IInv'
<1>1. UNCHANGED <<transactions, assessments, outbox>> BY DEF tables
<1>2. session' \in [Sessions -> Calls \cup {Free}] /\ SessionInv' /\ Exclusive'
  BY <1>1, SessionEnds DEF IInv, Answer
<1>3. PICK e \in Events : e = Event(s) BY CallFacts DEF IInv
<1>4. answers' = [answers EXCEPT ![e] = @ \cup {answer}] BY <1>3 DEF Answer
<1>5. /\ answer = "ok" => \E a \in assessments' : SameTx(a.event, e)
      /\ answer = "rejected" => e \in Malformed \/ \E a \in assessments' : SameId(a.event, e)
  BY <1>1, <1>3
<1>6. AnswersInv' /\ answers' \in [Events -> SUBSET {"ok", "rejected"}]
  BY <1>1, <1>4, <1>5, AnswerStep DEF IInv
<1>7. TypeOK' BY <1>1, <1>2, <1>6 DEF IInv, TypeOK
<1>8. AllOrNothing' /\ HistoryIsPast' BY TablesStep DEF IInv
<1> QED BY <1>2, <1>6, <1>7, <1>8 DEF IInv

-----------------------------------------------------------------------------
(* The steps                                                                 *)

(* The initial state satisfies the invariant. *)
LEMMA InitIInv == Init => IInv
<1> SUFFICES ASSUME Init PROVE IInv OBVIOUS
<1> USE DEF Init
<1>1. TypeOK BY DEF TypeOK
<1>2. SessionInv BY FreeOK DEF SessionInv
<1>3. Exclusive
  <2>1. Free.at \notin Clean BY DEF Free, Clean
  <2> QED BY <2>1, KeylessApart DEF Exclusive
<1>4. AllOrNothing BY DEF AllOrNothing
<1>5. AnswersInv BY DEF AnswersInv, AcknowledgedIsAssessed, RejectedForGood
<1>6. HistoryIsPast BY DEF HistoryIsPast
<1> QED BY <1>1, <1>2, <1>3, <1>4, <1>5, <1>6 DEF IInv

(* A step that changes nothing keeps the invariant. *)
LEMMA StutterIInv == IInv /\ UNCHANGED vars => IInv'
BY DEF IInv, vars, tables, TypeOK, SessionInv, Exclusive, Apart, AllOrNothing, AnswersInv,
       AcknowledgedIsAssessed, RejectedForGood, HistoryIsPast, SameTx, SameId

(* A delivery starts a call that has read nothing. *)
LEMMA DeliverIInv ==
  ASSUME IInv, NEW s \in Sessions, NEW e \in Events, Deliver(s, e)
  PROVE  IInv'
<1> DEFINE c == [at |-> "decode", event |-> e, history |-> {}, before |-> transactions]
<1>1. c \in Calls BY DEF IInv, TypeOK, Calls, Steps
<1>2. c.at = "decode" /\ c.before = transactions OBVIOUS
<1>3. session' = [session EXCEPT ![s] = c] /\ UNCHANGED <<tables, answers>> BY DEF Deliver
<1> HIDE DEF c
<1>4. CallOK(c, transactions) /\ c.at \notin Clean BY <1>2 DEF CallOK, Clean, Open, Read
<1> QED BY <1>1, <1>3, <1>4, KeylessApart, QuietStep

(* The keys of the call s are nobody else's.                                 *)
OwnKey(s) ==
  /\ \A r \in transactions : ~SameTx(r, Event(s))
  /\ \A t \in Sessions \ {s} : session[t].at \in Clean => ~SameTx(Event(s), Event(t))
OwnEvent(s) ==
  /\ \A r \in transactions : ~SameId(r, Event(s))
  /\ \A t \in Sessions \ {s} : session[t].at \in Open => ~SameId(Event(s), Event(t))

(* A key that was a call's own is its own. *)
LEMMA KeepsKeys ==
  ASSUME IInv, NEW s \in Sessions
  PROVE  /\ session[s].at \in Clean => OwnKey(s)
         /\ session[s].at \in Open => OwnEvent(s)
BY DEF IInv, SessionInv, CallOK, Exclusive, Apart, OwnKey, OwnEvent, Event

(* A call may go to the next step with what that step relies on.             *)
LEMMA GoToStep ==
  ASSUME IInv, NEW s \in Sessions, session[s].at \in Steps,
         NEW step \in Steps, GoTo(s, step), UNCHANGED <<tables, answers>>,
         step # "decode" => Event(s) \notin Malformed,
         step \in Clean => OwnKey(s),
         step \in Open => OwnEvent(s),
         step = "lookup" => \E r \in transactions : SameTx(r, Event(s)),
         step \in Read => session[s].at \in Read
  PROVE  IInv'
<1> DEFINE c == [session[s] EXCEPT !.at = step]
<1>1. /\ c \in Calls /\ c.at = step /\ c.event = Event(s)
      /\ c.history = session[s].history /\ c.before = session[s].before
  BY MovedCall DEF IInv
<1>2. session' = [session EXCEPT ![s] = c] BY DEF GoTo
<1> HIDE DEF c
<1>3. CallOK(session[s], transactions) /\ Event(s) = session[s].event
  BY DEF IInv, SessionInv, Event
<1>4. CallOK(c, transactions) BY <1>1, <1>3 DEF CallOK, OwnKey, OwnEvent
<1>5. \A t \in Sessions \ {s} : Apart(c, session[t])
  BY <1>1 DEF Apart, OwnKey, OwnEvent, Event
<1> QED BY <1>1, <1>2, <1>4, <1>5, QuietStep

(* A malformed event is rejected; any other goes on to its insert. *)
LEMMA DecodeIInv ==
  ASSUME IInv, NEW s \in Sessions, Decode(s)
  PROVE  IInv'
<1>1. session[s].at = "decode" /\ session[s].at \in Steps BY DEF Decode, At, Steps
<1>2. CASE Event(s) \in Malformed
  <2>1. Answer(s, "rejected") /\ UNCHANGED tables BY <1>2 DEF Decode
  <2> QED BY <1>1, <1>2, <2>1, AnswerEnds
<1>3. CASE Event(s) \notin Malformed
  <2>1. GoTo(s, "insert") /\ UNCHANGED <<tables, answers>> BY <1>3 DEF Decode
  <2>2. "insert" \in Steps \ (Clean \cup {"decode", "lookup"}) BY DEF Steps, Clean
  <2>3. "insert" \notin Open /\ "insert" \notin Read BY DEF Open, Read
  <2> QED BY <1>1, <1>3, <2>1, <2>2, <2>3, GoToStep
<1> QED BY <1>2, <1>3

(* A call that inserts is on a good event. *)
LEMMA GoodEvent ==
  ASSUME IInv, NEW s \in Sessions, session[s].at \in Steps \ {"decode"}
  PROVE  Event(s) \notin Malformed
BY DEF IInv, SessionInv, CallOK, Event

(* The insert finds its transaction, or none and writes nothing yet.         *)
LEMMA CheckKeyIInv ==
  ASSUME IInv, NEW s \in Sessions, CheckKey(s)
  PROVE  IInv'
<1>1. session[s].at \in Steps \ {"decode"} /\ UNCHANGED <<tables, answers>>
  BY DEF CheckKey, At, Steps
<1>2. CASE \E r \in transactions : SameTx(r, Event(s))
  <2>1. GoTo(s, "lookup") BY <1>2 DEF CheckKey
  <2>2. "lookup" \in Steps \ (Clean \cup {"decode"}) BY DEF Steps, Clean
  <2>3. "lookup" \notin Open /\ "lookup" \notin Read BY DEF Open, Read
  <2> QED BY <1>1, <1>2, <2>1, <2>2, <2>3, GoodEvent, GoToStep
<1>3. CASE ~\E r \in transactions : SameTx(r, Event(s))
  <2>1. GoTo(s, "key") BY <1>3 DEF CheckKey
  <2>2. "key" \in Steps \ (Clean \cup {"decode", "lookup"}) BY DEF Steps, Clean
  <2>3. "key" \notin Open /\ "key" \notin Read BY DEF Open, Read
  <2> QED BY <1>1, <2>1, <2>2, <2>3, GoodEvent, GoToStep
<1> QED BY <1>2, <1>3

(* A call that has a key of its own holds it. *)
LEMMA CleanHolds ==
  ASSUME NEW s \in Sessions
  PROVE  /\ session[s].at \in Clean => HoldsKey(s)
         /\ session[s].at \in Open => HoldsEvent(s)
BY DEF Clean, Open, HoldsKey, HoldsEvent

(* The transaction_id becomes the call's own, or is noted to be another's.   *)
LEMMA EnterKeyIInv ==
  ASSUME IInv, NEW s \in Sessions, EnterKey(s)
  PROVE  IInv'
<1>1. session[s].at \in Steps \ {"decode"} /\ UNCHANGED <<tables, answers>>
  BY DEF EnterKey, At, Steps
<1>2. CASE KeyTaken(s)
  <2>1. GoTo(s, "clash") BY <1>2 DEF EnterKey
  <2>2. "clash" \in Steps \ (Clean \cup {"decode", "lookup"}) BY DEF Steps, Clean
  <2>3. "clash" \notin Open /\ "clash" \notin Read BY DEF Open, Read
  <2> QED BY <1>1, <2>1, <2>2, <2>3, GoodEvent, GoToStep
<1>3. CASE ~KeyTaken(s)
  <2>1. GoTo(s, "event") BY <1>3 DEF EnterKey
  <2>2. OwnKey(s) BY <1>3, CleanHolds DEF KeyTaken, OwnKey, SameTx
  <2>3. "event" \in Steps \ {"decode", "lookup"} BY DEF Steps
  <2>4. "event" \notin Open /\ "event" \notin Read BY DEF Open, Read
  <2> QED BY <1>1, <2>1, <2>2, <2>3, <2>4, GoodEvent, GoToStep
<1> QED BY <1>2, <1>3

(* The event_id becomes the call's own, is stored already, or is given up    *)
(* with a transaction_id that is not the call's own.                         *)
LEMMA EnterEventIInv ==
  ASSUME IInv, NEW s \in Sessions, EnterEvent(s)
  PROVE  IInv'
<1>1. session[s].at \in Steps \ {"decode"} /\ UNCHANGED tables
  BY DEF EnterEvent, At, Steps
<1>2. CASE \E r \in transactions : SameId(r, Event(s))
  <2>1. Answer(s, "rejected") BY <1>2 DEF EnterEvent
  <2>2. \E a \in assessments : SameId(a.event, Event(s)) BY <1>2 DEF IInv, AllOrNothing
  <2> QED BY <1>1, <2>1, <2>2, AnswerEnds
<1>3. CASE ~(\E r \in transactions : SameId(r, Event(s))) /\ session[s].at = "clash"
  <2>1. GoTo(s, "insert") /\ UNCHANGED answers BY <1>3 DEF EnterEvent, At
  <2>2. "insert" \in Steps \ (Clean \cup {"decode", "lookup"}) BY DEF Steps, Clean
  <2>3. "insert" \notin Open /\ "insert" \notin Read BY DEF Open, Read
  <2> QED BY <1>1, <2>1, <2>2, <2>3, GoodEvent, GoToStep
<1>4. CASE ~(\E r \in transactions : SameId(r, Event(s))) /\ session[s].at # "clash"
  <2>1. /\ GoTo(s, "history") /\ UNCHANGED answers /\ session[s].at = "event"
        /\ \A t \in Sessions \ {s} : HoldsEvent(t) => ~SameId(Event(t), Event(s))
    BY <1>4 DEF EnterEvent, At
  <2>2. OwnKey(s) BY <2>1, KeepsKeys DEF Clean
  <2>3. OwnEvent(s) BY <1>4, <2>1, CleanHolds DEF OwnEvent, SameId
  <2>4. "history" \in Steps \ {"decode", "lookup"} /\ "history" \notin Read BY DEF Steps, Read
  <2> QED BY <1>1, <2>1, <2>2, <2>3, <2>4, GoodEvent, GoToStep
<1> QED BY <1>2, <1>3, <1>4

(* A lookup finds the assessment of the row that the insert has found. *)
LEMMA LookupFinds ==
  ASSUME IInv, NEW s \in Sessions, Lookup(s)
  PROVE  (\E a \in assessments : SameTx(a.event, Event(s))) /\ Answer(s, "ok")
<1>1. \E r \in transactions : SameTx(r, Event(s))
  BY DEF Lookup, At, IInv, SessionInv, CallOK, Event
<1>2. \E a \in assessments : SameTx(a.event, Event(s)) BY <1>1 DEF IInv, AllOrNothing
<1> QED BY <1>2 DEF Lookup

(* A redelivery is acknowledged. *)
LEMMA LookupIInv ==
  ASSUME IInv, NEW s \in Sessions, Lookup(s)
  PROVE  IInv'
<1>1. session[s].at \in Steps /\ UNCHANGED tables BY DEF Lookup, At, Steps
<1> QED BY <1>1, LookupFinds, AnswerEnds

(* The history is made of committed rows, and of none of the event's own. *)
LEMMA ReadHistoryIInv ==
  ASSUME IInv, NEW s \in Sessions, ReadHistory(s)
  PROVE  IInv'
<1>1. session[s].at = "history" /\ session[s].at \in Steps /\ OwnKey(s) /\ OwnEvent(s)
  BY KeepsKeys DEF ReadHistory, At, Steps, Clean, Open
<1>2. Event(s) \in Events /\ transactions \subseteq Events
  BY <1>1, CallFacts DEF IInv, TypeOK
<1>3. PICK read \in SUBSET Events :
        /\ read = {r \in transactions \cup {Event(s)} : When[r] < When[Event(s)]}
        /\ read = transactions \cap EarlierThan(Event(s))
  <2>1. ~(When[Event(s)] < When[Event(s)]) BY <1>2, StoreAssumption
  <2>2. {r \in transactions \cup {Event(s)} : When[r] < When[Event(s)]}
          = transactions \cap EarlierThan(Event(s))
    BY <1>2, <2>1 DEF EarlierThan
  <2> QED BY <2>2, <1>2
<1> DEFINE c == [session[s] EXCEPT !.at = "assess", !.history = read]
<1>4. session' = [session EXCEPT ![s] = c] /\ UNCHANGED <<tables, answers>>
  BY <1>3 DEF ReadHistory
<1>5. "assess" \in Steps BY DEF Steps
<1>6. /\ c \in Calls /\ c.at = "assess" /\ c.event = Event(s) /\ c.history = read
      /\ c.before = session[s].before
  <2>1. session[s] \in Calls BY <1>1, CallFacts DEF IInv
  <2> QED BY <1>5, <2>1 DEF Calls, Event
<1> HIDE DEF c
<1>7. Event(s) \notin Malformed /\ session[s].before \subseteq transactions
  BY <1>1 DEF IInv, SessionInv, CallOK, Event
<1>8. CallOK(c, transactions)
  BY <1>1, <1>3, <1>6, <1>7 DEF CallOK, OwnKey, OwnEvent, Clean, Open, Read
<1>9. \A t \in Sessions \ {s} : Apart(c, session[t])
  BY <1>1, <1>6 DEF Apart, OwnKey, OwnEvent, Event
<1> QED BY <1>4, <1>6, <1>8, <1>9, QuietStep

(* A call that has read its history, and holds its keys, moves on with both. *)
LEMMA KeepsHistory ==
  ASSUME IInv, NEW s \in Sessions, session[s].at \in Read, NEW step \in Read,
         GoTo(s, step), UNCHANGED <<tables, answers>>
  PROVE  IInv'
<1>1. /\ session[s].at \in Steps \ {"decode"} /\ session[s].at \in Clean
      /\ session[s].at \in Open /\ step \in Steps \ {"lookup"}
  BY DEF Read, Steps, Clean, Open
<1> QED BY <1>1, KeepsKeys, GoodEvent, GoToStep

(* Whoever holds the keys of an event finds none of its rows. *)
LEMMA HeldRows ==
  ASSUME IInv, NEW s \in Sessions, session[s].at \in Open
  PROVE  /\ \A r \in transactions : ~SameTx(r, Event(s)) /\ ~SameId(r, Event(s))
         /\ \A a \in assessments : ~SameTx(a.event, Event(s)) /\ ~SameId(a.event, Event(s))
         /\ \A r \in outbox : ~SameTx(r, Event(s))
<1>1. \A r \in transactions : ~SameTx(r, Event(s)) /\ ~SameId(r, Event(s))
  BY KeepsKeys DEF OwnKey, OwnEvent, Clean, Open
<1> QED BY <1>1 DEF IInv, AllOrNothing

(* The assessment's key is free. *)
LEMMA InsertAssessmentIInv ==
  ASSUME IInv, NEW s \in Sessions, InsertAssessment(s)
  PROVE  IInv'
<1>1. session[s].at \in Open /\ session[s].at \in Read
  BY DEF InsertAssessment, At, Open, Read
<1>2. GoTo(s, "publish") /\ UNCHANGED <<tables, answers>>
  BY <1>1, HeldRows DEF InsertAssessment
<1>3. "publish" \in Read BY DEF Read
<1> QED BY <1>1, <1>2, <1>3, KeepsHistory

(* The outbox row's key is free. *)
LEMMA InsertOutboxIInv ==
  ASSUME IInv, NEW s \in Sessions, InsertOutbox(s)
  PROVE  IInv'
<1>1. session[s].at \in Open /\ session[s].at \in Read
  BY DEF InsertOutbox, At, Open, Read
<1>2. GoTo(s, "commit") /\ UNCHANGED <<tables, answers>>
  BY <1>1, HeldRows DEF InsertOutbox
<1>3. "commit" \in Read BY DEF Read
<1> QED BY <1>1, <1>2, <1>3, KeepsHistory

(* A failed call leaves no row behind, and gives its keys back in the end.   *)
LEMMA FailIInv ==
  ASSUME IInv, NEW s \in Sessions, Fail(s) \/ Rollback(s)
  PROVE  IInv'
<1>1. CASE session' = [session EXCEPT ![s] = Free]
  <2>1. UNCHANGED <<tables, answers>> BY DEF Fail, Rollback
  <2>2. Free \in Calls \cup {Free} /\ Free.at \notin Clean BY DEF Free, Clean
  <2> QED BY <1>1, <2>1, <2>2, FreeOK, KeylessApart, QuietStep
<1>2. CASE session' # [session EXCEPT ![s] = Free]
  <2>1. /\ HoldsKey(s) /\ UNCHANGED <<tables, answers>>
        /\ GoTo(s, "rollback") \/ GoTo(s, "cancelled")
    BY <1>2 DEF Fail, Rollback
  <2>2. session[s].at \in Steps \ {"decode"} BY <2>1 DEF HoldsKey, HoldsEvent, Steps
  <2>3. /\ "rollback" \in Steps \ (Clean \cup {"decode", "lookup"})
        /\ "cancelled" \in Steps \ (Clean \cup {"decode", "lookup"})
        /\ "rollback" \notin Open /\ "cancelled" \notin Open
        /\ "rollback" \notin Read /\ "cancelled" \notin Read
    BY DEF Steps, Clean, Open, Read
  <2>4. CASE GoTo(s, "rollback") BY <2>1, <2>2, <2>3, <2>4, GoodEvent, GoToStep
  <2>5. CASE GoTo(s, "cancelled") BY <2>1, <2>2, <2>3, <2>5, GoodEvent, GoToStep
  <2> QED BY <2>1, <2>4, <2>5
<1> QED BY <1>1, <1>2

-----------------------------------------------------------------------------
(* The commit                                                                *)

(* The rows of the call on e become visible, and the session is free.        *)
Committed(s, e) ==
  /\ session[s].at = "commit" /\ e = Event(s)
  /\ RowsCommit(s) /\ session' = [session EXCEPT ![s] = Free]

(* A commit adds the row of a good event, under keys that are its own.       *)
LEMMA CommitFacts ==
  ASSUME IInv, NEW s \in Sessions, NEW e \in Events, Committed(s, e)
  PROVE  /\ transactions' = transactions \cup {e} /\ outbox' = outbox \cup {e}
         /\ e \notin Malformed /\ session[s].at \in Clean /\ session[s].at \in Open
         /\ \A r \in transactions : ~SameTx(r, e) /\ ~SameId(r, e)
<1>1. session[s].at \in Steps \ {"decode"} /\ session[s].at \in Clean /\ session[s].at \in Open
  BY DEF Committed, Steps, Open, Clean
<1>2. transactions' = transactions \cup {e} /\ outbox' = outbox \cup {e}
  BY DEF Committed, RowsCommit
<1>3. e \notin Malformed /\ \A r \in transactions : ~SameTx(r, e) /\ ~SameId(r, e)
  BY <1>1, KeepsKeys, GoodEvent DEF Committed, OwnKey, OwnEvent
<1> QED BY <1>1, <1>2, <1>3

(* And it adds an assessment that is computed from past rows. *)
LEMMA CommitAdds ==
  ASSUME IInv, NEW s \in Sessions, NEW e \in Events, Committed(s, e)
  PROVE  \E history, before \in SUBSET Events :
           /\ before \cap EarlierThan(e) \subseteq history
           /\ history \subseteq transactions \cap EarlierThan(e)
           /\ assessments' = assessments \cup
                {[event |-> e, history |-> history, before |-> before]}
<1>1. session[s].at \in Steps /\ session[s].at \in Read /\ session[s].event = e
  BY DEF Committed, Steps, Read, Event
<1>2. session[s].history \subseteq Events /\ session[s].before \subseteq Events
  BY <1>1, CallFacts DEF IInv
<1>3. CallOK(session[s], transactions) BY DEF IInv, SessionInv
<1>4. assessments' = assessments \cup
        {[event |-> e, history |-> session[s].history, before |-> session[s].before]}
  BY DEF Committed, RowsCommit
<1>5. /\ session[s].before \cap EarlierThan(e) \subseteq session[s].history
      /\ session[s].history \subseteq transactions \cap EarlierThan(e)
  BY <1>1, <1>3 DEF CallOK
<1> QED BY <1>2, <1>4, <1>5

(* The other calls rely on what they relied on: they hold other keys.        *)
LEMMA CommitSessions ==
  ASSUME IInv, NEW s \in Sessions, NEW e \in Events, Committed(s, e)
  PROVE  /\ session' \in [Sessions -> Calls \cup {Free}]
         /\ SessionInv' /\ Exclusive'
<1>1. /\ transactions' = transactions \cup {e} /\ session[s].event = e
      /\ session[s].at \in Clean /\ session[s].at \in Open
  BY CommitFacts DEF Committed, Event
<1>2. /\ session'[s] = Free
      /\ \A t \in Sessions \ {s} : session'[t] = session[t]
      /\ session' \in [Sessions -> Calls \cup {Free}]
  BY SetSession DEF IInv, Committed
<1>3. ASSUME NEW t \in Sessions \ {s} PROVE CallOK(session[t], transactions')
  <2>1. CallOK(session[t], transactions) BY DEF IInv, SessionInv
  <2>2. Apart(session[s], session[t]) BY DEF IInv, Exclusive
  <2>3. /\ session[t].at \in Clean => ~SameTx(e, session[t].event)
        /\ session[t].at \in Open => ~SameId(e, session[t].event)
    BY <1>1, <2>2 DEF Apart
  <2> QED BY <1>1, <2>1, <2>3 DEF CallOK
<1>4. SessionInv' BY <1>2, <1>3, FreeOK DEF SessionInv
<1>5. ASSUME NEW t \in Sessions, NEW u \in Sessions, t # u
      PROVE  Apart(session'[t], session'[u])
  <2>1. Free.at \notin Clean /\ Free.at \notin Open BY DEF Free, Clean, Open
  <2>2. CASE t = s \/ u = s BY <1>2, <2>1, <2>2 DEF Apart
  <2>3. CASE t # s /\ u # s BY <1>2, <1>5, <2>3 DEF IInv, Exclusive
  <2> QED BY <2>2, <2>3
<1>6. Exclusive' BY <1>5 DEF Exclusive, Apart, SameTx, SameId
<1> QED BY <1>2, <1>4, <1>6

(* The three rows of a commit are new, and its history is past.              *)
LEMMA CommitTables ==
  ASSUME IInv, NEW s \in Sessions, NEW e \in Events, Committed(s, e)
  PROVE  /\ AllOrNothing' /\ HistoryIsPast'
         /\ transactions' \subseteq Events /\ outbox' \subseteq Events
         /\ assessments' \subseteq
              [event : Events, history : SUBSET Events, before : SUBSET Events]
<1>1. PICK history \in SUBSET Events, before \in SUBSET Events :
        /\ before \cap EarlierThan(e) \subseteq history
        /\ history \subseteq transactions \cap EarlierThan(e)
        /\ assessments' = assessments \cup
             {[event |-> e, history |-> history, before |-> before]}
  BY CommitAdds
<1> DEFINE new == [event |-> e, history |-> history, before |-> before]
<1>2. new.event = e /\ new.history = history /\ new.before = before
      /\ new \in [event : Events, history : SUBSET Events, before : SUBSET Events]
  OBVIOUS
<1>3. assessments' = assessments \cup {new} BY <1>1
<1> HIDE DEF new
<1>4. transactions' = transactions \cup {e} /\ outbox' = outbox \cup {e} BY CommitFacts
<1>5. \A a \in assessments : ~SameTx(a.event, e) /\ ~SameId(a.event, e)
  BY CommitFacts DEF IInv, AllOrNothing
<1>6. AllOrNothing'
  <2>1. outbox' = transactions' BY <1>4 DEF IInv, AllOrNothing
  <2>2. transactions' = {a.event : a \in assessments'}
    BY <1>2, <1>3, <1>4 DEF IInv, AllOrNothing
  <2>3. ASSUME NEW a \in assessments', NEW b \in assessments',
               SameTx(a.event, b.event) \/ SameId(a.event, b.event)
        PROVE  a = b
    <3>1. CASE a \in assessments /\ b \in assessments
      BY <2>3, <3>1 DEF IInv, AllOrNothing
    <3>2. CASE a = new /\ b \in assessments
      BY <1>2, <1>5, <2>3, <3>2 DEF SameTx, SameId
    <3>3. CASE b = new /\ a \in assessments
      BY <1>2, <1>5, <2>3, <3>3
    <3> QED BY <1>3, <3>1, <3>2, <3>3
  <2> QED BY <2>1, <2>2, <2>3 DEF AllOrNothing, SameTx, SameId
<1>7. HistoryIsPast'
  <2> SUFFICES ASSUME NEW a \in assessments'
               PROVE  /\ a.before \cap EarlierThan(a.event) \subseteq a.history
                      /\ a.history \subseteq transactions' \cap EarlierThan(a.event)
    BY DEF HistoryIsPast, EarlierThan
  <2>1. CASE a \in assessments BY <1>4, <2>1 DEF IInv, HistoryIsPast, EarlierThan
  <2>2. CASE a = new BY <1>1, <1>2, <1>4, <2>2
  <2> QED BY <1>3, <2>1, <2>2
<1>8. /\ transactions' \subseteq Events /\ outbox' \subseteq Events
      /\ assessments' \subseteq
           [event : Events, history : SUBSET Events, before : SUBSET Events]
  BY <1>2, <1>3, <1>4 DEF IInv, TypeOK
<1> QED BY <1>6, <1>7, <1>8

(* A commit keeps the invariant, and the answer to it is true.               *)
LEMMA CommitIInv ==
  ASSUME IInv, NEW s \in Sessions, Commit(s) \/ CommitUnknown(s)
  PROVE  IInv'
<1>1. session[s].at = "commit" /\ session[s].at \in Steps
  BY DEF Commit, CommitUnknown, At, Steps
<1>2. PICK e \in Events : e = Event(s) BY <1>1, CallFacts DEF IInv
<1>3. Committed(s, e) BY <1>1, <1>2 DEF Commit, CommitUnknown, Answer, Committed
<1>4. session' \in [Sessions -> Calls \cup {Free}] /\ SessionInv' /\ Exclusive'
  BY <1>3, CommitSessions
<1>5. /\ AllOrNothing' /\ HistoryIsPast'
      /\ transactions' \subseteq Events /\ outbox' \subseteq Events
      /\ assessments' \subseteq
           [event : Events, history : SUBSET Events, before : SUBSET Events]
  BY <1>3, CommitTables
<1>6. /\ transactions \subseteq transactions' /\ assessments \subseteq assessments'
      /\ \E a \in assessments' : SameTx(a.event, e)
  <2>1. PICK history, before \in SUBSET Events :
          assessments' = assessments \cup
            {[event |-> e, history |-> history, before |-> before]}
    BY <1>3, CommitAdds
  <2> DEFINE new == [event |-> e, history |-> history, before |-> before]
  <2>2. new \in assessments' /\ new.event = e BY <2>1
  <2>3. \E a \in assessments' : SameTx(a.event, e) BY <2>2 DEF SameTx
  <2> QED BY <1>3, <2>1, <2>3, CommitFacts
<1>7. AnswersInv' /\ answers' \in [Events -> SUBSET {"ok", "rejected"}]
  <2>1. CASE Commit(s)
    <3>1. answers' = [answers EXCEPT ![e] = @ \cup {"ok"}] BY <1>2, <2>1 DEF Commit, Answer
    <3> QED BY <1>6, <3>1, AnswerStep DEF IInv
  <2>2. CASE CommitUnknown(s)
    <3>1. UNCHANGED answers BY <2>2 DEF CommitUnknown
    <3> QED BY <1>6, <3>1, NoAnswerStep DEF IInv, TypeOK
  <2> QED BY <2>1, <2>2
<1>8. TypeOK' BY <1>4, <1>5, <1>7 DEF TypeOK
<1> QED BY <1>4, <1>5, <1>7, <1>8 DEF IInv

-----------------------------------------------------------------------------
(* Theorems                                                                  *)

(* Every step keeps the invariant. *)
LEMMA NextIInv == IInv /\ [Next]_vars => IInv'
<1> SUFFICES ASSUME IInv, [Next]_vars PROVE IInv' OBVIOUS
<1>1. CASE UNCHANGED vars BY <1>1, StutterIInv
<1>2. ASSUME NEW s \in Sessions, NEW e \in Events, Deliver(s, e) PROVE IInv'
  BY <1>2, DeliverIInv
<1>3. ASSUME NEW s \in Sessions, Step(s) PROVE IInv'
  BY <1>3, DecodeIInv, CheckKeyIInv, EnterKeyIInv, EnterEventIInv, LookupIInv,
     ReadHistoryIInv, InsertAssessmentIInv, InsertOutboxIInv, CommitIInv, FailIInv
  DEF Step
<1>4. ASSUME NEW s \in Sessions, Fail(s) PROVE IInv' BY <1>4, FailIInv
<1> QED BY <1>1, <1>2, <1>3, <1>4 DEF Next

(* The invariant holds in every state. *)
THEOREM StoreIInv == Spec => []IInv
BY InitIInv, NextIInv, PTL DEF Spec

(* Every variable of the store keeps its type. *)
THEOREM TypeCorrect == Spec => []TypeOK
BY StoreIInv, PTL DEF IInv

(* A transaction, its assessment and its outbox row are stored together or   *)
(* not at all, once per transaction and per event_id.                        *)
THEOREM StoredTogether == Spec => []AllOrNothing
BY StoreIInv, PTL DEF IInv

(* An acknowledged event's transaction has been assessed.                    *)
THEOREM AcknowledgedCorrect == Spec => []AcknowledgedIsAssessed
BY StoreIInv, PTL DEF IInv, AnswersInv

(* A rejected event is malformed, or its event_id is stored for good with an *)
(* assessment: no good event is lost because of a call that is in progress,  *)
(* was rolled back or has failed.                                            *)
THEOREM RejectedCorrect == Spec => []RejectedForGood
BY StoreIInv, PTL DEF IInv, AnswersInv

(* Features come from committed rows of earlier events, none missing that    *)
(* had been assessed before the call.                                        *)
THEOREM HistoryCorrect == Spec => []HistoryIsPast
BY StoreIInv, PTL DEF IInv

-----------------------------------------------------------------------------
(* Store implements IdempotentScoring                                        *)

(* The assessments as the promise sees them. *)
Assessed == {[event |-> a.event, history |-> a.history] : a \in assessments}

(* The same events are assessed in both. *)
LEMMA AssessedEvents ==
  /\ \A x \in Assessed : \E a \in assessments : x.event = a.event
  /\ \A a \in assessments : \E x \in Assessed : x.event = a.event
  /\ {x.event : x \in Assessed} = {a.event : a \in assessments}
<1>1. ASSUME NEW x \in Assessed PROVE \E a \in assessments : x.event = a.event
  BY DEF Assessed
<1>2. ASSUME NEW a \in assessments PROVE \E x \in Assessed : x.event = a.event
  <2> DEFINE y == [event |-> a.event, history |-> a.history]
  <2>1. y \in Assessed /\ y.event = a.event BY DEF Assessed
  <2> QED BY <2>1
<1>3. {x.event : x \in Assessed} = {a.event : a \in assessments} BY <1>1, <1>2
<1> QED BY <1>1, <1>2, <1>3

(* An answer of a call without effect on the tables is a step of the promise. *)
LEMMA AnswerMaps ==
  ASSUME NEW e \in Events, UNCHANGED assessments,
         \/ /\ \E a \in assessments : SameTx(a.event, e)
            /\ answers' = [answers EXCEPT ![e] = @ \cup {"ok"}]
         \/ /\ e \in Malformed \/ \E a \in assessments : SameId(a.event, e)
            /\ answers' = [answers EXCEPT ![e] = @ \cup {"rejected"}]
  PROVE  Promise!Next
<1>1. Assessed' = Assessed BY DEF Assessed
<1>2. CASE /\ \E a \in assessments : SameTx(a.event, e)
           /\ answers' = [answers EXCEPT ![e] = @ \cup {"ok"}]
  <2>1. \E x \in Assessed : TxOf[x.event] = TxOf[e] BY <1>2, AssessedEvents DEF SameTx
  <2>2. Promise!Acknowledge(e) BY <1>1, <1>2, <2>1 DEF Promise!Acknowledge, Assessed
  <2> QED BY <2>2 DEF Promise!Next
<1>3. CASE /\ e \in Malformed \/ \E a \in assessments : SameId(a.event, e)
           /\ answers' = [answers EXCEPT ![e] = @ \cup {"rejected"}]
  <2>1. e \in Malformed \/ \E x \in Assessed : IdOf[x.event] = IdOf[e]
    BY <1>3, AssessedEvents DEF SameId
  <2>2. Promise!Reject(e) BY <1>1, <1>3, <2>1 DEF Promise!Reject, Assessed
  <2> QED BY <2>2 DEF Promise!Next
<1> QED BY <1>2, <1>3

(* A commit is an assessment of the promise, whether or not its reply is     *)
(* lost.                                                                     *)
LEMMA CommitMaps ==
  ASSUME IInv, NEW s \in Sessions, Commit(s) \/ CommitUnknown(s)
  PROVE  Promise!Next
<1>1. session[s].at = "commit" /\ session[s].at \in Steps
  BY DEF Commit, CommitUnknown, At, Steps
<1>2. PICK e \in Events : e = Event(s) BY <1>1, CallFacts DEF IInv
<1>3. Committed(s, e) BY <1>1, <1>2 DEF Commit, CommitUnknown, Answer, Committed
<1>4. /\ e \notin Malformed
      /\ \A r \in transactions : ~SameTx(r, e) /\ ~SameId(r, e)
  BY <1>3, CommitFacts
<1>5. PICK history, before \in SUBSET Events :
        /\ history \subseteq transactions \cap EarlierThan(e)
        /\ assessments' = assessments \cup
             {[event |-> e, history |-> history, before |-> before]}
  BY <1>3, CommitAdds
<1>6. Assessed' = Assessed \cup {[event |-> e, history |-> history]}
  <2> DEFINE new == [event |-> e, history |-> history, before |-> before]
  <2>1. new.event = e /\ new.history = history /\ assessments' = assessments \cup {new}
    BY <1>5
  <2> HIDE DEF new
  <2> QED BY <2>1 DEF Assessed
<1>7. transactions = {x.event : x \in Assessed} BY AssessedEvents DEF IInv, AllOrNothing
<1>8. history \in SUBSET (Promise!Earlier(e) \cap {x.event : x \in Assessed})
  BY <1>5, <1>7 DEF EarlierThan, Promise!Earlier
<1>9. \A x \in Assessed : TxOf[x.event] # TxOf[e] /\ IdOf[x.event] # IdOf[e]
  BY <1>4, <1>7 DEF SameTx, SameId
<1>10. answers' \in {answers, [answers EXCEPT ![e] = @ \cup {"ok"}]}
  BY <1>2 DEF Commit, CommitUnknown, Answer
<1>11. Promise!Assess(e)
  BY <1>4, <1>6, <1>8, <1>9, <1>10 DEF Promise!Assess, Assessed
<1> QED BY <1>11 DEF Promise!Next

(* Every step is a step of the promise, or changes nothing that it is about. *)
LEMMA NextMaps == IInv /\ [Next]_vars => [Promise!Next]_(Promise!vars)
<1> SUFFICES ASSUME IInv, [Next]_vars PROVE [Promise!Next]_(Promise!vars) OBVIOUS
<1>1. CASE UNCHANGED <<assessments, answers>> BY <1>1 DEF Promise!vars
<1>2. ASSUME NEW s \in Sessions, Commit(s) \/ CommitUnknown(s) PROVE Promise!Next
  BY <1>2, CommitMaps
<1>3. ASSUME NEW s \in Sessions, Lookup(s) PROVE Promise!Next
  <2>1. PICK e \in Events : e = Event(s)
    BY <1>3, CallFacts DEF IInv, Lookup, At, Steps
  <2>2. UNCHANGED assessments BY <1>3 DEF Lookup, tables
  <2>3. /\ \E a \in assessments : SameTx(a.event, e)
        /\ answers' = [answers EXCEPT ![e] = @ \cup {"ok"}]
    BY <1>3, <2>1, LookupFinds DEF Answer
  <2> QED BY <2>2, <2>3, AnswerMaps
<1>4. ASSUME NEW s \in Sessions, Decode(s)
      PROVE  Promise!Next \/ UNCHANGED <<assessments, answers>>
  <2>1. PICK e \in Events : e = Event(s)
    BY <1>4, CallFacts DEF IInv, Decode, At, Steps
  <2>2. CASE e \in Malformed
    <3>1. UNCHANGED assessments /\ answers' = [answers EXCEPT ![e] = @ \cup {"rejected"}]
      BY <1>4, <2>1, <2>2 DEF Decode, Answer, tables
    <3> QED BY <2>2, <3>1, AnswerMaps
  <2>3. CASE e \notin Malformed BY <1>4, <2>1, <2>3 DEF Decode, tables
  <2> QED BY <2>2, <2>3
<1>5. ASSUME NEW s \in Sessions, EnterEvent(s)
      PROVE  Promise!Next \/ UNCHANGED <<assessments, answers>>
  <2>1. PICK e \in Events : e = Event(s)
    BY <1>5, CallFacts DEF IInv, EnterEvent, At, Steps
  <2>2. CASE \E r \in transactions : SameId(r, e)
    <3>1. UNCHANGED assessments /\ answers' = [answers EXCEPT ![e] = @ \cup {"rejected"}]
      BY <1>5, <2>1, <2>2 DEF EnterEvent, Answer, tables
    <3>2. \E a \in assessments : SameId(a.event, e) BY <2>2 DEF IInv, AllOrNothing
    <3> QED BY <3>1, <3>2, AnswerMaps
  <2>3. CASE ~\E r \in transactions : SameId(r, e)
    BY <1>5, <2>1, <2>3 DEF EnterEvent, tables
  <2> QED BY <2>2, <2>3
<1>6. ASSUME NEW s \in Sessions, InsertAssessment(s) \/ InsertOutbox(s)
      PROVE  UNCHANGED <<assessments, answers>>
  <2>1. session[s].at \in Open BY <1>6 DEF InsertAssessment, InsertOutbox, At, Open
  <2> QED BY <1>6, <2>1, HeldRows DEF InsertAssessment, InsertOutbox, tables
<1>7. ASSUME NEW s \in Sessions,
             \/ CheckKey(s) \/ EnterKey(s) \/ ReadHistory(s) \/ Fail(s) \/ Rollback(s)
             \/ \E e \in Events : Deliver(s, e)
      PROVE  UNCHANGED <<assessments, answers>>
  BY <1>7 DEF CheckKey, EnterKey, ReadHistory, Fail, Rollback, Deliver, tables
<1>8. CASE UNCHANGED vars BY <1>1, <1>8 DEF vars, tables
<1> QED BY <1>1, <1>2, <1>3, <1>4, <1>5, <1>6, <1>7, <1>8 DEF Next, Step

(* Store implements IdempotentScoring: a transaction is assessed once, from  *)
(* rows of earlier transactions, and every answer keeps the promise.         *)
THEOREM KeepsPromise == Spec => PromiseKept
<1>1. Init => Promise!Init BY DEF Init, Promise!Init
<1> QED
  BY <1>1, NextMaps, StoreIInv, PTL
  DEF Spec, PromiseKept, Promise!Spec
=============================================================================
