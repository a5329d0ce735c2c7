--------------------------- MODULE Service_proofs ---------------------------
(* Proofs about Service, for every set of requests.                          *)
EXTENDS Service, TLAPS

(* What has been acquired when the start is at a step.                       *)
Before == [flags |-> {}, repository |-> {}, migrate |-> {"repository"},
           model |-> {"repository"}, policy |-> {"repository"}, producer |-> {"repository"},
           transactionConsumer |-> {"repository", "producer"},
           labelConsumer |-> {"repository", "producer", "transactionConsumer"}]

(* Phases of run. *)
Starting == main \in DOMAIN Then
Closing == main \in {"close", "drain", "exited"}

(* The start: nothing runs, and what precedes the step has been acquired.    *)
StartInv ==
  /\ Starting => /\ open = Before[main] /\ result = "none" /\ ~failed
                 /\ \A m \in Members : member[m] = "idle"
  /\ main = "wait" => /\ open = Resources /\ result = "none"
                      /\ \A m \in Members : member[m] # "idle"
  /\ Closing => /\ result # "none"
                /\ \A m \in Members : member[m] \in {"idle", "returned"}
  /\ main = "drain" => open = {"repository"}
  /\ main = "exited" => open = {}

(* What is open was acquired after what is open.                             *)
Nested == \A r, s \in Resources : r \in open /\ r \in Later[s] => s \in open

(* The server: only a running one serves, and a clean stop has no request.   *)
ServerInv ==
  /\ \A m \in Members \ {"api"} : member[m] # "shutdown"
  /\ member["api"] = "idle" => listener = "down"
  /\ member["api"] \in {"shutdown", "returned"} => listener # "serving"
  /\ listener = "down" => \A q \in Requests : request[q] = "none"
  /\ member["api"] = "returned" /\ ~failed => \A q \in Requests : ~Active(q)
  /\ \A q \in Requests : request[q] = "querying" => "repository" \in open

(* Whoever has stopped was stopped or stops all; nil means that all have.    *)
StopInv ==
  /\ \A m \in Members : member[m] \in {"shutdown", "returned"} => Stopping
  /\ result = "nil" => /\ ~failed /\ \A m \in Members : member[m] = "returned"

(* The inductive invariant. *)
IInv == TypeOK /\ StartInv /\ Nested /\ ServerInv /\ StopInv

-----------------------------------------------------------------------------
(* The records, spelt out.                                                   *)
LEMMA Tables ==
  /\ DOMAIN Then = {"flags", "repository", "migrate", "model", "policy", "producer",
                    "transactionConsumer", "labelConsumer"}
  /\ Resources = {"repository", "producer", "transactionConsumer", "labelConsumer"}
  /\ Members = {"transactions", "labels", "outbox", "api"}
BY DEF Then, Resources, Later, Members, Uses

(* What is acquired after each resource, resource by resource. *)
LEMMA LaterValues ==
  /\ Later["repository"] = {"producer", "transactionConsumer", "labelConsumer"}
  /\ Later["producer"] = {"transactionConsumer", "labelConsumer"}
  /\ Later["transactionConsumer"] = {"labelConsumer"}
  /\ Later["labelConsumer"] = {}
BY DEF Later

(* Members use nothing but resources. *)
LEMMA UsesValues == \A m \in Members : Uses[m] \subseteq Resources
BY Tables DEF Uses

(* A step of the start acquires what the next one finds.                     *)
LEMMA ThenValues ==
  \A x \in DOMAIN Then \ {"labelConsumer"} :
    Then[x] \in DOMAIN Then /\ Before[Then[x]] = Before[x] \cup ({x} \cap Resources)
<1> SUFFICES ASSUME NEW x \in DOMAIN Then \ {"labelConsumer"}
             PROVE  Then[x] \in DOMAIN Then /\ Before[Then[x]] = Before[x] \cup ({x} \cap Resources)
  OBVIOUS
<1>1. CASE x = "flags"
  BY <1>1, Tables DEF Then, Before
<1>2. CASE x = "repository"
  BY <1>2, Tables DEF Then, Before
<1>3. CASE x = "migrate"
  BY <1>3, Tables DEF Then, Before
<1>4. CASE x = "model"
  BY <1>4, Tables DEF Then, Before
<1>5. CASE x = "policy"
  BY <1>5, Tables DEF Then, Before
<1>6. CASE x = "producer"
  BY <1>6, Tables DEF Then, Before
<1>7. CASE x = "transactionConsumer"
  BY <1>7, Tables DEF Then, Before
<1> QED
  BY Tables, <1>1, <1>2, <1>3, <1>4, <1>5, <1>6, <1>7

(* The last step of the start completes the resources. *)
LEMMA LastValues ==
  Then["labelConsumer"] = "wait" /\ Before["labelConsumer"] \cup {"labelConsumer"} = Resources
BY Tables DEF Then, Before

(* The start of the service.                                                 *)
LEMMA InitIInv == Init => IInv
<1> SUFFICES ASSUME Init PROVE IInv
  OBVIOUS
<1> USE Tables DEF Init
<1>1. TypeOK
  BY DEF TypeOK
<1>2. StartInv
  BY DEF StartInv, Starting, Closing, Before
<1>3. Nested /\ ServerInv /\ StopInv
  BY DEF Nested, ServerInv, StopInv, Active
<1> QED
  BY <1>1, <1>2, <1>3 DEF IInv

(* A step of the start keeps the invariant. *)
LEMMA StartStepIInv ==
  ASSUME IInv, StartStep PROVE IInv'
<1> USE Tables DEF StartStep, Acquired, http, group
<1>1. TypeOK'
  BY ThenValues DEF IInv, TypeOK
<1>2. StartInv'
  BY ThenValues DEF IInv, TypeOK, StartInv, Starting, Closing
<1>3. Nested'
  BY ThenValues, LaterValues DEF IInv, TypeOK, StartInv, Nested, Starting, Closing
<1>4. ServerInv'
  BY ThenValues DEF IInv, TypeOK, StartInv, ServerInv, Starting, Closing, Active
<1>5. StopInv'
  BY ThenValues DEF IInv, TypeOK, StartInv, ServerInv, StopInv, Starting, Closing, Stopping
<1> QED
  BY <1>1, <1>2, <1>3, <1>4, <1>5 DEF IInv

(* The start of the group keeps the invariant: all is open by then. *)
LEMMA StartGroupIInv ==
  ASSUME IInv, StartGroup PROVE IInv'
<1> USE Tables DEF StartGroup, Acquired, http, group
<1>1. TypeOK'
  BY LastValues DEF IInv, TypeOK
<1>2. StartInv'
  BY LastValues DEF IInv, TypeOK, StartInv, Starting, Closing
<1>3. Nested'
  BY LastValues, LaterValues DEF IInv, TypeOK, StartInv, Nested, Starting, Closing
<1>4. ServerInv'
  BY LastValues DEF IInv, TypeOK, StartInv, ServerInv, Starting, Closing, Active
<1>5. StopInv'
  BY LastValues DEF IInv, TypeOK, StartInv, ServerInv, StopInv, Starting, Closing, Stopping
<1> QED
  BY <1>1, <1>2, <1>3, <1>4, <1>5 DEF IInv

(* An early return keeps the invariant: nobody runs yet. *)
LEMMA StartFailsIInv ==
  ASSUME IInv, StartFails PROVE IInv'
<1> USE Tables DEF StartFails, http, group
<1>1. TypeOK'
  BY DEF IInv, TypeOK
<1>2. StartInv'
  BY DEF IInv, TypeOK, StartInv, Starting, Closing
<1>3. Nested'
  BY DEF IInv, TypeOK, StartInv, Nested, Starting, Closing
<1>4. ServerInv'
  BY DEF IInv, TypeOK, StartInv, ServerInv, Starting, Closing, Active
<1>5. StopInv'
  BY DEF IInv, TypeOK, StartInv, ServerInv, StopInv, Starting, Closing, Stopping
<1> QED
  BY <1>1, <1>2, <1>3, <1>4, <1>5 DEF IInv

(* The return of group.Wait keeps the invariant: every member has returned. *)
LEMMA WaitIInv ==
  ASSUME IInv, Wait PROVE IInv'
<1> USE Tables DEF Wait, http, group
<1>1. TypeOK'
  BY DEF IInv, TypeOK
<1>2. StartInv'
  BY DEF IInv, TypeOK, StartInv, Starting, Closing
<1>3. Nested'
  BY DEF IInv, TypeOK, StartInv, Nested, Starting, Closing
<1>4. ServerInv'
  BY DEF IInv, TypeOK, StartInv, ServerInv, Starting, Closing, Active
<1>5. StopInv'
  BY DEF IInv, TypeOK, StartInv, ServerInv, StopInv, Starting, Closing, Stopping
<1> QED
  BY <1>1, <1>2, <1>3, <1>4, <1>5 DEF IInv

(* A deferred close keeps the invariant: nothing acquired later is open. *)
LEMMA CloseIInv ==
  ASSUME IInv, NEW r \in Resources, Close(r) PROVE IInv'
<1> USE Tables DEF Close, http, group
<1>1. TypeOK'
  BY DEF IInv, TypeOK
<1>2. StartInv'
  <2>1. main' = "drain" => open' = {"repository"}
    BY LaterValues DEF IInv, TypeOK
  <2> QED
    BY <2>1 DEF IInv, TypeOK, StartInv, Starting, Closing
<1>3. Nested'
  BY DEF IInv, TypeOK, StartInv, Nested, Starting, Closing
<1>4. ServerInv'
  BY DEF IInv, TypeOK, StartInv, ServerInv, Starting, Closing, Active
<1>5. StopInv'
  BY DEF IInv, TypeOK, StartInv, ServerInv, StopInv, Starting, Closing, Stopping
<1> QED
  BY <1>1, <1>2, <1>3, <1>4, <1>5 DEF IInv

(* The end of pool.Close keeps the invariant: no query holds a connection. *)
LEMMA DrainedIInv ==
  ASSUME IInv, Drained PROVE IInv'
<1> USE Tables DEF Drained, http, group
<1>1. TypeOK'
  BY DEF IInv, TypeOK
<1>2. StartInv'
  BY DEF IInv, TypeOK, StartInv, Starting, Closing
<1>3. Nested'
  BY DEF IInv, TypeOK, StartInv, Nested, Starting, Closing
<1>4. ServerInv'
  BY DEF IInv, TypeOK, StartInv, ServerInv, Starting, Closing, Active
<1>5. StopInv'
  BY DEF IInv, TypeOK, StartInv, ServerInv, StopInv, Starting, Closing, Stopping
<1> QED
  BY <1>1, <1>2, <1>3, <1>4, <1>5 DEF IInv

(* The return of run keeps the invariant. *)
LEMMA ExitIInv ==
  ASSUME IInv, Exit PROVE IInv'
<1> USE Tables DEF Exit, http, group
<1>1. TypeOK'
  BY DEF IInv, TypeOK
<1>2. StartInv'
  BY DEF IInv, TypeOK, StartInv, Starting, Closing
<1>3. Nested'
  BY DEF IInv, TypeOK, StartInv, Nested, Starting, Closing
<1>4. ServerInv'
  BY DEF IInv, TypeOK, StartInv, ServerInv, Starting, Closing, Active
<1>5. StopInv'
  BY DEF IInv, TypeOK, StartInv, ServerInv, StopInv, Starting, Closing, Stopping
<1> QED
  BY <1>1, <1>2, <1>3, <1>4, <1>5 DEF IInv

(* A signal keeps the invariant. *)
LEMMA SignalIInv ==
  ASSUME IInv, Signal PROVE IInv'
<1> USE Tables DEF Signal, http, group
<1>1. TypeOK'
  BY DEF IInv, TypeOK
<1>2. StartInv'
  BY DEF IInv, TypeOK, StartInv, Starting, Closing
<1>3. Nested'
  BY DEF IInv, TypeOK, StartInv, Nested, Starting, Closing
<1>4. ServerInv'
  BY DEF IInv, TypeOK, StartInv, ServerInv, Starting, Closing, Active
<1>5. StopInv'
  BY DEF IInv, TypeOK, StartInv, ServerInv, StopInv, Starting, Closing, Stopping
<1> QED
  BY <1>1, <1>2, <1>3, <1>4, <1>5 DEF IInv

(* A consumer that gives up keeps the invariant: all are stopping then. *)
LEMMA ConsumerFailsIInv ==
  ASSUME IInv, NEW m \in Members, ConsumerFails(m) PROVE IInv'
<1> USE Tables DEF ConsumerFails, Returns, http, group
<1>1. TypeOK'
  BY DEF IInv, TypeOK
<1>2. StartInv'
  BY DEF IInv, TypeOK, StartInv, Starting, Closing
<1>3. Nested'
  BY DEF IInv, TypeOK, StartInv, Nested, Starting, Closing
<1>4. ServerInv'
  BY DEF IInv, TypeOK, StartInv, ServerInv, Starting, Closing, Active
<1>5. StopInv'
  BY DEF IInv, TypeOK, StartInv, ServerInv, StopInv, Starting, Closing, Stopping
<1> QED
  BY <1>1, <1>2, <1>3, <1>4, <1>5 DEF IInv

(* A member that is stopped keeps the invariant. *)
LEMMA StopIInv ==
  ASSUME IInv, NEW m \in Members, Stop(m) PROVE IInv'
<1> USE Tables DEF Stop, Returns, http, group
<1>1. TypeOK'
  BY DEF IInv, TypeOK
<1>2. StartInv'
  BY DEF IInv, TypeOK, StartInv, Starting, Closing
<1>3. Nested'
  BY DEF IInv, TypeOK, StartInv, Nested, Starting, Closing
<1>4. ServerInv'
  BY DEF IInv, TypeOK, StartInv, ServerInv, Starting, Closing, Active
<1>5. StopInv'
  BY DEF IInv, TypeOK, StartInv, ServerInv, StopInv, Starting, Closing, Stopping
<1> QED
  BY <1>1, <1>2, <1>3, <1>4, <1>5 DEF IInv

(* The listener's error keeps the invariant: it stops the others. *)
LEMMA ApiFailsIInv ==
  ASSUME IInv, ApiFails PROVE IInv'
<1> USE Tables DEF ApiFails, Returns, http, group
<1>1. TypeOK'
  BY DEF IInv, TypeOK
<1>2. StartInv'
  BY DEF IInv, TypeOK, StartInv, Starting, Closing
<1>3. Nested'
  BY DEF IInv, TypeOK, StartInv, Nested, Starting, Closing
<1>4. ServerInv'
  BY DEF IInv, TypeOK, StartInv, ServerInv, Starting, Closing, Active
<1>5. StopInv'
  BY DEF IInv, TypeOK, StartInv, ServerInv, StopInv, Starting, Closing, Stopping
<1> QED
  BY <1>1, <1>2, <1>3, <1>4, <1>5 DEF IInv

(* The beginning of the shutdown keeps the invariant. *)
LEMMA ShutdownIInv ==
  ASSUME IInv, Shutdown PROVE IInv'
<1> USE Tables DEF Shutdown, http, group
<1>1. TypeOK'
  BY DEF IInv, TypeOK
<1>2. StartInv'
  BY DEF IInv, TypeOK, StartInv, Starting, Closing
<1>3. Nested'
  BY DEF IInv, TypeOK, StartInv, Nested, Starting, Closing
<1>4. ServerInv'
  BY DEF IInv, TypeOK, StartInv, ServerInv, Starting, Closing, Active
<1>5. StopInv'
  BY DEF IInv, TypeOK, StartInv, ServerInv, StopInv, Starting, Closing, Stopping
<1> QED
  BY <1>1, <1>2, <1>3, <1>4, <1>5 DEF IInv

(* A shutdown without active requests keeps the invariant. *)
LEMMA ShutdownDoneIInv ==
  ASSUME IInv, ShutdownDone PROVE IInv'
<1> USE Tables DEF ShutdownDone, Returns, http, group
<1>1. TypeOK'
  BY DEF IInv, TypeOK
<1>2. StartInv'
  BY DEF IInv, TypeOK, StartInv, Starting, Closing
<1>3. Nested'
  BY DEF IInv, TypeOK, StartInv, Nested, Starting, Closing
<1>4. ServerInv'
  BY DEF IInv, TypeOK, StartInv, ServerInv, Starting, Closing, Active
<1>5. StopInv'
  BY DEF IInv, TypeOK, StartInv, ServerInv, StopInv, Starting, Closing, Stopping
<1> QED
  BY <1>1, <1>2, <1>3, <1>4, <1>5 DEF IInv

(* A shutdown that runs out of time keeps the invariant: it is an error. *)
LEMMA ShutdownTimesOutIInv ==
  ASSUME IInv, ShutdownTimesOut PROVE IInv'
<1> USE Tables DEF ShutdownTimesOut, Returns, http, group
<1>1. TypeOK'
  BY DEF IInv, TypeOK
<1>2. StartInv'
  BY DEF IInv, TypeOK, StartInv, Starting, Closing
<1>3. Nested'
  BY DEF IInv, TypeOK, StartInv, Nested, Starting, Closing
<1>4. ServerInv'
  BY DEF IInv, TypeOK, StartInv, ServerInv, Starting, Closing, Active
<1>5. StopInv'
  BY DEF IInv, TypeOK, StartInv, ServerInv, StopInv, Starting, Closing, Stopping
<1> QED
  BY <1>1, <1>2, <1>3, <1>4, <1>5 DEF IInv

(* A listener that opens, fails or finds the server closed keeps the invariant. *)
LEMMA ListenIInv ==
  ASSUME IInv, Listen PROVE IInv'
<1> USE Tables DEF Listen, http, group
<1>1. TypeOK'
  BY DEF IInv, TypeOK
<1>2. StartInv'
  BY DEF IInv, TypeOK, StartInv, Starting, Closing
<1>3. Nested'
  BY DEF IInv, TypeOK, StartInv, Nested, Starting, Closing
<1>4. ServerInv'
  BY DEF IInv, TypeOK, StartInv, ServerInv, Starting, Closing, Active
<1>5. StopInv'
  BY DEF IInv, TypeOK, StartInv, ServerInv, StopInv, Starting, Closing, Stopping
<1> QED
  BY <1>1, <1>2, <1>3, <1>4, <1>5 DEF IInv

(* A listener that fails later keeps the invariant. *)
LEMMA ServeFailsIInv ==
  ASSUME IInv, ServeFails PROVE IInv'
<1> USE Tables DEF ServeFails, http, group
<1>1. TypeOK'
  BY DEF IInv, TypeOK
<1>2. StartInv'
  BY DEF IInv, TypeOK, StartInv, Starting, Closing
<1>3. Nested'
  BY DEF IInv, TypeOK, StartInv, Nested, Starting, Closing
<1>4. ServerInv'
  BY DEF IInv, TypeOK, StartInv, ServerInv, Starting, Closing, Active
<1>5. StopInv'
  BY DEF IInv, TypeOK, StartInv, ServerInv, StopInv, Starting, Closing, Stopping
<1> QED
  BY <1>1, <1>2, <1>3, <1>4, <1>5 DEF IInv

(* A new request keeps the invariant: only a running server serves. *)
LEMMA AcceptIInv ==
  ASSUME IInv, NEW q \in Requests, Accept(q) PROVE IInv'
<1> USE Tables DEF Accept, Moves, Running, http, group
<1>1. TypeOK'
  BY DEF IInv, TypeOK
<1>2. StartInv'
  BY DEF IInv, TypeOK, StartInv, Starting, Closing
<1>3. Nested'
  BY DEF IInv, TypeOK, StartInv, Nested, Starting, Closing
<1>4. ServerInv'
  BY DEF IInv, TypeOK, StartInv, ServerInv, Starting, Closing, Active
<1>5. StopInv'
  BY DEF IInv, TypeOK, StartInv, ServerInv, StopInv, Starting, Closing, Stopping
<1> QED
  BY <1>1, <1>2, <1>3, <1>4, <1>5 DEF IInv

(* A query keeps the invariant: it gets a connection of an open pool. *)
LEMMA QueryIInv ==
  ASSUME IInv, NEW q \in Requests, Query(q) PROVE IInv'
<1> USE Tables DEF Query, Moves, Running, PoolOpen, http, group
<1>1. TypeOK'
  BY DEF IInv, TypeOK
<1>2. StartInv'
  BY DEF IInv, TypeOK, StartInv, Starting, Closing
<1>3. Nested'
  BY DEF IInv, TypeOK, StartInv, Nested, Starting, Closing
<1>4. ServerInv'
  BY DEF IInv, TypeOK, StartInv, ServerInv, Starting, Closing, Active
<1>5. StopInv'
  BY DEF IInv, TypeOK, StartInv, ServerInv, StopInv, Starting, Closing, Stopping
<1> QED
  BY <1>1, <1>2, <1>3, <1>4, <1>5 DEF IInv

(* The end of a query keeps the invariant. *)
LEMMA QueryReturnsIInv ==
  ASSUME IInv, NEW q \in Requests, QueryReturns(q) PROVE IInv'
<1> USE Tables DEF QueryReturns, Moves, Running, http, group
<1>1. TypeOK'
  BY DEF IInv, TypeOK
<1>2. StartInv'
  BY DEF IInv, TypeOK, StartInv, Starting, Closing
<1>3. Nested'
  BY DEF IInv, TypeOK, StartInv, Nested, Starting, Closing
<1>4. ServerInv'
  BY DEF IInv, TypeOK, StartInv, ServerInv, Starting, Closing, Active
<1>5. StopInv'
  BY DEF IInv, TypeOK, StartInv, ServerInv, StopInv, Starting, Closing, Stopping
<1> QED
  BY <1>1, <1>2, <1>3, <1>4, <1>5 DEF IInv

(* An answer keeps the invariant. *)
LEMMA AnswerIInv ==
  ASSUME IInv, NEW q \in Requests, Answer(q) PROVE IInv'
<1> USE Tables DEF Answer, Moves, Running, http, group
<1>1. TypeOK'
  BY DEF IInv, TypeOK
<1>2. StartInv'
  BY DEF IInv, TypeOK, StartInv, Starting, Closing
<1>3. Nested'
  BY DEF IInv, TypeOK, StartInv, Nested, Starting, Closing
<1>4. ServerInv'
  BY DEF IInv, TypeOK, StartInv, ServerInv, Starting, Closing, Active
<1>5. StopInv'
  BY DEF IInv, TypeOK, StartInv, ServerInv, StopInv, Starting, Closing, Stopping
<1> QED
  BY <1>1, <1>2, <1>3, <1>4, <1>5 DEF IInv

(* A step of the service keeps the invariant.                                *)
LEMMA NextIInv == IInv /\ [Next]_vars => IInv'
<1> SUFFICES ASSUME IInv, [Next]_vars PROVE IInv'
  OBVIOUS
<1>1. CASE UNCHANGED vars
  BY <1>1 DEF vars, group, http, IInv, TypeOK, StartInv, Nested, ServerInv, StopInv,
              Starting, Closing, Active, Stopping
<1>2. CASE RunStep
  BY <1>2, StartStepIInv, StartGroupIInv, StartFailsIInv, WaitIInv, CloseIInv, DrainedIInv,
     ExitIInv DEF RunStep
<1>3. CASE \E m \in Members : ConsumerFails(m) \/ MemberStep(m)
  BY <1>3, ConsumerFailsIInv, StopIInv, ApiFailsIInv, ShutdownIInv, ShutdownDoneIInv,
     ShutdownTimesOutIInv DEF MemberStep
<1>4. CASE Signal \/ Listen \/ ServeFails
  BY <1>4, SignalIInv, ListenIInv, ServeFailsIInv
<1>5. CASE \E q \in Requests : RequestStep(q)
  BY <1>5, AcceptIInv, QueryIInv, QueryReturnsIInv, AnswerIInv DEF RequestStep
<1> QED
  BY <1>1, <1>2, <1>3, <1>4, <1>5 DEF Next

(* The strengthened invariant holds in every state.                          *)
THEOREM ServiceIInv == Spec => []IInv
<1> QED
  BY InitIInv, NextIInv, PTL DEF Spec

(* Nothing is closed under its users: what ClosedAfterUse says of the        *)
(* deferred calls of run.                                                    *)
THEOREM ServiceClosedAfterUse == Spec => []ClosedAfterUse
<1>1. ASSUME IInv PROVE ClosedAfterUse
  <2> USE <1>1, Tables
  <2>1. ASSUME NEW m \in Members, member[m] \in {"running", "shutdown"}
        PROVE  Uses[m] \subseteq open /\ main = "wait"
    BY <2>1, UsesValues DEF IInv, TypeOK, StartInv, Starting, Closing
  <2>2. \A q \in Requests : request[q] = "querying" => "repository" \in open
    BY DEF IInv, ServerInv
  <2> QED
    BY <2>1, <2>2 DEF IInv, Nested, ClosedAfterUse
<1> QED
  BY <1>1, ServiceIInv, PTL

(* No member of the group returns while the others are to go on.             *)
THEOREM ServiceNobodyStopsAlone == Spec => []NobodyStopsAlone
<1>1. ASSUME IInv PROVE NobodyStopsAlone
  BY <1>1 DEF IInv, StopInv, NobodyStopsAlone
<1> QED
  BY <1>1, ServiceIInv, PTL

(* The process exits with 0 only after a stop that was asked for, with       *)
(* everything released and every accepted request answered.                  *)
THEOREM ServiceCleanExit == Spec => []CleanExit
<1>1. ASSUME IInv PROVE CleanExit
  <2> SUFFICES ASSUME main = "exited", result = "nil"
               PROVE  /\ signalled /\ ~failed /\ open = {}
                      /\ \A q \in Requests : ~Active(q)
    BY DEF CleanExit
  <2>1. ~failed /\ member["api"] = "returned" /\ open = {}
    BY <1>1, Tables DEF IInv, StopInv, StartInv
  <2>2. signalled
    BY <1>1, <2>1, Tables DEF IInv, StopInv, Stopping
  <2> QED
    BY <1>1, <2>1, <2>2 DEF IInv, ServerInv
<1> QED
  BY <1>1, ServiceIInv, PTL
=============================================================================
