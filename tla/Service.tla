------------------------------ MODULE Service ------------------------------
(* cmd/fraud-service: run acquires what the service needs, starts the four   *)
(* members of its errgroup, waits for all of them, and releases by deferred  *)
(* calls what it has acquired.  The member "api" is httpapi.Server.Run, with *)
(* the goroutine that listens and the requests it serves.  The other members *)
(* are modelled in Consumer and Outbox: here they run, fail or stop.         *)
CONSTANT Requests  \* requests that clients send

VARIABLES
  main,      \* the step run is at
  open,      \* what it has acquired and not yet closed
  result,    \* what it is going to return
  signalled, \* is ctx done?
  member,    \* member[m]: what a member of the group does
  failed,    \* has a member returned an error? the group keeps the first
  listener,  \* the goroutine of ListenAndServe
  request    \* request[q]: how far a request has come

http == <<listener, request>>
group == <<member, failed>>
vars == <<main, open, result, signalled, group, http>>

(* The steps of the start, each with the one that follows it.                *)
Then == [flags |-> "repository", repository |-> "migrate", migrate |-> "model",
         model |-> "policy", policy |-> "producer", producer |-> "transactionConsumer",
         transactionConsumer |-> "labelConsumer", labelConsumer |-> "wait"]

(* What has a deferred Close, and what is acquired after it.                 *)
Later == [repository |-> {"producer", "transactionConsumer", "labelConsumer"},
          producer |-> {"transactionConsumer", "labelConsumer"},
          transactionConsumer |-> {"labelConsumer"},
          labelConsumer |-> {}]
Resources == DOMAIN Later

(* The members, and what each works with.                                    *)
Uses == [transactions |-> {"repository", "producer", "transactionConsumer"},
         labels |-> {"repository", "producer", "labelConsumer"},
         outbox |-> {"repository", "producer"},
         api |-> {"repository"}]
Members == DOMAIN Uses

TypeOK ==
  /\ main \in DOMAIN Then \cup {"wait", "close", "drain", "exited"}
  /\ open \subseteq Resources
  /\ result \in {"none", "nil", "error"}
  /\ signalled \in BOOLEAN
  /\ member \in [Members -> {"idle", "running", "shutdown", "returned"}]
  /\ failed \in BOOLEAN
  /\ listener \in {"down", "starting", "serving", "failed", "closed"}
  /\ request \in [Requests -> {"none", "handling", "querying", "answered"}]

Init ==
  /\ main = "flags" /\ open = {} /\ result = "none"
  /\ signalled = FALSE
  /\ member = [m \in Members |-> "idle"] /\ failed = FALSE
  /\ listener = "down" /\ request = [q \in Requests |-> "none"]

-----------------------------------------------------------------------------
(* run                                                                       *)

(* SIGINT or SIGTERM; a second one changes nothing.                          *)
Signal ==
  /\ ~signalled /\ main \notin {"flags", "exited"}
  /\ signalled' = TRUE
  /\ UNCHANGED <<main, open, result, group, http>>

Acquired == open' = open \cup ({main} \cap Resources)

StartStep ==
  /\ main \in DOMAIN Then \ {"labelConsumer"}
  /\ main' = Then[main]
  /\ Acquired
  /\ UNCHANGED <<result, signalled, group, http>>

(* The last step, and the four calls of group.Go.                            *)
StartGroup ==
  /\ main = "labelConsumer"
  /\ main' = Then[main]
  /\ Acquired
  /\ member' = [m \in Members |-> "running"]
  /\ listener' = "starting"
  /\ UNCHANGED <<result, signalled, failed, request>>

(* A step of the start errs: an early return.                                *)
StartFails ==
  /\ main \in DOMAIN Then
  /\ main' = "close"
  /\ result' = "error"
  /\ UNCHANGED <<open, signalled, group, http>>

(* groupCtx is done: a signal, or the first error of a member.               *)
Stopping == signalled \/ failed

(* Mistaken variant: the first error is returned, the others are left alone. *)
WaitFirst ==
  /\ main = "wait"
  /\ \E m \in Members : member[m] = "returned"
  /\ main' = "close"
  /\ result' = IF failed THEN "error" ELSE "nil"
  /\ UNCHANGED <<open, signalled, group, http>>

Wait ==
  /\ main = "wait"
  /\ \A m \in Members : member[m] = "returned"
  /\ main' = "close"
  /\ result' = IF failed THEN "error" ELSE "nil"
  /\ UNCHANGED <<open, signalled, group, http>>

(* The deferred calls, the last acquired first.  Closing the pool refuses    *)
(* new queries at once, and then waits for those that hold a connection.     *)
Close(r) ==
  /\ main = "close"
  /\ r \in open /\ Later[r] \cap open = {}
  /\ IF r = "repository"
     THEN main' = "drain" /\ UNCHANGED open
     ELSE open' = open \ {r} /\ UNCHANGED main
  /\ UNCHANGED <<result, signalled, group, http>>

Drained ==
  /\ main = "drain"
  /\ \A q \in Requests : request[q] # "querying"
  /\ open' = open \ {"repository"}
  /\ main' = "close"
  /\ UNCHANGED <<result, signalled, group, http>>

Exit ==
  /\ main = "close" /\ open = {}
  /\ main' = "exited"
  /\ UNCHANGED <<open, result, signalled, group, http>>

-----------------------------------------------------------------------------
(* The members                                                               *)

Returns(m, error) ==
  /\ member' = [member EXCEPT ![m] = "returned"]
  /\ failed' = (failed \/ error)

(* Consumer.Run gives up (a fetch, a commit or a dead letter that errs).     *)
ConsumerFails(m) ==
  /\ m \in {"transactions", "labels"} /\ member[m] = "running"
  /\ Returns(m, TRUE)
  /\ UNCHANGED <<main, open, result, signalled, http>>

(* Consumer.Run and Outbox.Run return nil when groupCtx is done.             *)
Stop(m) ==
  /\ m # "api" /\ member[m] = "running" /\ Stopping
  /\ Returns(m, FALSE)
  /\ UNCHANGED <<main, open, result, signalled, http>>

(* Mistaken variant: the error of the listener is only logged.               *)
ApiFailsQuietly ==
  /\ member["api"] = "running" /\ listener = "failed"
  /\ Returns("api", FALSE)
  /\ UNCHANGED <<main, open, result, signalled, http>>

(* Server.Run: the error of the listener, if the select finds it first.      *)
ApiFails ==
  /\ member["api"] = "running" /\ listener = "failed"
  /\ Returns("api", TRUE)
  /\ UNCHANGED <<main, open, result, signalled, http>>

(* groupCtx is done: Shutdown closes the listener.                           *)
Shutdown ==
  /\ member["api"] = "running" /\ Stopping
  /\ member' = [member EXCEPT !["api"] = "shutdown"]
  /\ listener' = IF listener = "serving" THEN "closed" ELSE listener
  /\ UNCHANGED <<main, open, result, signalled, failed, request>>

Active(q) == request[q] \in {"handling", "querying"}

ShutdownDone ==
  /\ member["api"] = "shutdown"
  /\ \A q \in Requests : ~Active(q)
  /\ Returns("api", FALSE)
  /\ UNCHANGED <<main, open, result, signalled, http>>

(* Mistaken variant: Shutdown(context.Background()).                        *)
ShutdownWaits == ShutdownDone

(* Mistaken variant: the error of Shutdown is dropped.                       *)
ShutdownTimesOutQuietly ==
  /\ member["api"] = "shutdown"
  /\ \E q \in Requests : Active(q)
  /\ Returns("api", FALSE)
  /\ UNCHANGED <<main, open, result, signalled, http>>

(* Ten seconds are over: Shutdown errs, and the requests go on.              *)
ShutdownTimesOut ==
  /\ member["api"] = "shutdown"
  /\ \E q \in Requests : Active(q)
  /\ Returns("api", TRUE)
  /\ UNCHANGED <<main, open, result, signalled, http>>

-----------------------------------------------------------------------------
(* The listener and the requests                                             *)

Running == main # "exited"

(* ListenAndServe: a server that is shutting down does not serve.            *)
Listen ==
  /\ Running /\ listener = "starting"
  /\ listener' \in IF member["api"] = "running" THEN {"serving", "failed"} ELSE {"closed"}
  /\ UNCHANGED <<main, open, result, signalled, group, request>>

ServeFails ==
  /\ Running /\ listener = "serving"
  /\ listener' = "failed"
  /\ UNCHANGED <<main, open, result, signalled, group, request>>

Moves(q, from, to) ==
  /\ Running /\ request[q] = from
  /\ request' = [request EXCEPT ![q] = to]
  /\ UNCHANGED <<main, open, result, signalled, group, listener>>

Accept(q) == listener = "serving" /\ Moves(q, "none", "handling")

(* The handler's one query gets a connection, if the pool is not closed.     *)
PoolOpen == "repository" \in open /\ main # "drain"
Query(q) == PoolOpen /\ Moves(q, "handling", "querying")
QueryReturns(q) == Moves(q, "querying", "answered")

(* An answer without a query: /healthz, /metrics, a bad parameter, or an     *)
(* error of the pool.                                                        *)
Answer(q) == Moves(q, "handling", "answered")

-----------------------------------------------------------------------------
RunStep ==
  \/ StartStep \/ StartGroup \/ StartFails \/ Wait
  \/ (\E r \in Resources : Close(r)) \/ Drained \/ Exit
MemberStep(m) ==
  \/ Stop(m)
  \/ m = "api" /\ (ApiFails \/ Shutdown \/ ShutdownDone \/ ShutdownTimesOut)
RequestStep(q) == Accept(q) \/ Query(q) \/ QueryReturns(q) \/ Answer(q)

Next ==
  \/ RunStep \/ Signal
  \/ \E m \in Members : ConsumerFails(m) \/ MemberStep(m)
  \/ Listen \/ ServeFails
  \/ \E q \in Requests : RequestStep(q)

(* Goroutines are scheduled, the steps of the start and the deferred calls   *)
(* return, a cancelled member returns (Consumer's StopTerminates), the       *)
(* timer of the shutdown fires, and Postgres answers or fails a query.  A    *)
(* client may take for ever.                                                 *)
Spec ==
  /\ Init /\ [][Next]_vars
  /\ WF_vars(RunStep) /\ WF_vars(Listen)
  /\ \A m \in Members : WF_vars(MemberStep(m))
  /\ \A q \in Requests : WF_vars(QueryReturns(q))

-----------------------------------------------------------------------------
(* Nothing is closed under its users, on any path through run: a member      *)
(* that works and a query that holds a connection find open what they use,   *)
(* and what is still open finds open what was acquired before it.            *)
ClosedAfterUse ==
  /\ \A m \in Members : member[m] \in {"running", "shutdown"} => Uses[m] \subseteq open /\ main = "wait"
  /\ \A q \in Requests : request[q] = "querying" => "repository" \in open
  /\ \A r \in Resources : r \in open => \A s \in Resources : r \in Later[s] => s \in open

(* The service never goes on with a part of it missing: a member returns     *)
(* only when all are being stopped.                                          *)
NobodyStopsAlone ==
  \A m \in Members : member[m] = "returned" => Stopping

(* Exit code 0 means a stop that was asked for, all resources released, and  *)
(* no request that was accepted and not answered.                            *)
CleanExit ==
  main = "exited" /\ result = "nil" =>
    /\ signalled /\ ~failed /\ open = {}
    /\ \A q \in Requests : ~Active(q)

(* A signal at any time, also during the start, and the failure of any       *)
(* member end the process, although a client may never take its answer.      *)
StopEnds == Stopping ~> main = "exited"
=============================================================================
