-------------------------- MODULE Simulator_proofs --------------------------
(* Theorems about Simulator, for every number of transactions and every      *)
(* capacity of the queue.                                                    *)
EXTENDS Simulator, TLAPS

-----------------------------------------------------------------------------
(* The inductive invariant                                                   *)

(* How far run is, and why it stopped. *)
EmitterInv ==
  /\ emitter \in {"pace", "publish", "queue"} =>
       emitted < Count /\ reason = "none" /\ result = "none"
  /\ emitter = "join" => reason # "none" /\ result = "none"
  /\ reason = "end" => emitted = Count
  /\ reason \in {"error", "done"} => cancelled
  /\ 1..emitted \subseteq transactions
  /\ emitter = "queue" => emitted + 1 \in transactions

(* The labels that were sent, the one that the publisher holds and those in  *)
(* the queue are 1..emitted, until the publisher gives up.                   *)
BacklogInv ==
  /\ \A i \in 1..Len(sentLabels) : sentLabels[i] = i
  /\ Len(sentLabels) <= emitted
  /\ publisher = "receive" =>
       /\ emitted = Len(sentLabels) + Len(labels)
       /\ \A i \in 1..Len(labels) : labels[i] = Len(sentLabels) + i
  /\ publisher \in {"wait", "publish"} =>
       /\ queued = Len(sentLabels) + 1
       /\ emitted = queued + Len(labels)
       /\ \A i \in 1..Len(labels) : labels[i] = queued + i

(* The one result of the publisher: it is in labelErr from its exit until    *)
(* run, which takes it once, returns.                                        *)
ResultInv ==
  /\ publisher # "returned" => labelErr = "empty"
  /\ publisher = "returned" /\ emitter # "returned" => labelErr # "empty"
  /\ labelErr = "nil" => Closed /\ Len(sentLabels) = emitted

IInv == TypeOK /\ EmitterInv /\ BacklogInv /\ ResultInv /\ ClosedIsQuiet /\ CleanFinish

(* The initial state satisfies the invariant. *)
LEMMA InitIInv == Init => IInv
<1> SUFFICES ASSUME Init PROVE IInv OBVIOUS
<1> USE DEF Init
<1>1. TypeOK
  <2>1. labels \in Seq(1..Count) /\ Len(labels) <= QueueCap
    BY SimulatorAssumption DEF TypeOK, run, publishLabels, topics
  <2>2. sentLabels \in Seq(1..Count) BY SimulatorAssumption DEF TypeOK, run, publishLabels, topics
  <2>3. paced \in BOOLEAN /\ cancelled \in BOOLEAN
    BY SimulatorAssumption DEF TypeOK, run, publishLabels, topics
  <2>4. emitted \in 0..Count /\ queued \in 0..Count /\ transactions \subseteq 1..Count
    BY SimulatorAssumption DEF TypeOK, run, publishLabels, topics
  <2>5. /\ emitter \in {"pace", "publish", "queue", "join", "returned"}
        /\ reason \in {"none", "error", "done", "end"}
        /\ result \in {"none", "nil", "error"}
        /\ publisher \in {"receive", "wait", "publish", "returned"}
        /\ labelErr \in {"empty", "nil", "error"}
    BY SimulatorAssumption DEF TypeOK, run, publishLabels, topics
  <2> QED BY <2>1, <2>2, <2>3, <2>4, <2>5 DEF TypeOK
<1>2. EmitterInv BY SimulatorAssumption DEF EmitterInv
<1>3. BacklogInv BY DEF BacklogInv
<1>4. ResultInv /\ ClosedIsQuiet /\ CleanFinish BY DEF ResultInv, ClosedIsQuiet, CleanFinish
<1> QED BY <1>1, <1>2, <1>3, <1>4 DEF IInv

(* A step that changes nothing keeps the invariant. *)
LEMMA StutterIInv == IInv /\ UNCHANGED vars => IInv'
BY DEF IInv, TypeOK, EmitterInv, BacklogInv, ResultInv, ClosedIsQuiet, CleanFinish, Closed,
       vars, run, publishLabels, topics

(* An interrupt keeps the invariant. *)
LEMMA InterruptIInv == IInv /\ Interrupt => IInv'
<1> SUFFICES ASSUME IInv, Interrupt PROVE IInv' OBVIOUS
<1> USE DEF IInv, Interrupt
<1>1. TypeOK'
  <2>1. labels' \in Seq(1..Count) /\ Len(labels') <= QueueCap
    BY DEF TypeOK, run, publishLabels, topics
  <2>2. sentLabels' \in Seq(1..Count) BY DEF TypeOK, run, publishLabels, topics
  <2>3. paced' \in BOOLEAN /\ cancelled' \in BOOLEAN
    BY DEF TypeOK, run, publishLabels, topics
  <2>4. emitted' \in 0..Count /\ queued' \in 0..Count /\ transactions' \subseteq 1..Count
    BY SimulatorAssumption DEF TypeOK, EmitterInv, run, publishLabels, topics
  <2>5. /\ emitter' \in {"pace", "publish", "queue", "join", "returned"}
        /\ reason' \in {"none", "error", "done", "end"}
        /\ result' \in {"none", "nil", "error"}
        /\ publisher' \in {"receive", "wait", "publish", "returned"}
        /\ labelErr' \in {"empty", "nil", "error"}
    BY DEF TypeOK, run, publishLabels, topics
  <2> QED BY <2>1, <2>2, <2>3, <2>4, <2>5 DEF TypeOK
<1>2. EmitterInv'
  BY DEF TypeOK, EmitterInv, run, publishLabels, topics
<1>3. BacklogInv'
  BY DEF TypeOK, BacklogInv, run, publishLabels, topics
<1>4. ResultInv'
  BY DEF TypeOK, EmitterInv, ResultInv, Closed, run, publishLabels, topics
<1>5. ClosedIsQuiet'
  BY DEF ClosedIsQuiet, ResultInv, run, publishLabels, topics
<1>6. CleanFinish'
  BY DEF TypeOK, ClosedIsQuiet, CleanFinish, EmitterInv, run, publishLabels, topics
<1> QED BY <1>1, <1>2, <1>3, <1>4, <1>5, <1>6

(* The end of a pause keeps the invariant. *)
LEMMA TickIInv == IInv /\ Tick => IInv'
<1> SUFFICES ASSUME IInv, Tick PROVE IInv' OBVIOUS
<1> USE DEF IInv, Tick, GoTo
<1>1. TypeOK'
  <2>1. labels' \in Seq(1..Count) /\ Len(labels') <= QueueCap
    BY DEF TypeOK, run, publishLabels, topics
  <2>2. sentLabels' \in Seq(1..Count) BY DEF TypeOK, run, publishLabels, topics
  <2>3. paced' \in BOOLEAN /\ cancelled' \in BOOLEAN
    BY DEF TypeOK, run, publishLabels, topics
  <2>4. emitted' \in 0..Count /\ queued' \in 0..Count /\ transactions' \subseteq 1..Count
    BY SimulatorAssumption DEF TypeOK, EmitterInv, run, publishLabels, topics
  <2>5. /\ emitter' \in {"pace", "publish", "queue", "join", "returned"}
        /\ reason' \in {"none", "error", "done", "end"}
        /\ result' \in {"none", "nil", "error"}
        /\ publisher' \in {"receive", "wait", "publish", "returned"}
        /\ labelErr' \in {"empty", "nil", "error"}
    BY DEF TypeOK, run, publishLabels, topics
  <2> QED BY <2>1, <2>2, <2>3, <2>4, <2>5 DEF TypeOK
<1>2. EmitterInv'
  BY DEF TypeOK, EmitterInv, run, publishLabels, topics
<1>3. BacklogInv'
  BY DEF TypeOK, BacklogInv, run, publishLabels, topics
<1>4. ResultInv'
  BY DEF TypeOK, EmitterInv, ResultInv, Closed, run, publishLabels, topics
<1>5. ClosedIsQuiet'
  BY DEF ClosedIsQuiet, ResultInv, run, publishLabels, topics
<1>6. CleanFinish'
  BY DEF TypeOK, ClosedIsQuiet, CleanFinish, EmitterInv, run, publishLabels, topics
<1> QED BY <1>1, <1>2, <1>3, <1>4, <1>5, <1>6

(* The early return on the publisher's result keeps the invariant: run is in *)
(* its loop, so that this result is an error.                                *)
LEMMA FailedIInv ==
  IInv /\ emitter \in {"pace", "queue"} /\ Failed => IInv'
<1> SUFFICES ASSUME IInv, emitter \in {"pace", "queue"}, Failed PROVE IInv' OBVIOUS
<1> USE DEF IInv, Failed
<1>1. labelErr = "error" BY DEF TypeOK, ResultInv, Closed
<1>2. TypeOK' BY <1>1 DEF TypeOK, publishLabels, topics
<1>3. EmitterInv' BY DEF TypeOK, EmitterInv, publishLabels, topics
<1>4. BacklogInv' BY DEF TypeOK, BacklogInv, publishLabels, topics
<1>5. ResultInv' BY DEF TypeOK, ResultInv, publishLabels, topics
<1>6. ClosedIsQuiet' BY DEF ClosedIsQuiet, ResultInv, publishLabels
<1>7. CleanFinish' BY <1>1 DEF CleanFinish, publishLabels, topics
<1> QED BY <1>2, <1>3, <1>4, <1>5, <1>6, <1>7

(* The branch of ctx.Done() keeps the invariant. *)
LEMMA InterruptedIInv ==
  IInv /\ emitter \in {"pace", "queue"} /\ Interrupted => IInv'
<1> SUFFICES ASSUME IInv, emitter \in {"pace", "queue"}, Interrupted PROVE IInv' OBVIOUS
<1> USE DEF IInv, Interrupted, Stop
<1>1. TypeOK' BY DEF TypeOK, publishLabels, topics
<1>2. EmitterInv' BY DEF TypeOK, EmitterInv, publishLabels, topics
<1>3. BacklogInv' BY DEF TypeOK, BacklogInv, publishLabels, topics
<1>4. ResultInv' BY DEF TypeOK, ResultInv, Closed, publishLabels, topics
<1>5. ClosedIsQuiet' /\ CleanFinish'
  BY DEF ClosedIsQuiet, CleanFinish, EmitterInv, publishLabels, topics
<1> QED BY <1>1, <1>2, <1>3, <1>4, <1>5

(* A sent transaction keeps the invariant. *)
LEMMA TransactionSentIInv == IInv /\ TransactionSent => IInv'
<1> SUFFICES ASSUME IInv, TransactionSent PROVE IInv' OBVIOUS
<1> USE DEF IInv, TransactionSent, GoTo
<1>1. TypeOK'
  <2>1. labels' \in Seq(1..Count) /\ Len(labels') <= QueueCap
    BY DEF TypeOK, run, publishLabels, topics
  <2>2. sentLabels' \in Seq(1..Count) BY DEF TypeOK, run, publishLabels, topics
  <2>3. paced' \in BOOLEAN /\ cancelled' \in BOOLEAN
    BY DEF TypeOK, run, publishLabels, topics
  <2>4. emitted' \in 0..Count /\ queued' \in 0..Count /\ transactions' \subseteq 1..Count
    BY SimulatorAssumption DEF TypeOK, EmitterInv, run, publishLabels, topics
  <2>5. /\ emitter' \in {"pace", "publish", "queue", "join", "returned"}
        /\ reason' \in {"none", "error", "done", "end"}
        /\ result' \in {"none", "nil", "error"}
        /\ publisher' \in {"receive", "wait", "publish", "returned"}
        /\ labelErr' \in {"empty", "nil", "error"}
    BY DEF TypeOK, run, publishLabels, topics
  <2> QED BY <2>1, <2>2, <2>3, <2>4, <2>5 DEF TypeOK
<1>2. EmitterInv'
  BY DEF TypeOK, EmitterInv, run, publishLabels, topics
<1>3. BacklogInv'
  BY DEF TypeOK, BacklogInv, run, publishLabels, topics
<1>4. ResultInv'
  BY DEF TypeOK, EmitterInv, ResultInv, Closed, run, publishLabels, topics
<1>5. ClosedIsQuiet'
  BY DEF ClosedIsQuiet, ResultInv, run, publishLabels, topics
<1>6. CleanFinish'
  BY DEF TypeOK, ClosedIsQuiet, CleanFinish, EmitterInv, run, publishLabels, topics
<1> QED BY <1>1, <1>2, <1>3, <1>4, <1>5, <1>6

(* A failed transaction keeps the invariant. *)
LEMMA TransactionFailsIInv == IInv /\ TransactionFails => IInv'
<1> SUFFICES ASSUME IInv, TransactionFails PROVE IInv' OBVIOUS
<1> USE DEF IInv, TransactionFails, Stop
<1>1. TypeOK'
  <2>1. labels' \in Seq(1..Count) /\ Len(labels') <= QueueCap
    BY DEF TypeOK, run, publishLabels, topics
  <2>2. sentLabels' \in Seq(1..Count) BY DEF TypeOK, run, publishLabels, topics
  <2>3. paced' \in BOOLEAN /\ cancelled' \in BOOLEAN
    BY DEF TypeOK, run, publishLabels, topics
  <2>4. emitted' \in 0..Count /\ queued' \in 0..Count /\ transactions' \subseteq 1..Count
    BY SimulatorAssumption DEF TypeOK, EmitterInv, run, publishLabels, topics
  <2>5. /\ emitter' \in {"pace", "publish", "queue", "join", "returned"}
        /\ reason' \in {"none", "error", "done", "end"}
        /\ result' \in {"none", "nil", "error"}
        /\ publisher' \in {"receive", "wait", "publish", "returned"}
        /\ labelErr' \in {"empty", "nil", "error"}
    BY DEF TypeOK, run, publishLabels, topics
  <2> QED BY <2>1, <2>2, <2>3, <2>4, <2>5 DEF TypeOK
<1>2. EmitterInv'
  BY DEF TypeOK, EmitterInv, run, publishLabels, topics
<1>3. BacklogInv'
  BY DEF TypeOK, BacklogInv, run, publishLabels, topics
<1>4. ResultInv'
  BY DEF TypeOK, EmitterInv, ResultInv, Closed, run, publishLabels, topics
<1>5. ClosedIsQuiet'
  BY DEF ClosedIsQuiet, ResultInv, run, publishLabels, topics
<1>6. CleanFinish'
  BY DEF TypeOK, ClosedIsQuiet, CleanFinish, EmitterInv, run, publishLabels, topics
<1> QED BY <1>1, <1>2, <1>3, <1>4, <1>5, <1>6

(* A queued label keeps the invariant, also when it is the last. *)
LEMMA EnqueueIInv == IInv /\ Enqueue => IInv'
<1> SUFFICES ASSUME IInv, Enqueue PROVE IInv' OBVIOUS
<1> USE DEF IInv, Enqueue, Stop, More
<1>1. TypeOK'
  <2>1. labels' \in Seq(1..Count) /\ Len(labels') <= QueueCap
    <3>1. emitted + 1 \in 1..Count BY SimulatorAssumption DEF TypeOK, EmitterInv
    <3> QED BY <3>1, SimulatorAssumption DEF TypeOK
  <2>2. sentLabels' \in Seq(1..Count) BY DEF TypeOK, run, publishLabels, topics
  <2>3. paced' \in BOOLEAN /\ cancelled' \in BOOLEAN
    BY DEF TypeOK, run, publishLabels, topics
  <2>4. emitted' \in 0..Count /\ queued' \in 0..Count /\ transactions' \subseteq 1..Count
    BY SimulatorAssumption DEF TypeOK, EmitterInv, run, publishLabels, topics
  <2>5. /\ emitter' \in {"pace", "publish", "queue", "join", "returned"}
        /\ reason' \in {"none", "error", "done", "end"}
        /\ result' \in {"none", "nil", "error"}
        /\ publisher' \in {"receive", "wait", "publish", "returned"}
        /\ labelErr' \in {"empty", "nil", "error"}
    BY DEF TypeOK, run, publishLabels, topics
  <2> QED BY <2>1, <2>2, <2>3, <2>4, <2>5 DEF TypeOK
<1>2. EmitterInv'
  <2>1. emitted' = emitted + 1 /\ emitted' \in 1..Count /\ UNCHANGED topics
    BY SimulatorAssumption DEF TypeOK, EmitterInv
  <2>2. 1..emitted' \subseteq transactions'
    <3>1. 1..(emitted + 1) = (1..emitted) \cup {emitted + 1} BY DEF TypeOK
    <3> QED BY <2>1, <3>1 DEF EmitterInv, topics
  <2>3. CASE emitted' < Count
    BY <2>1, <2>2, <2>3 DEF TypeOK, EmitterInv
  <2>4. CASE ~(emitted' < Count)
    <3>1. emitted' = Count BY <2>1, <2>4, SimulatorAssumption
    <3> QED BY <2>1, <2>2, <2>4, <3>1 DEF TypeOK, EmitterInv
  <2> QED BY <2>3, <2>4
<1>3. BacklogInv'
  <2>1. /\ emitted' = emitted + 1 /\ emitted \in Nat /\ Len(sentLabels) \in Nat
        /\ UNCHANGED <<publisher, queued, sentLabels>>
    BY DEF TypeOK, publishLabels, topics
  <2>2. /\ Len(labels') = Len(labels) + 1 /\ Len(labels) \in Nat
        /\ \A i \in 1..Len(labels) : labels'[i] = labels[i]
        /\ labels'[Len(labels) + 1] = emitted + 1
    BY DEF TypeOK
  <2>3. \A i \in 1..Len(labels') : i \in 1..Len(labels) \/ i = Len(labels) + 1
    BY <2>2
  <2>4. CASE publisher = "receive"
    <3>1. emitted = Len(sentLabels) + Len(labels) BY <2>4 DEF BacklogInv
    <3>2. \A i \in 1..Len(labels) : labels[i] = Len(sentLabels) + i BY <2>4 DEF BacklogInv
    <3>3. ASSUME NEW i \in 1..Len(labels') PROVE labels'[i] = Len(sentLabels) + i
      <4>1. CASE i \in 1..Len(labels) BY <2>2, <3>2, <4>1
      <4>2. CASE i = Len(labels) + 1
        <5>1. labels'[i] = emitted + 1 BY <2>2, <4>2
        <5> QED BY <2>1, <2>2, <3>1, <4>2, <5>1
      <4> QED BY <2>3, <4>1, <4>2
    <3>4. emitted' = Len(sentLabels') + Len(labels') BY <2>1, <2>2, <3>1
    <3>5. Len(sentLabels') <= emitted' BY <2>1, <2>2, <3>4
    <3> QED BY <2>1, <2>4, <3>3, <3>4, <3>5 DEF BacklogInv
  <2>5. CASE publisher \in {"wait", "publish"}
    <3>1. queued \in Nat BY DEF TypeOK
    <3>2. queued = Len(sentLabels) + 1 /\ emitted = queued + Len(labels)
      BY <2>5 DEF BacklogInv
    <3>3. \A i \in 1..Len(labels) : labels[i] = queued + i BY <2>5 DEF BacklogInv
    <3>4. ASSUME NEW i \in 1..Len(labels') PROVE labels'[i] = queued + i
      <4>1. CASE i \in 1..Len(labels) BY <2>2, <3>3, <4>1
      <4>2. CASE i = Len(labels) + 1
        <5>1. labels'[i] = emitted + 1 BY <2>2, <4>2
        <5> QED BY <2>1, <2>2, <3>1, <3>2, <4>2, <5>1
      <4> QED BY <2>3, <4>1, <4>2
    <3>5. emitted' = queued + Len(labels') BY <2>1, <2>2, <3>1, <3>2
    <3>6. Len(sentLabels') <= emitted' BY <2>1, <2>2, <3>1, <3>2, <3>5
    <3> QED BY <2>1, <2>5, <3>2, <3>4, <3>5, <3>6 DEF BacklogInv
  <2>6. CASE publisher = "returned"
    BY <2>1, <2>6 DEF BacklogInv
  <2> QED BY <2>4, <2>5, <2>6 DEF TypeOK
<1>4. ResultInv'
  BY DEF TypeOK, EmitterInv, ResultInv, Closed, run, publishLabels, topics
<1>5. ClosedIsQuiet'
  BY DEF ClosedIsQuiet, ResultInv, run, publishLabels, topics
<1>6. CleanFinish'
  BY DEF TypeOK, ClosedIsQuiet, CleanFinish, EmitterInv, run, publishLabels, topics
<1> QED BY <1>1, <1>2, <1>3, <1>4, <1>5, <1>6

(* The end of run keeps the invariant. *)
LEMMA JoinIInv == IInv /\ Join => IInv'
<1> SUFFICES ASSUME IInv, Join PROVE IInv' OBVIOUS
<1> USE DEF IInv, Join, Returns
<1>1. TypeOK'
  <2>1. labels' \in Seq(1..Count) /\ Len(labels') <= QueueCap
    BY DEF TypeOK, run, publishLabels, topics
  <2>2. sentLabels' \in Seq(1..Count) BY DEF TypeOK, run, publishLabels, topics
  <2>3. paced' \in BOOLEAN /\ cancelled' \in BOOLEAN
    BY DEF TypeOK, run, publishLabels, topics
  <2>4. emitted' \in 0..Count /\ queued' \in 0..Count /\ transactions' \subseteq 1..Count
    BY SimulatorAssumption DEF TypeOK, EmitterInv, run, publishLabels, topics
  <2>5. /\ emitter' \in {"pace", "publish", "queue", "join", "returned"}
        /\ reason' \in {"none", "error", "done", "end"}
        /\ result' \in {"none", "nil", "error"}
        /\ publisher' \in {"receive", "wait", "publish", "returned"}
        /\ labelErr' \in {"empty", "nil", "error"}
    BY DEF TypeOK, run, publishLabels, topics
  <2> QED BY <2>1, <2>2, <2>3, <2>4, <2>5 DEF TypeOK
<1>2. EmitterInv'
  BY DEF TypeOK, EmitterInv, run, publishLabels, topics
<1>3. BacklogInv'
  BY DEF TypeOK, BacklogInv, run, publishLabels, topics
<1>4. ResultInv'
  BY DEF TypeOK, EmitterInv, ResultInv, Closed, run, publishLabels, topics
<1>5. ClosedIsQuiet'
  BY DEF ClosedIsQuiet, ResultInv, run, publishLabels, topics
<1>6. CleanFinish'
  <2> SUFFICES ASSUME result' = "nil", ~cancelled
               PROVE  /\ transactions = 1..Count
                      /\ sentLabels = [n \in 1..Count |-> n]
    BY DEF CleanFinish, topics
  <2>1. reason # "error" /\ labelErr = "nil" BY DEF TypeOK
  <2>2. reason = "end" BY <2>1 DEF TypeOK, EmitterInv
  <2>3. emitted = Count /\ Len(sentLabels) = Count BY <2>1, <2>2 DEF EmitterInv, ResultInv
  <2>4. transactions = 1..Count BY <2>3 DEF TypeOK, EmitterInv
  <2>5. /\ sentLabels = [n \in 1..Len(sentLabels) |-> sentLabels[n]]
    BY DEF TypeOK
  <2> QED BY <2>3, <2>4, <2>5 DEF BacklogInv
<1> QED BY <1>1, <1>2, <1>3, <1>4, <1>5, <1>6

(* A label that leaves the queue keeps the invariant. *)
LEMMA ReceiveIInv == IInv /\ Receive => IInv'
<1> SUFFICES ASSUME IInv, Receive PROVE IInv' OBVIOUS
<1> USE DEF IInv, Receive
<1>1. TypeOK'
  <2>1. labels' \in Seq(1..Count) /\ Len(labels') <= QueueCap
    <3>1. labels' \in Seq(1..Count) /\ Len(labels') = Len(labels) - 1 BY DEF TypeOK
    <3> QED BY <3>1, SimulatorAssumption DEF TypeOK
  <2>2. sentLabels' \in Seq(1..Count) BY DEF TypeOK, run, publishLabels, topics
  <2>3. paced' \in BOOLEAN /\ cancelled' \in BOOLEAN
    BY DEF TypeOK, run, publishLabels, topics
  <2>4. emitted' \in 0..Count /\ queued' \in 0..Count /\ transactions' \subseteq 1..Count
    BY SimulatorAssumption DEF TypeOK, EmitterInv, run, publishLabels, topics
  <2>5. /\ emitter' \in {"pace", "publish", "queue", "join", "returned"}
        /\ reason' \in {"none", "error", "done", "end"}
        /\ result' \in {"none", "nil", "error"}
        /\ publisher' \in {"receive", "wait", "publish", "returned"}
        /\ labelErr' \in {"empty", "nil", "error"}
    BY DEF TypeOK, run, publishLabels, topics
  <2> QED BY <2>1, <2>2, <2>3, <2>4, <2>5 DEF TypeOK
<1>2. EmitterInv'
  BY DEF TypeOK, EmitterInv, run, publishLabels, topics
<1>3. BacklogInv'
  BY DEF TypeOK, BacklogInv, run, publishLabels, topics
<1>4. ResultInv'
  BY DEF TypeOK, EmitterInv, ResultInv, Closed, run, publishLabels, topics
<1>5. ClosedIsQuiet'
  BY DEF ClosedIsQuiet, ResultInv, run, publishLabels, topics
<1>6. CleanFinish'
  BY DEF TypeOK, ClosedIsQuiet, CleanFinish, EmitterInv, run, publishLabels, topics
<1> QED BY <1>1, <1>2, <1>3, <1>4, <1>5, <1>6

(* The end of the queue keeps the invariant. *)
LEMMA DrainedIInv == IInv /\ Drained => IInv'
<1> SUFFICES ASSUME IInv, Drained PROVE IInv' OBVIOUS
<1> USE DEF IInv, Drained, Return
<1>1. TypeOK'
  <2>1. labels' \in Seq(1..Count) /\ Len(labels') <= QueueCap
    BY DEF TypeOK, run, publishLabels, topics
  <2>2. sentLabels' \in Seq(1..Count) BY DEF TypeOK, run, publishLabels, topics
  <2>3. paced' \in BOOLEAN /\ cancelled' \in BOOLEAN
    BY DEF TypeOK, run, publishLabels, topics
  <2>4. emitted' \in 0..Count /\ queued' \in 0..Count /\ transactions' \subseteq 1..Count
    BY SimulatorAssumption DEF TypeOK, EmitterInv, run, publishLabels, topics
  <2>5. /\ emitter' \in {"pace", "publish", "queue", "join", "returned"}
        /\ reason' \in {"none", "error", "done", "end"}
        /\ result' \in {"none", "nil", "error"}
        /\ publisher' \in {"receive", "wait", "publish", "returned"}
        /\ labelErr' \in {"empty", "nil", "error"}
    BY DEF TypeOK, run, publishLabels, topics
  <2> QED BY <2>1, <2>2, <2>3, <2>4, <2>5 DEF TypeOK
<1>2. EmitterInv'
  BY DEF TypeOK, EmitterInv, run, publishLabels, topics
<1>3. BacklogInv'
  BY DEF TypeOK, BacklogInv, run, publishLabels, topics
<1>4. ResultInv'
  <2>1. Len(sentLabels) = emitted BY DEF TypeOK, BacklogInv
  <2> QED BY <2>1 DEF ResultInv, Closed, run, topics
<1>5. ClosedIsQuiet'
  BY DEF ClosedIsQuiet, ResultInv, run, publishLabels, topics
<1>6. CleanFinish'
  BY DEF TypeOK, ClosedIsQuiet, CleanFinish, EmitterInv, run, publishLabels, topics
<1> QED BY <1>1, <1>2, <1>3, <1>4, <1>5, <1>6

(* The end of a delay keeps the invariant. *)
LEMMA DueIInv == IInv /\ Due => IInv'
<1> SUFFICES ASSUME IInv, Due PROVE IInv' OBVIOUS
<1> USE DEF IInv, Due
<1>1. TypeOK'
  <2>1. labels' \in Seq(1..Count) /\ Len(labels') <= QueueCap
    BY DEF TypeOK, run, publishLabels, topics
  <2>2. sentLabels' \in Seq(1..Count) BY DEF TypeOK, run, publishLabels, topics
  <2>3. paced' \in BOOLEAN /\ cancelled' \in BOOLEAN
    BY DEF TypeOK, run, publishLabels, topics
  <2>4. emitted' \in 0..Count /\ queued' \in 0..Count /\ transactions' \subseteq 1..Count
    BY SimulatorAssumption DEF TypeOK, EmitterInv, run, publishLabels, topics
  <2>5. /\ emitter' \in {"pace", "publish", "queue", "join", "returned"}
        /\ reason' \in {"none", "error", "done", "end"}
        /\ result' \in {"none", "nil", "error"}
        /\ publisher' \in {"receive", "wait", "publish", "returned"}
        /\ labelErr' \in {"empty", "nil", "error"}
    BY DEF TypeOK, run, publishLabels, topics
  <2> QED BY <2>1, <2>2, <2>3, <2>4, <2>5 DEF TypeOK
<1>2. EmitterInv'
  BY DEF TypeOK, EmitterInv, run, publishLabels, topics
<1>3. BacklogInv'
  BY DEF TypeOK, BacklogInv, run, publishLabels, topics
<1>4. ResultInv'
  BY DEF TypeOK, EmitterInv, ResultInv, Closed, run, publishLabels, topics
<1>5. ClosedIsQuiet'
  BY DEF ClosedIsQuiet, ResultInv, run, publishLabels, topics
<1>6. CleanFinish'
  BY DEF TypeOK, ClosedIsQuiet, CleanFinish, EmitterInv, run, publishLabels, topics
<1> QED BY <1>1, <1>2, <1>3, <1>4, <1>5, <1>6

(* A delay that is cut short keeps the invariant. *)
LEMMA DelayCutIInv == IInv /\ DelayCut => IInv'
<1> SUFFICES ASSUME IInv, DelayCut PROVE IInv' OBVIOUS
<1> USE DEF IInv, DelayCut, Return
<1>1. TypeOK'
  <2>1. labels' \in Seq(1..Count) /\ Len(labels') <= QueueCap
    BY DEF TypeOK, run, publishLabels, topics
  <2>2. sentLabels' \in Seq(1..Count) BY DEF TypeOK, run, publishLabels, topics
  <2>3. paced' \in BOOLEAN /\ cancelled' \in BOOLEAN
    BY DEF TypeOK, run, publishLabels, topics
  <2>4. emitted' \in 0..Count /\ queued' \in 0..Count /\ transactions' \subseteq 1..Count
    BY SimulatorAssumption DEF TypeOK, EmitterInv, run, publishLabels, topics
  <2>5. /\ emitter' \in {"pace", "publish", "queue", "join", "returned"}
        /\ reason' \in {"none", "error", "done", "end"}
        /\ result' \in {"none", "nil", "error"}
        /\ publisher' \in {"receive", "wait", "publish", "returned"}
        /\ labelErr' \in {"empty", "nil", "error"}
    BY DEF TypeOK, run, publishLabels, topics
  <2> QED BY <2>1, <2>2, <2>3, <2>4, <2>5 DEF TypeOK
<1>2. EmitterInv'
  BY DEF TypeOK, EmitterInv, run, publishLabels, topics
<1>3. BacklogInv'
  BY DEF TypeOK, BacklogInv, run, publishLabels, topics
<1>4. ResultInv'
  BY DEF TypeOK, EmitterInv, ResultInv, Closed, run, publishLabels, topics
<1>5. ClosedIsQuiet'
  BY DEF ClosedIsQuiet, ResultInv, run, publishLabels, topics
<1>6. CleanFinish'
  BY DEF TypeOK, ClosedIsQuiet, CleanFinish, EmitterInv, run, publishLabels, topics
<1> QED BY <1>1, <1>2, <1>3, <1>4, <1>5, <1>6

(* A sent label keeps the invariant. *)
LEMMA LabelSentIInv == IInv /\ LabelSent => IInv'
<1> SUFFICES ASSUME IInv, LabelSent PROVE IInv' OBVIOUS
<1> USE DEF IInv, LabelSent
<1>1. TypeOK'
  <2>1. labels' \in Seq(1..Count) /\ Len(labels') <= QueueCap
    BY DEF TypeOK, run, publishLabels, topics
  <2>2. sentLabels' \in Seq(1..Count)
    <3>1. queued \in 1..Count BY DEF TypeOK, BacklogInv
    <3> QED BY <3>1 DEF TypeOK
  <2>3. paced' \in BOOLEAN /\ cancelled' \in BOOLEAN
    BY DEF TypeOK, run, publishLabels, topics
  <2>4. emitted' \in 0..Count /\ queued' \in 0..Count /\ transactions' \subseteq 1..Count
    BY SimulatorAssumption DEF TypeOK, EmitterInv, run, publishLabels, topics
  <2>5. /\ emitter' \in {"pace", "publish", "queue", "join", "returned"}
        /\ reason' \in {"none", "error", "done", "end"}
        /\ result' \in {"none", "nil", "error"}
        /\ publisher' \in {"receive", "wait", "publish", "returned"}
        /\ labelErr' \in {"empty", "nil", "error"}
    BY DEF TypeOK, run, publishLabels, topics
  <2> QED BY <2>1, <2>2, <2>3, <2>4, <2>5 DEF TypeOK
<1>2. EmitterInv'
  BY DEF TypeOK, EmitterInv, run, publishLabels, topics
<1>3. BacklogInv'
  BY DEF TypeOK, BacklogInv, run, publishLabels, topics
<1>4. ResultInv'
  BY DEF TypeOK, EmitterInv, ResultInv, Closed, run, publishLabels, topics
<1>5. ClosedIsQuiet'
  BY DEF ClosedIsQuiet, ResultInv, run, publishLabels, topics
<1>6. CleanFinish'
  BY DEF TypeOK, ClosedIsQuiet, CleanFinish, EmitterInv, run, publishLabels, topics
<1> QED BY <1>1, <1>2, <1>3, <1>4, <1>5, <1>6

(* A failed label keeps the invariant. *)
LEMMA LabelFailsIInv == IInv /\ LabelFails => IInv'
<1> SUFFICES ASSUME IInv, LabelFails PROVE IInv' OBVIOUS
<1> USE DEF IInv, LabelFails, Return
<1>1. TypeOK'
  <2>1. labels' \in Seq(1..Count) /\ Len(labels') <= QueueCap
    BY DEF TypeOK, run, publishLabels, topics
  <2>2. sentLabels' \in Seq(1..Count)
    <3>1. queued \in 1..Count BY DEF TypeOK, BacklogInv
    <3>2. Append(sentLabels, queued) \in Seq(1..Count) BY <3>1 DEF TypeOK
    <3> QED BY <3>2 DEF TypeOK
  <2>3. paced' \in BOOLEAN /\ cancelled' \in BOOLEAN
    BY DEF TypeOK, run, publishLabels, topics
  <2>4. emitted' \in 0..Count /\ queued' \in 0..Count /\ transactions' \subseteq 1..Count
    BY SimulatorAssumption DEF TypeOK, EmitterInv, run, publishLabels, topics
  <2>5. /\ emitter' \in {"pace", "publish", "queue", "join", "returned"}
        /\ reason' \in {"none", "error", "done", "end"}
        /\ result' \in {"none", "nil", "error"}
        /\ publisher' \in {"receive", "wait", "publish", "returned"}
        /\ labelErr' \in {"empty", "nil", "error"}
    BY DEF TypeOK, run, publishLabels, topics
  <2> QED BY <2>1, <2>2, <2>3, <2>4, <2>5 DEF TypeOK
<1>2. EmitterInv'
  BY DEF TypeOK, EmitterInv, run, publishLabels, topics
<1>3. BacklogInv'
  BY DEF TypeOK, BacklogInv, run, publishLabels, topics
<1>4. ResultInv'
  BY DEF TypeOK, EmitterInv, ResultInv, Closed, run, publishLabels, topics
<1>5. ClosedIsQuiet'
  BY DEF ClosedIsQuiet, ResultInv, run, publishLabels, topics
<1>6. CleanFinish'
  BY DEF TypeOK, ClosedIsQuiet, CleanFinish, EmitterInv, run, publishLabels, topics
<1> QED BY <1>1, <1>2, <1>3, <1>4, <1>5, <1>6

(* The invariant holds in every state. *)
THEOREM SimulatorIInv == Spec => []IInv
<1>1. IInv /\ [Next]_vars => IInv'
  BY StutterIInv, InterruptIInv, TickIInv, FailedIInv, InterruptedIInv, TransactionSentIInv,
     TransactionFailsIInv, EnqueueIInv, JoinIInv, ReceiveIInv, DrainedIInv, DueIInv,
     DelayCutIInv, LabelSentIInv, LabelFailsIInv
  DEF Next, RunStep, PublishTransaction, PublisherStep, PublishLabel, PaceEnds, QueueEnds
<1> QED BY <1>1, InitIInv, PTL DEF Spec

-----------------------------------------------------------------------------
(* Every variable of the simulator keeps its type. *)
THEOREM TypeCorrect == Spec => []TypeOK
BY SimulatorIInv, PTL DEF IInv

(* On every exit path run returns after the publisher, whose one result has  *)
(* been received.                                                            *)
THEOREM ProducerClosedQuietly == Spec => []ClosedIsQuiet
BY SimulatorIInv, PTL DEF IInv

(* A run that was not interrupted and returns nil is complete. *)
THEOREM FinishIsClean == Spec => []CleanFinish
BY SimulatorIInv, PTL DEF IInv

(* Labels follow their transactions, in order and without a gap. *)
THEOREM LabelsInOrder == Spec => []LabelsFollow
<1>1. IInv => LabelsFollow
  BY DEF IInv, TypeOK, EmitterInv, BacklogInv, LabelsFollow
<1> QED BY <1>1, SimulatorIInv, PTL
=============================================================================
