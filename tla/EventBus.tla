------------------------------- MODULE EventBus -------------------------------
(***************************************************************************)
(* The two JetStream buses behind the sync worker (metricsbus, insightbus): *)
(* publishing with a message id, the consumer of each bus, redelivery, and *)
(* dead letters. The two packages have the same publish, consume and       *)
(* dead-letter code, so a bus is a parameter here.                         *)
(*                                                                         *)
(* JetStream is external. What the code asks of it is modelled: manual     *)
(* acknowledgement, AckWait, MaxDeliver, a durable consumer that starts at *)
(* new messages, and the deduplication of message ids, which goes by       *)
(* stream: the work subject of a bus and its dlq subject are subjects of   *)
(* one stream (ensureStream).                                              *)
(***************************************************************************)
EXTENDS Integers, Sequences, FiniteSets

CONSTANTS
  METRICS, INSIGHTS,  \* the streams
  Jobs,        \* sync jobs of one repository
  MaxDeliver,  \* maxDeliver (5)
  MaxRuns,     \* bound: runs of jobs, retries included
  MaxFaults    \* bound: failed calls, lost answers, process stops

ASSUME BusAssumption == MaxDeliver \in Nat \ {0} /\ MaxRuns \in Nat /\ MaxFaults \in Nat

Buses == {METRICS, INSIGHTS}

VARIABLES
  stream,   \* per bus: the messages of its work subject
  queue,    \* per bus: deliveries the client holds for its handler
  handler,  \* per bus: the delivery handleMessage is at
  consumer, \* per bus: the durable consumer of JetStream, and the subscription of Run
  budget    \* what is left of MaxRuns and MaxFaults

busVars == <<stream, queue, handler, consumer>>

MaxMessages == MaxRuns
\* full: event.From is the beginning of history. end, a history: how it first ended;
\* "dropped" is a dead letter that was refused as a duplicate. lost: no durable consumer has
\* the message, and a later one starts behind it.
Message == [job : Jobs, full : BOOLEAN, state : {"ready", "out", "acked", "lost"},
            delivered : 0 .. MaxDeliver, end : {"none", "handled", "dead", "dropped"}]
Delivery == [msg : 1 .. MaxMessages, n : 1 .. MaxDeliver]
\* made: by the subscription that has it. left: by an earlier one.
Consumer == [durable : {"none", "left", "made"}, sub : {"starting", "on", "failed", "drained"}]
Idle == [at |-> "idle", msg |-> 1, n |-> 1]

BusTypeOK ==
  /\ \A b \in Buses : stream[b] \in Seq(Message) /\ Len(stream[b]) <= MaxMessages
  /\ \A b \in Buses : queue[b] \in Seq(Delivery)
  /\ \A b \in Buses : handler[b].at \in {"idle", "work", "failed"}
  /\ consumer \in [Buses -> Consumer]
  /\ budget \in [runs : 0 .. MaxRuns, faults : 0 .. MaxFaults]

BusInit ==
  /\ stream = [b \in Buses |-> <<>>]
  /\ queue = [b \in Buses |-> <<>>]
  /\ handler = [b \in Buses |-> Idle]
  /\ consumer = [b \in Buses |-> [durable |-> "none", sub |-> "starting"]]
  /\ budget = [runs |-> MaxRuns, faults |-> MaxFaults]

Spend == budget.faults > 0 /\ budget' = [budget EXCEPT !.faults = @ - 1]

-----------------------------------------------------------------------------
(* The stream.                                                              *)

\* Nats-Msg-Id is the job's id with a suffix per subject: a job that runs again
\* publishes under the id of its first run.
Known(b, j) == \E i \in DOMAIN stream[b] : stream[b][i].job = j

\* PublishMsg. Within the deduplication window (two minutes unless configured) of an
\* id, JetStream drops the message and answers as if it were stored. DeliverNew: what is
\* stored before there is a durable consumer is never delivered.
Stored(b, j, full) ==
  stream' = [stream EXCEPT ![b] = Append(@,
    [job |-> j, full |-> full, state |-> IF consumer[b].durable = "none" THEN "lost" ELSE "ready",
     delivered |-> 0, end |-> "none"])]
Dropped(b, j) == Known(b, j) /\ UNCHANGED stream

\* Up to MaxDeliver times, JetStream hands the message to the subscription of Run.
Deliver(b, i) ==
  /\ i \in DOMAIN stream[b]
  /\ consumer[b].sub = "on"
  /\ stream[b][i].state = "ready" /\ stream[b][i].delivered < MaxDeliver
  /\ stream' = [stream EXCEPT ![b][i].state = "out", ![b][i].delivered = @ + 1]
  /\ queue' = [queue EXCEPT ![b] = Append(@, [msg |-> i, n |-> stream[b][i].delivered + 1])]
  /\ UNCHANGED <<handler, consumer, budget>>

\* AckWait (30 seconds) passes without an answer, the handler may be at it still.
AckExpires(b, i) ==
  /\ i \in DOMAIN stream[b]
  /\ stream[b][i].state = "out" /\ stream[b][i].delivered < MaxDeliver
  /\ stream' = [stream EXCEPT ![b][i].state = "ready"]
  /\ UNCHANGED <<queue, handler, consumer, budget>>

-----------------------------------------------------------------------------
(* The consumer: one handler of a bus at a time. The work between the       *)
(* delivery and its result is in Pipeline.                                  *)

Take(b) ==
  /\ handler[b].at = "idle" /\ queue[b] # <<>>
  /\ handler' = [handler EXCEPT ![b] = [at |-> "work", msg |-> Head(queue[b]).msg,
                                        n |-> Head(queue[b]).n]]
  /\ queue' = [queue EXCEPT ![b] = Tail(@)]
  /\ UNCHANGED <<stream, consumer, budget>>

ShouldDeadLetter(n) == n >= MaxDeliver

First(old, end) == IF old = "none" THEN end ELSE old

\* Ack and Nak: errors are ignored, and an answer may be lost.
Answer(b, state, end) ==
  LET i == handler[b].msg  m == stream[b][i] IN
  /\ handler' = [handler EXCEPT ![b] = Idle]
  /\ \/ /\ stream' = [stream EXCEPT ![b][i] =
             [m EXCEPT !.state = IF m.state \in {"acked", "lost"} THEN m.state ELSE state,
                       !.end = First(m.end, end)]]
        /\ UNCHANGED budget
     \/ /\ stream' = [stream EXCEPT ![b][i].end = First(m.end, end)]
        /\ Spend
  /\ UNCHANGED <<queue, consumer>>

\* A mutated handler that waits in place for a better time.
FinishWaits(b, ok) ==
  /\ handler[b].at = "work" /\ ok
  /\ Answer(b, "acked", "handled")

\* The result of the work. A failure is answered at once, unless it was the last
\* delivery.
Finish(b, ok) ==
  /\ handler[b].at = "work"
  /\ IF ok THEN Answer(b, "acked", "handled")
     ELSE IF ~ShouldDeadLetter(handler[b].n) THEN Answer(b, "ready", "none")
     ELSE /\ handler' = [handler EXCEPT ![b].at = "failed"]
          /\ UNCHANGED <<stream, queue, consumer, budget>>

\* A mutated end of handleMessage that acknowledges whatever publishDeadLetter returns.
DeadLetterAcks(b) ==
  /\ handler[b].at = "failed"
  /\ \/ Answer(b, "acked", "dead")
     \/ Known(b, stream[b][handler[b].msg].job) /\ Answer(b, "acked", "dropped")
     \/ Answer(b, "acked", "none")

\* publishDeadLetter copies the header of the message, its id included: within the
\* window of that id the stream drops the dead letter. When it cannot be published
\* the message is refused, but JetStream has delivered it for the last time.
DeadLetter(b) ==
  /\ handler[b].at = "failed"
  /\ \/ Answer(b, "acked", "dead")
     \/ Known(b, stream[b][handler[b].msg].job) /\ Answer(b, "acked", "dropped")
     \/ /\ Spend
        /\ handler' = [handler EXCEPT ![b] = Idle]
        /\ UNCHANGED <<stream, queue, consumer>>

-----------------------------------------------------------------------------
(* Run: subscribe, and drain when the process is told to stop.              *)

Queued(b, i) == \E k \in DOMAIN queue[b] : queue[b][k].msg = i
Stopping == \E b \in Buses : consumer[b].sub = "drained"

\* js.Subscribe attaches to the durable consumer there is, or makes one.
Subscribe(b) ==
  /\ consumer[b].sub = "starting"
  /\ consumer' = [consumer EXCEPT ![b] =
       [durable |-> IF @.durable = "none" THEN "made" ELSE @.durable, sub |-> "on"]]
  /\ UNCHANGED <<stream, queue, handler, budget>>

\* App.Run logs the error, nobody subscribes again. JetStream may have made the consumer.
SubscribeFails(b) ==
  /\ consumer[b].sub = "starting"
  /\ Spend
  /\ \E durable \in {"left", consumer[b].durable} :
       consumer' = [consumer EXCEPT ![b] = [durable |-> durable, sub |-> "failed"]]
  /\ UNCHANGED <<stream, queue, handler>>

\* Drain and Unsubscribe: what the client holds is gone, but for the message its handler is
\* at. The client deletes the durable consumer if it has made it and the connection is not
\* closed yet (App.close does not wait for Run), and with it what was still to be delivered.
Drain(b, deleted) ==
  /\ consumer[b].sub = "on"
  /\ deleted => consumer[b].durable = "made"
  /\ IF Stopping THEN UNCHANGED budget ELSE Spend
  /\ consumer' = [consumer EXCEPT ![b] =
       [durable |-> IF deleted THEN "none" ELSE @.durable, sub |-> "drained"]]
  /\ queue' = [queue EXCEPT ![b] = <<>>]
  /\ stream' = [stream EXCEPT ![b] = [i \in DOMAIN stream[b] |->
       IF deleted /\ stream[b][i].state # "acked" THEN [stream[b][i] EXCEPT !.state = "lost"]
       ELSE stream[b][i]]]
  /\ UNCHANGED handler

\* The process ends: the client's deliveries are gone, JetStream's are not, nor is a durable
\* consumer that was not deleted.
ConsumersStop ==
  /\ IF Stopping THEN UNCHANGED budget ELSE Spend
  /\ queue' = [b \in Buses |-> <<>>]
  /\ handler' = [b \in Buses |-> Idle]
  /\ consumer' = [b \in Buses |->
       [durable |-> IF consumer[b].durable = "none" THEN "none" ELSE "left", sub |-> "starting"]]
  /\ UNCHANGED stream

-----------------------------------------------------------------------------
Exhausted(b, i) == stream[b][i].delivered = MaxDeliver
InHand(b, i) == Queued(b, i) \/ (handler[b].at # "idle" /\ handler[b].msg = i)
\* A message the handler is at when its consumer is deleted is lost and in its hands.
Settled(b, i) ==
  \/ stream[b][i].state = "acked"
  \/ (stream[b][i].state = "lost" \/ Exhausted(b, i)) /\ ~InHand(b, i)

\* A message JetStream may forget about (its consumer has acknowledged it) was handled
\* once, or is kept as a dead letter, or its dead letter carried an id the stream
\* remembered and was dropped.
AckedWasHandled ==
  \A b \in Buses : \A i \in DOMAIN stream[b] :
    stream[b][i].state = "acked" => stream[b][i].end # "none"

\* Every message comes to an end: acknowledged, delivered MaxDeliver times, or lost with its
\* durable consumer; unless the subscription of its bus has failed, which App.Run only logs.
EveryMessageSettles ==
  \A b \in Buses, i \in 1 .. MaxMessages :
    i \in DOMAIN stream[b] ~>
      \/ i \in DOMAIN stream[b] /\ Settled(b, i)
      \/ consumer[b].sub = "failed"
=============================================================================
