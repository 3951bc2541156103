---------------------------- MODULE Pipeline_proofs ----------------------------
(***************************************************************************)
(* Proofs, for every number of jobs, deliveries, runs, faults and decisions, *)
(* of what the run of Pipeline checks: the types, the acknowledgements of     *)
(* EventBus, the metrics of what completed jobs stored, and the decisions of  *)
(* users about an insight.                                                    *)
(***************************************************************************)
EXTENDS Pipeline, FiniteSetTheorems, SequenceTheorems, TLAPS

-----------------------------------------------------------------------------
(* The inductive invariant, part by part. First the buses.                    *)

Handler == [at : {"idle", "work", "failed"}, msg : Nat, n : Nat]
BusShape ==
  /\ stream \in [Buses -> Seq(Message)]
  /\ queue \in [Buses -> Seq(Delivery)]
  /\ handler \in [Buses -> Handler]

\* A delivery in the client's hands is one JetStream has made.
Made(b, x) == x.msg \in DOMAIN stream[b] /\ x.n \in 1 .. stream[b][x.msg].delivered
HandsMade ==
  \A b \in Buses :
    /\ \A k \in DOMAIN queue[b] : Made(b, queue[b][k])
    /\ handler[b].at # "idle" => Made(b, handler[b])

\* No delivery is there twice.
Same(x, y) == x.msg = y.msg /\ x.n = y.n
HandsOnce ==
  \A b \in Buses :
    /\ \A k, l \in DOMAIN queue[b] : Same(queue[b][k], queue[b][l]) => k = l
    /\ handler[b].at # "idle" => \A k \in DOMAIN queue[b] : ~Same(queue[b][k], handler[b])

\* Only the last delivery ends as a dead letter.
FailedWasLast == \A b \in Buses : handler[b].at = "failed" => handler[b].n = MaxDeliver

BusInv == BusShape /\ HandsMade /\ HandsOnce /\ FailedWasLast /\ AckedWasHandled

-----------------------------------------------------------------------------
(* Types, without the length of the streams and the tasks of the buses: there *)
(* is a run for each version of the data, and a tick for every event.         *)

Types ==
  /\ budget \in [runs : 0 .. MaxRuns, faults : 0 .. MaxFaults]
  /\ open \subseteq Buses
  /\ runner \in [Jobs -> Runner]
  /\ data \in 0 .. MaxRuns /\ data + budget.runs = MaxRuns
  /\ metrics \in Versions /\ due \in Versions /\ behind \subseteq Days
  /\ task \in [Workers -> Task]

ClockBounded == now + events <= MaxEvents + 1 /\ finding.at <= now
InsightTypes ==
  /\ finding \in Finding /\ rules \in Rules /\ row \in StatusRow
  /\ now \in Clock /\ severeAt \in Clock
  /\ verdict \in [kind : {"none", "reviewed", "dismissed"}, at : Clock]
  /\ raced \in BOOLEAN /\ events \in 0 .. MaxEvents
  /\ ClockBounded

TypeInv == BusInv /\ Types /\ InsightTypes

-----------------------------------------------------------------------------
(* Messages, jobs and calculations.                                            *)

\* A run publishes once to a bus: there are no more messages than runs, those that have
\* yet to publish included.
ToPublish(b) ==
  {j \in Jobs : runner[j].at = "metrics" \/ (b = INSIGHTS /\ runner[j].at \in {"calculate", "insights"})}
MessagesCounted ==
  \A b \in Buses : Len(stream[b]) + Cardinality(ToPublish(b)) <= data

\* Whose task is whose.
OfMetrics == {"idle", "upsert", "ok", "error"}
TasksBelong ==
  /\ \A b \in Buses : task[b].at # "idle" => handler[b].at = "work"
  /\ task[METRICS].at \in OfMetrics
  /\ task[METRICS].at = "upsert" => task[METRICS].full = stream[METRICS][handler[METRICS].msg].full
  /\ \A j \in Jobs :
       /\ runner[j].at \notin {"calculate", "refresh"} => task[j].at = "idle"
       /\ runner[j].at = "calculate" => task[j].at \in OfMetrics
       /\ runner[j].at = "calculate" /\ task[j].at = "upsert" =>
            task[j].full = runner[j].full /\ task[j].seen >= runner[j].stored

\* No version is ahead of the data.
VersionsBehind ==
  /\ \A d \in Days : metrics[d] <= data /\ due[d] <= data
  /\ \A j \in Jobs : runner[j].stored <= data
  /\ \A w \in Workers : Calculating(w) => task[w].seen <= data

\* A calculation beside which there was no other writes nothing older than there is.
AloneIsNewest ==
  \A w \in Workers : Calculating(w) /\ ~task[w].shared =>
    /\ \A u \in Workers \ {w} : ~Calculating(u)
    /\ \A d \in Days : metrics[d] <= task[w].seen

\* Message k will bring the metrics of day d to version v: it is not lost, nor handled before,
\* its last delivery is still to come or to be handled, and what is calculated for it has
\* seen v.
Carries(k, d, v) ==
  /\ k \in DOMAIN stream[METRICS]
  /\ d \in DaysOf(stream[METRICS][k].full)
  /\ stream[METRICS][k].state \notin {"acked", "lost"} /\ stream[METRICS][k].end = "none"
  /\ \/ stream[METRICS][k].delivered < MaxDeliver
     \/ \E q \in DOMAIN queue[METRICS] :
          queue[METRICS][q].msg = k /\ queue[METRICS][q].n = MaxDeliver
     \/ handler[METRICS].at = "work" /\ handler[METRICS].msg = k /\ handler[METRICS].n = MaxDeliver
  /\ handler[METRICS].at = "work" /\ handler[METRICS].msg = k =>
       /\ task[METRICS].at # "ok"
       /\ task[METRICS].at = "upsert" => task[METRICS].seen >= v

Covered(d, v) == d \in behind \/ metrics[d] >= v \/ \E k \in Nat : Carries(k, d, v)

\* What a job stored is covered from the moment it has published or calculated, and so
\* is what completed jobs stored.
Calculated(j) ==
  \/ runner[j].at \in {"insights", "refresh"}
  \/ runner[j].at = "calculate" /\ task[j].at = "ok"
CoverInv ==
  /\ \A d \in Days : Covered(d, due[d])
  /\ \A j \in Jobs : Calculated(j) => \A d \in DaysOf(runner[j].full) : Covered(d, runner[j].stored)

-----------------------------------------------------------------------------
(* Insights.                                                                    *)

\* Since the last decision, if no refresh had read the row before it: the row is as
\* decided, or open because the rules reopen it; so are those who are about to open it.
ReopenedByRule == rules[verdict.kind] /\ severeAt > verdict.at
DecisionInv ==
  /\ finding.severe => finding.at <= severeAt
  /\ verdict.kind # "none" /\ ~raced =>
       /\ row.status \in {verdict.kind, "open"}
       /\ row.status = verdict.kind => LatestTime(row) >= verdict.at
       /\ row.status = "open" \/ (\E w \in Workers : task[w].at \in {"reopen", "open"}) => ReopenedByRule

-----------------------------------------------------------------------------
(* The buses: what each operation of EventBus leaves.                          *)

LEMMA Appended ==
  ASSUME NEW S, NEW s \in Seq(S), NEW e \in S, NEW t, t = Append(s, e)
  PROVE  /\ t \in Seq(S) /\ Len(t) = Len(s) + 1 /\ DOMAIN t = 1 .. Len(s) + 1
         /\ \A k \in DOMAIN s : k \in DOMAIN t /\ t[k] = s[k]
         /\ Len(s) + 1 \in DOMAIN t /\ t[Len(s) + 1] = e /\ Len(s) + 1 \notin DOMAIN s
         /\ \A k \in DOMAIN t : k \in DOMAIN s \/ k = Len(s) + 1
  BY AppendProperties

LEMMA TailTaken ==
  ASSUME NEW S, NEW s \in Seq(S), s # <<>>, NEW t, t = Tail(s)
  PROVE  /\ t \in Seq(S) /\ 1 \in DOMAIN s /\ Head(s) = s[1] /\ Head(s) \in S
         /\ \A k \in DOMAIN t : k + 1 \in DOMAIN s /\ t[k] = s[k + 1] /\ k + 1 # 1 /\ k \in Nat
         /\ \A k \in DOMAIN s : k = 1 \/ (k - 1 \in DOMAIN t /\ t[k - 1] = s[k])
  BY HeadTailProperties

LEMMA MessageTyped == \A m \in Message : m.delivered \in 0 .. MaxDeliver /\ m.delivered \in Int /\ m.full \in BOOLEAN
  BY BusAssumption DEF Message

LEMMA MessageOut ==
  ASSUME NEW o \in Message, NEW n \in 0 .. MaxDeliver, NEW m,
         m = [o EXCEPT !.state = "out", !.delivered = n]
  PROVE  m \in Message /\ m.delivered = n /\ m.state = "out" /\ m.end = o.end /\ m.full = o.full
  BY DEF Message

\* Message i of bus b is the only one that may change, and not in what it covers.
OnlyMessage(b, i) ==
  /\ \A c \in Buses : Len(stream'[c]) = Len(stream[c]) /\ DOMAIN stream'[c] = DOMAIN stream[c]
  /\ \A c \in Buses : \A k \in DOMAIN stream[c] :
       /\ stream'[c][k].full = stream[c][k].full
       /\ stream'[c][k].delivered >= stream[c][k].delivered
       /\ c # b \/ k # i => stream'[c][k] = stream[c][k]

LEMMA MessageChanged ==
  ASSUME BusShape, NEW b \in Buses, NEW i \in DOMAIN stream[b], NEW m \in Message,
         m.full = stream[b][i].full, m.delivered >= stream[b][i].delivered,
         stream' = [stream EXCEPT ![b][i] = m]
  PROVE  stream' \in [Buses -> Seq(Message)] /\ OnlyMessage(b, i) /\ stream'[b][i] = m
  <1> DEFINE s == stream[b]
  <1>1. s \in Seq(Message) /\ i \in DOMAIN s
    BY DEF BusShape
  <1>2. /\ stream'[b] = [s EXCEPT ![i] = m]
        /\ \A c \in Buses : c # b => stream'[c] = stream[c]
        /\ stream' = [c \in Buses |-> stream'[c]]
    BY DEF BusShape
  <1> HIDE DEF s
  <1>3. /\ stream'[b] \in Seq(Message) /\ Len(stream'[b]) = Len(s) /\ DOMAIN stream'[b] = DOMAIN s
        /\ stream'[b][i] = m /\ \A k \in DOMAIN s : k # i => stream'[b][k] = s[k]
    <2>1. i \in 1 .. Len(s)
      BY <1>1
    <2>2. /\ [s EXCEPT ![i] = m] \in Seq(Message) /\ Len([s EXCEPT ![i] = m]) = Len(s)
          /\ \A j \in 1 .. Len(s) : [s EXCEPT ![i] = m][j] = IF j = i THEN m ELSE s[j]
      BY <1>1, <2>1, ExceptSeq
    <2>3. QED
      BY <1>1, <1>2, <2>1, <2>2
  <1>4. s = stream[b]
    BY DEF s
  <1>5. stream' \in [Buses -> Seq(Message)]
    BY <1>2, <1>3 DEF BusShape
  <1>6. \A c \in Buses : \A k \in DOMAIN stream[c] : stream[c][k].delivered \in Int
    BY MessageTyped DEF BusShape
  <1>7. OnlyMessage(b, i)
    BY <1>2, <1>3, <1>4, <1>6 DEF OnlyMessage
  <1>8. QED
    BY <1>3, <1>5, <1>7

\* What a delivery was made of is kept when no message loses a delivery.
LEMMA MadeKept ==
  ASSUME BusShape, stream' \in [Buses -> Seq(Message)], NEW a \in Buses, NEW i, OnlyMessage(a, i)
  PROVE  \A b \in Buses : \A x : Made(b, x) =>
           x.msg \in DOMAIN stream'[b] /\ x.n \in 1 .. stream'[b][x.msg].delivered
  <1> SUFFICES ASSUME NEW b \in Buses, NEW x, Made(b, x)
               PROVE  x.msg \in DOMAIN stream'[b] /\ x.n \in 1 .. stream'[b][x.msg].delivered
    OBVIOUS
  <1>1. x.msg \in DOMAIN stream[b] /\ x.msg \in DOMAIN stream'[b]
    BY DEF Made, OnlyMessage
  <1>2. stream'[b][x.msg].delivered \in Int /\ stream[b][x.msg].delivered \in Int
    BY <1>1, MessageTyped DEF BusShape
  <1>3. stream'[b][x.msg].delivered >= stream[b][x.msg].delivered /\ x.n \in 1 .. stream[b][x.msg].delivered
    BY <1>1 DEF Made, OnlyMessage
  <1>4. QED
    BY <1>1, <1>2, <1>3

LEMMA StoredKeeps ==
  ASSUME BusInv, NEW b \in Buses, NEW j \in Jobs, NEW full \in BOOLEAN,
         Stored(b, j, full), UNCHANGED <<queue, handler>>
  PROVE  /\ BusInv'
         /\ Len(stream'[b]) = Len(stream[b]) + 1 /\ \A c \in Buses : c # b => stream'[c] = stream[c]
         /\ \A c \in Buses : \A k \in DOMAIN stream[c] :
              k \in DOMAIN stream'[c] /\ stream'[c][k] = stream[c][k]
         /\ Len(stream[b]) + 1 \in DOMAIN stream'[b]
         /\ stream'[b][Len(stream[b]) + 1] =
              [job |-> j, full |-> full,
               state |-> IF consumer[b].durable = "none" THEN "lost" ELSE "ready", delivered |-> 0, end |-> "none"]
  <1> DEFINE m == [job |-> j, full |-> full,
               state |-> IF consumer[b].durable = "none" THEN "lost" ELSE "ready", delivered |-> 0, end |-> "none"]
             s == stream[b]
  <1> USE DEF BusInv, BusShape
  <1>1. m \in Message
    BY BusAssumption DEF Message
  <1>2. s \in Seq(Message) /\ stream' = [stream EXCEPT ![b] = Append(s, m)]
    BY DEF Stored
  <1>3. /\ Append(s, m) \in Seq(Message) /\ Len(Append(s, m)) = Len(s) + 1
        /\ \A i \in 1 .. Len(s) : Append(s, m)[i] = s[i]
        /\ Append(s, m)[Len(s) + 1] = m
    BY <1>1, <1>2, AppendProperties
  <1>4. \A c \in Buses : stream'[c] = IF c = b THEN Append(s, m) ELSE stream[c]
    BY <1>2
  <1>5. BusShape'
    BY <1>2, <1>3
  <1>6. \A c \in Buses : \A k \in DOMAIN stream[c] :
          k \in DOMAIN stream'[c] /\ stream'[c][k] = stream[c][k]
    BY <1>2, <1>3, <1>4
  <1>7. HandsMade' /\ HandsOnce' /\ FailedWasLast'
    BY <1>6 DEF HandsMade, Made, HandsOnce, Same, FailedWasLast
  <1>8. AckedWasHandled'
    <2> SUFFICES ASSUME NEW c \in Buses, NEW k \in DOMAIN stream'[c], stream'[c][k].state = "acked"
                 PROVE  stream'[c][k].end # "none"
      BY DEF AckedWasHandled
    <2>1. CASE k \in DOMAIN stream[c]
      BY <2>1, <1>6 DEF AckedWasHandled
    <2>2. CASE k \notin DOMAIN stream[c]
      BY <2>2, <1>2, <1>3, <1>4
    <2>3. QED
      BY <2>1, <2>2
  <1>9. Len(s) + 1 \in DOMAIN stream'[b] /\ stream'[b][Len(s) + 1] = m
    BY <1>2, <1>3, <1>4
  <1>10. Len(stream'[b]) = Len(stream[b]) + 1 /\ \A c \in Buses : c # b => stream'[c] = stream[c]
    BY <1>2, <1>3, <1>4
  <1>11. QED
    BY <1>5, <1>6, <1>7, <1>8, <1>9, <1>10

LEMMA DeliverKeeps ==
  ASSUME BusInv, NEW b \in Buses, NEW i \in 1 .. MaxMessages, Deliver(b, i)
  PROVE  /\ BusInv' /\ OnlyMessage(b, i)
         /\ i \in DOMAIN stream[b] /\ stream[b][i].delivered < MaxDeliver /\ stream[b][i].delivered \in Nat
         /\ stream'[b][i].state = "out" /\ stream'[b][i].delivered = stream[b][i].delivered + 1
         /\ stream'[b][i].end = stream[b][i].end
         /\ Len(queue[b]) + 1 \in DOMAIN queue'[b]
         /\ queue'[b][Len(queue[b]) + 1] = [msg |-> i, n |-> stream[b][i].delivered + 1]
         /\ \A c \in Buses : \A k \in DOMAIN queue[c] :
              k \in DOMAIN queue'[c] /\ queue'[c][k] = queue[c][k]
  <1>0. BusShape /\ HandsMade /\ HandsOnce /\ FailedWasLast /\ AckedWasHandled
    BY DEF BusInv
  <1> DEFINE old == stream[b][i]
             x == [msg |-> i, n |-> old.delivered + 1]
  <1>1. i \in DOMAIN stream[b] /\ i \in 1 .. MaxMessages /\ old \in Message /\ old.state = "ready"
        /\ old.delivered < MaxDeliver
    BY <1>0 DEF BusShape, Deliver
  <1>2. /\ old.delivered \in Nat /\ old.delivered + 1 \in 0 .. MaxDeliver /\ old.delivered + 1 \in 1 .. MaxDeliver
    BY <1>1, BusAssumption DEF Message
  <1>3. x \in Delivery /\ x.msg = i /\ x.n = old.delivered + 1
    BY <1>1, <1>2 DEF Delivery
  <1> HIDE DEF old
  <1>n. PICK n \in 0 .. MaxDeliver : n = old.delivered + 1
    BY <1>2
  <1>4. PICK m : m = [old EXCEPT !.state = "out", !.delivered = n]
    OBVIOUS
  <1>5. stream' = [stream EXCEPT ![b][i] = m]
    BY <1>n, <1>4, Zenon DEF Deliver, old
  <1>6. /\ m \in Message /\ m.full = old.full /\ m.delivered = old.delivered + 1
        /\ m.state = "out" /\ m.end = old.end
    <2>1. \A v \in 0 .. MaxDeliver : \A w : w = [old EXCEPT !.state = "out", !.delivered = v] =>
            /\ w \in Message /\ w.delivered = v /\ w.state = "out" /\ w.end = old.end /\ w.full = old.full
      BY <1>1, MessageOut, Zenon
    <2>2. QED
      BY <1>n, <1>4, <2>1, Zenon
  <1>7. stream' \in [Buses -> Seq(Message)] /\ OnlyMessage(b, i) /\ stream'[b][i] = m
    <2>1. m.full = stream[b][i].full /\ m.delivered >= stream[b][i].delivered
      BY <1>2, <1>6 DEF old
    <2>2. QED
      BY <2>1, <1>0, <1>1, <1>5, <1>6, MessageChanged
  <1>8. /\ queue'[b] = Append(queue[b], x) /\ queue[b] \in Seq(Delivery) /\ handler' = handler
        /\ \A c \in Buses : c # b => queue'[c] = queue[c]
        /\ DOMAIN queue' = Buses /\ queue' = [c \in Buses |-> queue'[c]]
    BY <1>0 DEF BusShape, Deliver, old
  <1> HIDE DEF x, old
  <1>9. /\ queue'[b] \in Seq(Delivery) /\ Len(queue[b]) + 1 \in DOMAIN queue'[b]
        /\ queue'[b][Len(queue[b]) + 1] = x /\ Len(queue[b]) + 1 \notin DOMAIN queue[b]
        /\ \A k \in DOMAIN queue[b] : k \in DOMAIN queue'[b] /\ queue'[b][k] = queue[b][k]
        /\ \A k \in DOMAIN queue'[b] : k \in DOMAIN queue[b] \/ k = Len(queue[b]) + 1
    BY <1>3, <1>8, Appended
  <1>10. BusShape'
    <2>1. \A c \in Buses : queue'[c] \in Seq(Delivery)
      BY <1>0, <1>8, <1>9 DEF BusShape
    <2>2. QED
      BY <2>1, <1>0, <1>7, <1>8 DEF BusShape
  <1>11. \A c \in Buses : \A k \in DOMAIN queue[c] :
           k \in DOMAIN queue'[c] /\ queue'[c][k] = queue[c][k]
    BY <1>8, <1>9
  <1>12. \A c \in Buses : \A k \in DOMAIN queue'[c] :
           k \in DOMAIN queue[c] \/ (c = b /\ k = Len(queue[b]) + 1 /\ queue'[c][k] = x)
    BY <1>8, <1>9
  <1>13. \A c \in Buses : \A y : Made(c, y) =>
           y.msg \in DOMAIN stream'[c] /\ y.n \in 1 .. stream'[c][y.msg].delivered
    BY <1>0, <1>7, MadeKept
  <1>14. x.msg \in DOMAIN stream'[b] /\ x.n \in 1 .. stream'[b][x.msg].delivered
    BY <1>1, <1>2, <1>3, <1>6, <1>7 DEF OnlyMessage
  <1>15. \A y : Made(b, y) => ~Same(y, x) /\ ~Same(x, y)
    BY <1>2, <1>3 DEF Made, Same, old
  <1>16. HandsMade'
    <2>1. \A c \in Buses : \A k \in DOMAIN queue'[c] :
            queue'[c][k].msg \in DOMAIN stream'[c] /\ queue'[c][k].n \in 1 .. stream'[c][queue'[c][k].msg].delivered
      BY <1>0, <1>11, <1>12, <1>13, <1>14 DEF HandsMade
    <2>2. \A c \in Buses : handler'[c].at # "idle" =>
            handler'[c].msg \in DOMAIN stream'[c] /\ handler'[c].n \in 1 .. stream'[c][handler'[c].msg].delivered
      BY <1>0, <1>8, <1>13 DEF HandsMade
    <2>3. QED
      BY <2>1, <2>2 DEF HandsMade, Made
  <1>17. FailedWasLast'
    BY <1>0, <1>8 DEF FailedWasLast
  <1>18. HandsOnce'
    <2>1. ASSUME NEW c \in Buses, NEW k \in DOMAIN queue'[c], NEW l \in DOMAIN queue'[c],
                 Same(queue'[c][k], queue'[c][l])
          PROVE  k = l
      <3>1. CASE k \in DOMAIN queue[c] /\ l \in DOMAIN queue[c]
        BY <2>1, <3>1, <1>0, <1>11 DEF HandsOnce
      <3>2. CASE k \notin DOMAIN queue[c] /\ l \in DOMAIN queue[c]
        BY <2>1, <3>2, <1>0, <1>11, <1>12, <1>15 DEF HandsMade
      <3>3. CASE k \in DOMAIN queue[c] /\ l \notin DOMAIN queue[c]
        BY <2>1, <3>3, <1>0, <1>11, <1>12, <1>15 DEF HandsMade
      <3>4. CASE k \notin DOMAIN queue[c] /\ l \notin DOMAIN queue[c]
        BY <3>4, <1>12
      <3>5. QED
        BY <3>1, <3>2, <3>3, <3>4
    <2>2. ASSUME NEW c \in Buses, handler'[c].at # "idle", NEW k \in DOMAIN queue'[c]
          PROVE  ~Same(queue'[c][k], handler'[c])
      <3>1. CASE k \in DOMAIN queue[c]
        BY <2>2, <3>1, <1>0, <1>8, <1>11 DEF HandsOnce
      <3>2. CASE k \notin DOMAIN queue[c]
        BY <2>2, <3>2, <1>0, <1>8, <1>12, <1>15 DEF HandsMade
      <3>3. QED
        BY <3>1, <3>2
    <2>3. QED
      BY <2>1, <2>2 DEF HandsOnce, Same
  <1>19. AckedWasHandled'
    BY <1>0, <1>6, <1>7 DEF AckedWasHandled, OnlyMessage
  <1>20. BusInv'
    BY <1>10, <1>16, <1>17, <1>18, <1>19 DEF BusInv
  <1>21. QED
    BY <1>1, <1>2, <1>6, <1>7, <1>9, <1>11, <1>20 DEF old, x
\* An operation that makes no delivery: hands are those of before, or empty.
LEMMA HandsLeft ==
  ASSUME BusInv, stream' \in [Buses -> Seq(Message)], NEW a \in Buses, NEW i, OnlyMessage(a, i),
         queue' = queue, handler' \in [Buses -> Handler], FailedWasLast',
         \A c \in Buses : handler'[c].at # "idle" =>
           handler[c].at # "idle" /\ handler'[c].msg = handler[c].msg /\ handler'[c].n = handler[c].n,
         i \in DOMAIN stream[a] /\ stream'[a][i].state = "acked" => stream'[a][i].end # "none"
  PROVE  BusInv'
  <1>0. BusShape /\ HandsMade /\ HandsOnce /\ AckedWasHandled
    BY DEF BusInv
  <1>1. BusShape'
    BY <1>0 DEF BusShape
  <1>2. \A c \in Buses : \A y : Made(c, y) =>
           y.msg \in DOMAIN stream'[c] /\ y.n \in 1 .. stream'[c][y.msg].delivered
    BY <1>0, MadeKept
  <1>3. HandsMade'
    <2>1. \A c \in Buses : \A k \in DOMAIN queue'[c] :
            queue'[c][k].msg \in DOMAIN stream'[c] /\ queue'[c][k].n \in 1 .. stream'[c][queue'[c][k].msg].delivered
      BY <1>0, <1>2 DEF HandsMade
    <2>2. ASSUME NEW c \in Buses, handler'[c].at # "idle"
          PROVE  handler'[c].msg \in DOMAIN stream'[c] /\ handler'[c].n \in 1 .. stream'[c][handler'[c].msg].delivered
      <3>1. Made(c, handler[c]) /\ handler'[c].msg = handler[c].msg /\ handler'[c].n = handler[c].n
        BY <2>2, <1>0 DEF HandsMade
      <3>2. handler[c].msg \in DOMAIN stream'[c] /\ handler[c].n \in 1 .. stream'[c][handler[c].msg].delivered
        BY <3>1, <1>2
      <3>3. QED
        BY <3>1, <3>2
    <2>3. QED
      BY <2>1, <2>2 DEF HandsMade, Made
  <1>4. HandsOnce'
    BY <1>0 DEF HandsOnce, Same
  <1>5. AckedWasHandled'
    BY <1>0 DEF AckedWasHandled, OnlyMessage
  <1>6. QED
    BY <1>1, <1>3, <1>4, <1>5 DEF BusInv

LEMMA SameStream ==
  ASSUME BusShape, UNCHANGED stream
  PROVE  \A b \in Buses : \A i : stream' \in [Buses -> Seq(Message)] /\ OnlyMessage(b, i)
  <1>1. \A c \in Buses : \A k \in DOMAIN stream[c] : stream[c][k].delivered \in Int
    BY MessageTyped DEF BusShape
  <1>2. QED
    BY <1>1 DEF OnlyMessage, BusShape

LEMMA AckExpiresKeeps ==
  ASSUME BusInv, NEW b \in Buses, NEW i, AckExpires(b, i)
  PROVE  /\ BusInv' /\ OnlyMessage(b, i)
         /\ i \in DOMAIN stream[b] /\ stream'[b][i].delivered = stream[b][i].delivered
         /\ stream[b][i].delivered < MaxDeliver /\ stream'[b][i].state = "ready"
         /\ stream'[b][i].end = stream[b][i].end
  <1>0. BusShape /\ FailedWasLast
    BY DEF BusInv
  <1> DEFINE old == stream[b][i]
  <1>1. i \in DOMAIN stream[b] /\ old \in Message /\ old.delivered < MaxDeliver
    BY <1>0 DEF BusShape, AckExpires
  <1>2. PICK m : m = [old EXCEPT !.state = "ready"]
    OBVIOUS
  <1>3. m \in Message /\ m.full = old.full /\ m.delivered = old.delivered /\ m.state = "ready" /\ m.end = old.end
    BY <1>1, <1>2 DEF Message
  <1>4. stream' = [stream EXCEPT ![b][i] = m] /\ queue' = queue /\ handler' = handler
    BY <1>2 DEF AckExpires
  <1>5. m.delivered >= old.delivered
    BY <1>1, <1>3, MessageTyped
  <1>6. stream' \in [Buses -> Seq(Message)] /\ OnlyMessage(b, i) /\ stream'[b][i] = m
    BY <1>0, <1>1, <1>3, <1>4, <1>5, MessageChanged
  <1>7. FailedWasLast' /\ handler' \in [Buses -> Handler]
    BY <1>0, <1>4 DEF FailedWasLast, BusShape
  <1>8. BusInv'
    BY <1>3, <1>4, <1>6, <1>7, HandsLeft
  <1>9. QED
    BY <1>1, <1>3, <1>6, <1>8

Answered(o, state, end) == [o EXCEPT !.state = state, !.end = end]

LEMMA MessageAnswered ==
  ASSUME NEW o \in Message, NEW state, state \in {"ready", "out", "acked", "lost"},
         NEW end, end \in {"none", "handled", "dead", "dropped"},
         NEW m, m = Answered(o, state, end) \/ m = [o EXCEPT !.end = end]
  PROVE  m \in Message /\ m.delivered = o.delivered /\ m.full = o.full /\ m.end = end /\ m.state \in {state, o.state}
  <1>1. CASE m = Answered(o, state, end)
    BY <1>1 DEF Message, Answered
  <1>2. CASE m = [o EXCEPT !.end = end]
    BY <1>2 DEF Message
  <1>3. QED
    BY <1>1, <1>2

\* The answer of a handler: only a message that is handled, or whose dead letter was sent, is
\* acknowledged.
LEMMA AnswerKeeps ==
  ASSUME BusInv, NEW b \in Buses, handler[b].at # "idle",
         NEW state \in {"ready", "acked"}, NEW end \in {"none", "handled", "dead", "dropped"},
         state = "acked" => end # "none", Answer(b, state, end)
  PROVE  /\ BusInv' /\ OnlyMessage(b, handler[b].msg)
         /\ handler[b].msg \in DOMAIN stream[b]
         /\ stream'[b][handler[b].msg].delivered = stream[b][handler[b].msg].delivered
         /\ stream'[b][handler[b].msg].state \in {stream[b][handler[b].msg].state, state}
         /\ stream[b][handler[b].msg].state \notin {"acked", "lost"} /\ state # "acked" =>
              stream'[b][handler[b].msg].state \notin {"acked", "lost"}
         /\ end = "none" => stream'[b][handler[b].msg].end = stream[b][handler[b].msg].end
         /\ queue' = queue
         /\ handler'[b].at = "idle" /\ \A c \in Buses : c # b => handler'[c] = handler[c]
  <1>0. BusShape /\ HandsMade /\ FailedWasLast /\ AckedWasHandled
    BY DEF BusInv
  <1> DEFINE i == handler[b].msg
             old == stream[b][i]
             st == IF old.state \in {"acked", "lost"} THEN old.state ELSE state
  <1>1. i \in DOMAIN stream[b] /\ old \in Message
    BY <1>0 DEF BusShape, HandsMade, Made
  <1>2. PICK e : e \in {"none", "handled", "dead", "dropped"} /\ e = First(old.end, end)
    BY <1>1 DEF First, Message
  <1>3. /\ old.state \in {"ready", "out", "acked", "lost"} /\ old.delivered \in Int
        /\ old.state = "acked" => old.end # "none"
    BY <1>0, <1>1, MessageTyped DEF Message, AckedWasHandled
  <1>4. (old.state = "acked" \/ state = "acked") => e # "none"
    BY <1>2, <1>3 DEF First
  <1>5. queue' = queue /\ handler' = [handler EXCEPT ![b] = Idle]
    BY DEF Answer
  <1>6. /\ handler' \in [Buses -> Handler] /\ handler'[b].at = "idle"
        /\ \A c \in Buses : c # b => handler'[c] = handler[c]
    BY <1>0, <1>5 DEF BusShape, Idle, Handler
  <1>7. PICK s2 : s2 \in {"ready", "out", "acked", "lost"} /\ s2 = st
    BY <1>3
  <1>8. s2 \in {old.state, state} /\ (s2 = "acked" => old.state = "acked" \/ state = "acked")
    BY <1>7
  <1>9. \/ stream' = [stream EXCEPT ![b][i] = Answered(old, s2, e)]
        \/ stream' = [stream EXCEPT ![b][i] = [old EXCEPT !.end = e]]
    BY <1>2, <1>7, Zenon DEF Answer, Answered
  <1>10. PICK m : /\ stream' = [stream EXCEPT ![b][i] = m]
                  /\ m = Answered(old, s2, e) \/ m = [old EXCEPT !.end = e]
    BY <1>9, Zenon
  <1> HIDE DEF old, st, i
  <1>11. /\ m \in Message /\ m.delivered = old.delivered /\ m.full = old.full
         /\ m.end = e /\ m.state \in {s2, old.state}
    BY <1>1, <1>2, <1>7, <1>10, MessageAnswered
  <1>12. stream' = [stream EXCEPT ![b][i] = m]
    BY <1>10, Zenon
  <1>13. stream' \in [Buses -> Seq(Message)] /\ OnlyMessage(b, i) /\ stream'[b][i] = m
    <2>1. i \in DOMAIN stream[b] /\ m.full = stream[b][i].full /\ m.delivered >= stream[b][i].delivered
      BY <1>1, <1>3, <1>11 DEF old
    <2>2. QED
      BY <2>1, <1>0, <1>11, <1>12, MessageChanged
  <1>14. FailedWasLast'
    BY <1>0, <1>6 DEF FailedWasLast
  <1>15. stream'[b][i].state = "acked" => stream'[b][i].end # "none"
    BY <1>4, <1>8, <1>11, <1>13
  <1>16. BusInv'
    <2>1. \A c \in Buses : handler'[c].at # "idle" =>
            handler[c].at # "idle" /\ handler'[c].msg = handler[c].msg /\ handler'[c].n = handler[c].n
      BY <1>6
    <2>2. QED
      BY <2>1, <1>5, <1>6, <1>13, <1>14, <1>15, HandsLeft
  <1>17. end = "none" => e = old.end
    BY <1>2 DEF First
  <1>18. QED
    BY <1>1, <1>5, <1>6, <1>8, <1>11, <1>13, <1>16, <1>17 DEF i, old

\* The last delivery has failed, or its dead letter could not be published.
LEMMA GivesUpKeeps ==
  ASSUME BusInv, NEW b \in Buses, NEW h \in Handler, UNCHANGED <<stream, queue>>,
         handler' = [handler EXCEPT ![b] = h],
         h.at # "idle" => /\ handler[b].at # "idle" /\ h.msg = handler[b].msg /\ h.n = handler[b].n
                          /\ h.at = "failed" => h.n = MaxDeliver
  PROVE  /\ BusInv' /\ handler'[b] = h
         /\ \A i : OnlyMessage(b, i) /\ \A c \in Buses : c # b => handler'[c] = handler[c]
  <1>0. BusShape /\ FailedWasLast /\ AckedWasHandled
    BY DEF BusInv
  <1>1. stream' \in [Buses -> Seq(Message)] /\ OnlyMessage(b, 0) /\ \A i : OnlyMessage(b, i)
    BY <1>0, SameStream
  <1>2. handler' \in [Buses -> Handler] /\ \A c \in Buses : handler'[c] = IF c = b THEN h ELSE handler[c]
    BY <1>0 DEF BusShape
  <1>3. \A c \in Buses : handler'[c].at # "idle" =>
          handler[c].at # "idle" /\ handler'[c].msg = handler[c].msg /\ handler'[c].n = handler[c].n
    BY <1>2
  <1>4. FailedWasLast'
    BY <1>0, <1>2 DEF FailedWasLast
  <1>5. 0 \in DOMAIN stream[b] /\ stream'[b][0].state = "acked" => stream'[b][0].end # "none"
    BY <1>0 DEF AckedWasHandled
  <1>6. QED
    BY <1>1, <1>2, <1>3, <1>4, <1>5, HandsLeft

LEMMA TakeKeeps ==
  ASSUME BusInv, NEW b \in Buses, Take(b)
  PROVE  /\ BusInv' /\ UNCHANGED stream
         /\ handler[b].at = "idle" /\ handler'[b].at = "work"
         /\ \A c \in Buses : c # b => handler'[c] = handler[c] /\ queue'[c] = queue[c]
         /\ handler'[b].msg \in DOMAIN stream[b]
         /\ \A k \in DOMAIN queue[b] :
              \/ queue[b][k].msg = handler'[b].msg /\ queue[b][k].n = handler'[b].n
              \/ k - 1 \in DOMAIN queue'[b] /\ queue'[b][k - 1] = queue[b][k]
  <1>0. BusShape /\ HandsMade /\ HandsOnce /\ FailedWasLast /\ AckedWasHandled
    BY DEF BusInv
  <1> DEFINE x == Head(queue[b])
  <1>1. /\ queue[b] \in Seq(Delivery) /\ queue[b] # <<>> /\ queue'[b] = Tail(queue[b])
        /\ \A c \in Buses : c # b => queue'[c] = queue[c]
        /\ queue' = [c \in Buses |-> queue'[c]] /\ UNCHANGED stream
    BY <1>0 DEF BusShape, Take
  <1>2. /\ queue'[b] \in Seq(Delivery) /\ 1 \in DOMAIN queue[b] /\ x = queue[b][1] /\ x \in Delivery
        /\ \A k \in DOMAIN queue'[b] :
             k + 1 \in DOMAIN queue[b] /\ queue'[b][k] = queue[b][k + 1] /\ k + 1 # 1 /\ k \in Nat
        /\ \A k \in DOMAIN queue[b] : k = 1 \/ (k - 1 \in DOMAIN queue'[b] /\ queue'[b][k - 1] = queue[b][k])
    BY <1>1, TailTaken
  <1>3. handler[b].at = "idle" /\ handler' = [handler EXCEPT ![b] = [at |-> "work", msg |-> x.msg, n |-> x.n]]
    BY DEF Take
  <1> HIDE DEF x
  <1>4. x.msg \in Nat /\ x.n \in Nat
    BY <1>2, BusAssumption DEF Delivery, MaxMessages
  <1>5. /\ handler' \in [Buses -> Handler] /\ handler'[b].at = "work"
        /\ handler'[b].msg = x.msg /\ handler'[b].n = x.n
        /\ \A c \in Buses : c # b => handler'[c] = handler[c]
    BY <1>0, <1>3, <1>4 DEF BusShape, Handler
  <1>6. BusShape'
    <2>1. \A c \in Buses : queue'[c] \in Seq(Delivery)
      BY <1>0, <1>1, <1>2 DEF BusShape
    <2>2. QED
      BY <2>1, <1>0, <1>1, <1>5 DEF BusShape
  <1>7. x.msg \in DOMAIN stream[b] /\ x.n \in 1 .. stream[b][x.msg].delivered
    BY <1>0, <1>2 DEF HandsMade, Made
  <1>8. HandsMade'
    <2>1. ASSUME NEW c \in Buses, NEW k \in DOMAIN queue'[c]
          PROVE  \E l \in DOMAIN queue[c] : queue'[c][k] = queue[c][l]
      BY <1>1, <1>2
    <2>2. \A c \in Buses : \A k \in DOMAIN queue'[c] : Made(c, queue'[c][k])
      BY <2>1, <1>0 DEF HandsMade
    <2>3. \A c \in Buses : handler'[c].at # "idle" =>
            handler'[c].msg \in DOMAIN stream[c] /\ handler'[c].n \in 1 .. stream[c][handler'[c].msg].delivered
      BY <1>0, <1>5, <1>7 DEF HandsMade, Made
    <2>4. QED
      BY <2>2, <2>3, <1>1 DEF HandsMade, Made
  <1>9. HandsOnce'
    <2>1. ASSUME NEW c \in Buses, NEW k \in DOMAIN queue'[c], NEW l \in DOMAIN queue'[c],
                 Same(queue'[c][k], queue'[c][l])
          PROVE  k = l
      <3>1. CASE c = b
        <4>1. /\ k + 1 \in DOMAIN queue[b] /\ l + 1 \in DOMAIN queue[b] /\ k \in Nat /\ l \in Nat
              /\ Same(queue[b][k + 1], queue[b][l + 1])
          BY <2>1, <3>1, <1>2
        <4>2. k + 1 = l + 1
          BY <4>1, <1>0 DEF HandsOnce
        <4>3. QED
          BY <4>1, <4>2
      <3>2. CASE c # b
        BY <2>1, <3>2, <1>0, <1>1 DEF HandsOnce
      <3>3. QED
        BY <3>1, <3>2
    <2>2. ASSUME NEW c \in Buses, handler'[c].at # "idle", NEW k \in DOMAIN queue'[c]
          PROVE  ~Same(queue'[c][k], handler'[c])
      <3>1. CASE c = b
        <4>1. k + 1 \in DOMAIN queue[b] /\ queue'[b][k] = queue[b][k + 1] /\ k + 1 # 1
          BY <3>1, <1>2
        <4>2. ~Same(queue[b][k + 1], queue[b][1])
          BY <4>1, <1>0, <1>2 DEF HandsOnce
        <4>3. QED
          BY <3>1, <4>1, <4>2, <1>2, <1>5 DEF Same
      <3>2. CASE c # b
        BY <2>2, <3>2, <1>0, <1>1, <1>5 DEF HandsOnce
      <3>3. QED
        BY <3>1, <3>2
    <2>3. QED
      BY <2>1, <2>2 DEF HandsOnce, Same
  <1>10. FailedWasLast' /\ AckedWasHandled'
    BY <1>0, <1>1, <1>5 DEF FailedWasLast, AckedWasHandled
  <1>11. QED
    BY <1>1, <1>2, <1>3, <1>5, <1>6, <1>7, <1>8, <1>9, <1>10 DEF BusInv

LEMMA StopKeeps ==
  ASSUME BusInv, ConsumersStop
  PROVE  BusInv'
  <1>1. handler' \in [Buses -> Handler] /\ \A b \in Buses : handler'[b].at = "idle"
    BY DEF ConsumersStop, Idle, Handler
  <1>2. /\ queue' \in [Buses -> Seq(Delivery)] /\ \A b \in Buses : queue'[b] = <<>>
        /\ UNCHANGED stream
    BY DEF ConsumersStop
  <1>3. \A b \in Buses : DOMAIN queue'[b] = {}
    BY <1>2
  <1>4. QED
    BY <1>1, <1>2, <1>3
    DEF BusInv, BusShape, HandsMade, Made, HandsOnce, FailedWasLast, AckedWasHandled

\* A drain takes what the client holds, and with the durable consumer what JetStream would
\* still deliver.
LEMMA DrainKeeps ==
  ASSUME BusInv, NEW b \in Buses, NEW deleted \in BOOLEAN, Drain(b, deleted)
  PROVE  /\ BusInv' /\ UNCHANGED handler /\ queue'[b] = <<>>
         /\ \A c \in Buses : c # b => queue'[c] = queue[c] /\ stream'[c] = stream[c]
         /\ \A c \in Buses : Len(stream'[c]) = Len(stream[c]) /\ DOMAIN stream'[c] = DOMAIN stream[c]
         /\ \A c \in Buses : \A k \in DOMAIN stream[c] :
              /\ stream'[c][k].full = stream[c][k].full /\ stream'[c][k].end = stream[c][k].end
              /\ stream'[c][k].delivered = stream[c][k].delivered
              /\ stream'[c][k].state = stream[c][k].state \/ (deleted /\ stream[c][k].state # "acked")
  <1>0. BusShape /\ HandsMade /\ HandsOnce /\ FailedWasLast /\ AckedWasHandled
    BY DEF BusInv
  <1> DEFINE old == stream[b]
             M(k) == IF deleted /\ old[k].state # "acked" THEN [old[k] EXCEPT !.state = "lost"] ELSE old[k]
  <1>1. /\ stream' = [stream EXCEPT ![b] = [k \in DOMAIN old |-> M(k)]]
        /\ queue' = [queue EXCEPT ![b] = <<>>] /\ UNCHANGED handler
    BY Zenon DEF Drain
  <1>2. old \in Seq(Message) /\ DOMAIN old = 1 .. Len(old) /\ Len(old) \in Nat
    BY <1>0 DEF BusShape
  <1>3. \A k \in DOMAIN old :
          /\ M(k) \in Message /\ M(k).full = old[k].full /\ M(k).end = old[k].end
          /\ M(k).delivered = old[k].delivered
          /\ M(k).state = old[k].state \/ (deleted /\ old[k].state # "acked")
          /\ M(k).state = "acked" => old[k].state = "acked"
    <2> SUFFICES ASSUME NEW k \in DOMAIN old
                 PROVE  /\ M(k) \in Message /\ M(k).full = old[k].full /\ M(k).end = old[k].end
                        /\ M(k).delivered = old[k].delivered
                        /\ M(k).state = old[k].state \/ (deleted /\ old[k].state # "acked")
                        /\ M(k).state = "acked" => old[k].state = "acked"
      OBVIOUS
    <2>1. old[k] \in Message
      BY <1>2
    <2>2. PICK m : m = [old[k] EXCEPT !.state = "lost"]
      OBVIOUS
    <2>3. /\ m \in Message /\ m.full = old[k].full /\ m.end = old[k].end
          /\ m.delivered = old[k].delivered /\ m.state = "lost"
      BY <2>1, <2>2 DEF Message
    <2>4. (M(k) = m /\ deleted /\ old[k].state # "acked") \/ M(k) = old[k]
      BY <2>2
    <2> HIDE DEF M, old
    <2>5. QED
      BY <2>1, <2>3, <2>4
  <1> HIDE DEF M
  <1> DEFINE new == [k \in DOMAIN old |-> M(k)]
  <1>4. new \in Seq(Message) /\ Len(new) = Len(old) /\ DOMAIN new = DOMAIN old
        /\ \A k \in DOMAIN old : new[k] = M(k)
    <2>1. new \in [1 .. Len(old) -> Message]
      BY <1>2, <1>3
    <2>2. new \in Seq(Message)
      BY <1>2, <2>1
    <2>3. QED
      BY <1>2, <2>2
  <1> HIDE DEF new
  <1>5. stream' = [stream EXCEPT ![b] = new]
    BY <1>1, Zenon DEF new
  <1>6. /\ stream' \in [Buses -> Seq(Message)] /\ stream'[b] = new
        /\ \A c \in Buses : c # b => stream'[c] = stream[c]
    BY <1>0, <1>4, <1>5 DEF BusShape
  <1>7. /\ queue' \in [Buses -> Seq(Delivery)] /\ queue'[b] = <<>> /\ DOMAIN queue'[b] = {}
        /\ \A c \in Buses : c # b => queue'[c] = queue[c]
    BY <1>0, <1>1 DEF BusShape
  <1>8. \A c \in Buses : Len(stream'[c]) = Len(stream[c]) /\ DOMAIN stream'[c] = DOMAIN stream[c]
    BY <1>4, <1>6 DEF old
  <1>9. \A c \in Buses : \A k \in DOMAIN stream[c] :
          /\ stream'[c][k].full = stream[c][k].full /\ stream'[c][k].end = stream[c][k].end
          /\ stream'[c][k].delivered = stream[c][k].delivered
          /\ stream'[c][k].state = stream[c][k].state \/ (deleted /\ stream[c][k].state # "acked")
          /\ stream'[c][k].state = "acked" => stream[c][k].state = "acked"
    BY <1>3, <1>4, <1>6 DEF old
  <1>10. \A c \in Buses : \A x : Made(c, x) =>
           x.msg \in DOMAIN stream'[c] /\ x.n \in 1 .. stream'[c][x.msg].delivered
    BY <1>8, <1>9 DEF Made
  <1>11. HandsMade'
    <2>1. \A c \in Buses : \A k \in DOMAIN queue'[c] : k \in DOMAIN queue[c] /\ queue'[c][k] = queue[c][k]
      BY <1>7
    <2>2. \A c \in Buses : \A k \in DOMAIN queue'[c] :
            queue'[c][k].msg \in DOMAIN stream'[c] /\ queue'[c][k].n \in 1 .. stream'[c][queue'[c][k].msg].delivered
      BY <2>1, <1>0, <1>10 DEF HandsMade
    <2>3. \A c \in Buses : handler'[c].at # "idle" =>
            handler'[c].msg \in DOMAIN stream'[c] /\ handler'[c].n \in 1 .. stream'[c][handler'[c].msg].delivered
      BY <1>0, <1>1, <1>10 DEF HandsMade
    <2>4. QED
      BY <2>2, <2>3 DEF HandsMade, Made
  <1>12. HandsOnce' /\ FailedWasLast'
    BY <1>0, <1>1, <1>7 DEF HandsOnce, Same, FailedWasLast
  <1>13. AckedWasHandled'
    BY <1>0, <1>8, <1>9 DEF AckedWasHandled
  <1>14. BusShape'
    BY <1>0, <1>1, <1>6, <1>7 DEF BusShape
  <1>15. BusInv'
    BY <1>11, <1>12, <1>13, <1>14 DEF BusInv
  <1>16. \A c \in Buses : c # b => queue'[c] = queue[c] /\ stream'[c] = stream[c]
    BY <1>6, <1>7
  <1>17. UNCHANGED handler /\ queue'[b] = <<>>
    BY <1>1, <1>7
  <1>18. QED
    BY ONLY <1>8, <1>9, <1>15, <1>16, <1>17

\* What the steps of Run leave alone.
LEMMA RunFrame ==
  ASSUME NEW b, RunStep(b)
  PROVE  /\ UNCHANGED <<handler, open, runner, data, metrics, due, task, rules, insightVars>>
         /\ UNCHANGED budget \/ Spend
         /\ UNCHANGED <<stream, queue, behind>> \/ \E deleted \in BOOLEAN : Stop(b, deleted)
  BY Zenon DEF RunStep, Subscribe, SubscribeFails, Stop, Drain, pipeVars

LEMMA SameBus == BusInv /\ UNCHANGED <<stream, queue, handler>> => BusInv'
  BY DEF BusInv, BusShape, HandsMade, Made, HandsOnce, Same, FailedWasLast, AckedWasHandled

\* What the end of a handler leaves: of a message that is refused, all but its end.
LEMMA FinishKeeps ==
  ASSUME BusInv, NEW b \in Buses, NEW ok \in BOOLEAN, Finish(b, ok)
  PROVE  /\ BusInv' /\ OnlyMessage(b, handler[b].msg) /\ handler[b].msg \in DOMAIN stream[b]
         /\ handler[b].at = "work" /\ handler'[b].at \in {"idle", "failed"} /\ queue' = queue
         /\ \A c \in Buses : c # b => handler'[c] = handler[c]
         /\ stream'[b][handler[b].msg].delivered = stream[b][handler[b].msg].delivered
         /\ ~ok /\ stream[b][handler[b].msg].state \notin {"acked", "lost"} =>
              stream'[b][handler[b].msg].state \notin {"acked", "lost"}
         /\ ~ok => stream'[b][handler[b].msg].end = stream[b][handler[b].msg].end
         /\ ShouldDeadLetter(handler[b].n) \/ handler[b].n # MaxDeliver
  <1>1. handler[b].at = "work" /\ handler[b] \in Handler /\ BusShape
    BY DEF Finish, BusInv, BusShape
  <1>2. Made(b, handler[b])
    BY <1>1 DEF BusInv, HandsMade
  <1>3. handler[b].msg \in DOMAIN stream[b]
    BY <1>2 DEF Made
  <1>4. ShouldDeadLetter(handler[b].n) \/ handler[b].n # MaxDeliver
    BY BusAssumption DEF ShouldDeadLetter
  <1>5. CASE ok
    BY <1>1, <1>3, <1>4, <1>5, AnswerKeeps DEF Finish
  <1>6. CASE ~ok /\ ~ShouldDeadLetter(handler[b].n)
    BY <1>1, <1>3, <1>4, <1>6, AnswerKeeps DEF Finish
  <1>7. CASE ~ok /\ ShouldDeadLetter(handler[b].n)
    <2>0. PICK h : h = [handler[b] EXCEPT !.at = "failed"]
      OBVIOUS
    <2>1. UNCHANGED <<stream, queue>> /\ handler' = [handler EXCEPT ![b] = h]
      BY <1>7, <2>0 DEF Finish
    <2>2. h \in Handler /\ h.msg = handler[b].msg /\ h.n = handler[b].n /\ h.at = "failed"
      BY <1>1, <2>0 DEF Handler
    <2>3. handler[b].n <= MaxDeliver
      <3>1. stream[b][handler[b].msg] \in Message
        BY <1>1, <1>3 DEF BusShape
      <3>2. stream[b][handler[b].msg].delivered \in 0 .. MaxDeliver
        BY <3>1, MessageTyped
      <3>3. QED
        BY <3>2, <1>2, BusAssumption DEF Made
    <2>4. handler[b].n = MaxDeliver
      BY <1>1, <1>7, <2>3, BusAssumption DEF ShouldDeadLetter, Handler
    <2>5. /\ BusInv' /\ handler'[b] = h
          /\ \A i : OnlyMessage(b, i) /\ \A c \in Buses : c # b => handler'[c] = handler[c]
      BY <1>1, <2>1, <2>2, <2>4, GivesUpKeeps
    <2>6. QED
      BY <1>1, <1>3, <1>4, <2>1, <2>2, <2>5
  <1>8. QED
    BY <1>5, <1>6, <1>7

LEMMA DeadLetterKeeps ==
  ASSUME BusInv, NEW b \in Buses, DeadLetter(b)
  PROVE  /\ BusInv' /\ OnlyMessage(b, handler[b].msg)
         /\ handler[b].at = "failed" /\ handler'[b].at = "idle" /\ queue' = queue
         /\ \A c \in Buses : c # b => handler'[c] = handler[c]
  <1>1. handler[b].at = "failed"
    BY DEF DeadLetter
  <1>2. CASE Answer(b, "acked", "dead")
    BY <1>1, <1>2, AnswerKeeps
  <1>3. CASE Answer(b, "acked", "dropped")
    BY <1>1, <1>3, AnswerKeeps
  <1>4. CASE handler' = [handler EXCEPT ![b] = Idle] /\ UNCHANGED <<stream, queue>>
    <2>1. Idle \in Handler /\ Idle.at = "idle"
      BY DEF Idle, Handler
    <2>2. PICK h \in Handler : h = Idle
      BY <2>1
    <2>3. /\ BusInv' /\ handler'[b] = h
          /\ \A i : OnlyMessage(b, i) /\ \A c \in Buses : c # b => handler'[c] = handler[c]
      BY <1>4, <2>1, <2>2, GivesUpKeeps
    <2>4. QED
      BY <1>1, <1>4, <2>1, <2>2, <2>3
  <1>5. QED
    BY <1>2, <1>3, <1>4 DEF DeadLetter

LEMMA BusStep ==
  ASSUME BusInv, Types, Step
  PROVE  BusInv'
  <1>1. ASSUME NEW j \in Jobs, Persist(j) \/ Returned(j)
        PROVE  BusInv'
    <2>1. UNCHANGED <<stream, queue, handler>>
      BY <1>1, Zenon DEF Persist, Returned, busVars
    <2>2. QED
      BY <2>1, SameBus
  <1>2. ASSUME NEW j \in Jobs, PublishMetrics(j) \/ PublishInsights(j)
        PROVE  BusInv'
    <2>1. runner[j].full \in BOOLEAN
      BY DEF Types, Runner
    <2>2. PICK f \in BOOLEAN : f = runner[j].full
      BY <2>1
    <2>3. /\ UNCHANGED <<queue, handler>>
          /\ UNCHANGED stream \/ Stored(METRICS, j, runner[j].full) \/ Stored(INSIGHTS, j, runner[j].full)
      BY <1>2, Zenon DEF PublishMetrics, PublishInsights, Dropped
    <2>4. ASSUME NEW b \in Buses, Stored(b, j, f)
          PROVE  BusInv'
      BY <2>3, <2>4, StoredKeeps
    <2>5. UNCHANGED stream \/ \E b \in Buses : Stored(b, j, f)
      BY <2>2, <2>3 DEF Stored, Buses
    <2>6. QED
      BY <2>3, <2>4, <2>5, SameBus
  <1>3. ASSUME NEW b \in Buses, Consume(b)
        PROVE  BusInv'
    BY <1>3, TakeKeeps DEF Consume
  <1>4. ASSUME NEW b \in Buses, Consumed(b)
        PROVE  BusInv'
    <2>1. Finish(b, TRUE) \/ Finish(b, FALSE)
      BY <1>4, Zenon DEF Consumed, TaskAt
    <2>2. QED
      BY <2>1, FinishKeeps
  <1>5. ASSUME NEW b \in Buses, DeadLetter(b)
        PROVE  BusInv'
    BY <1>5, DeadLetterKeeps
  <1>6. ASSUME NEW b \in Buses, NEW i \in 1 .. MaxMessages, Deliver(b, i) \/ AckExpires(b, i)
        PROVE  BusInv'
    BY <1>6, DeliverKeeps, AckExpiresKeeps
  <1>7. ASSUME NEW w \in Workers, TaskStep(w)
        PROVE  BusInv'
    <2>1. UNCHANGED <<stream, queue, handler>>
      BY <1>7, Zenon DEF busVars, TaskStep, BuildDailyMetrics, UpsertMetricsDaily, LoadInsights,
        ReopenInsight, KeepOpen, TaskFails
    <2>2. QED
      BY <2>1, SameBus
  <1>8. ASSUME (\E status \in {"open", "reviewed", "dismissed"} : Decide(status)) \/ Detect
        PROVE  BusInv'
    <2>1. UNCHANGED <<stream, queue, handler>>
      BY <1>8, Zenon DEF busVars, Decide, Detect
    <2>2. QED
      BY <2>1, SameBus
  <1>9. CASE Restart
    BY <1>9, StopKeeps DEF Restart
  <1>10. open \subseteq Buses
    BY DEF Types
  <1>11. ASSUME NEW b \in Buses, RunStep(b)
         PROVE  BusInv'
    <2>1. ASSUME NEW deleted \in BOOLEAN, Stop(b, deleted)
          PROVE  BusInv'
      BY <2>1, DrainKeeps DEF Stop
    <2>2. QED
      BY <2>1, <1>11, RunFrame, SameBus
  <1>12. QED
    BY <1>1, <1>2, <1>3, <1>4, <1>5, <1>6, <1>7, <1>8, <1>9, <1>10, <1>11
    DEF Step, ConsumerStep, ServerStep

-----------------------------------------------------------------------------
(* Types, and what each operation leaves of the tasks.                        *)

LEMMA MaxOfTwo ==
  ASSUME NEW a \in Nat, NEW b \in Nat
  PROVE  Max({a, b}) \in {a, b} /\ Max({a, b}) >= a /\ Max({a, b}) >= b
  <1>1. PICK x \in {a, b} : \A y \in {a, b} : x >= y
    <2>1. CASE a >= b
      BY <2>1
    <2>2. CASE ~(a >= b)
      BY <2>2
    <2>3. QED
      BY <2>1, <2>2
  <1>2. QED
    BY <1>1 DEF Max

LEMMA DaysOfDays == \A full : DaysOf(full) \subseteq Days
  BY DEF DaysOf, Days

LEMMA NoTaskTyped == NoTask \in Task /\ NoTask.at = "idle" /\ ~NoTask.shared
  BY BusAssumption, PipelineAssumption DEF NoTask, Task, NoRow, StatusRow, Finding, Clock

Calculation(full, seen, shared) ==
  [NoTask EXCEPT !.at = "upsert", !.full = full, !.seen = seen, !.shared = shared]
Refresh(r, f, at) == [NoTask EXCEPT !.row = r, !.found = f, !.at = at]
Reopening(t, r) == [t EXCEPT !.at = "open", !.row = r]

LEMMA NewCalculation ==
  ASSUME NEW full \in BOOLEAN, NEW seen \in 0 .. MaxRuns, NEW shared \in BOOLEAN,
         NEW t, t = Calculation(full, seen, shared)
  PROVE  t \in Task /\ t.at = "upsert" /\ t.full = full /\ t.seen = seen /\ t.shared = shared
  BY NoTaskTyped, Zenon DEF Task, Calculation

LEMMA NewRefresh ==
  ASSUME NEW r \in StatusRow, NEW f \in Finding, NEW at, at \in {"ok", "reopen", "open"},
         NEW t, t = Refresh(r, f, at)
  PROVE  t \in Task /\ t.at = at /\ t.row = r /\ t.found = f
  BY NoTaskTyped, Zenon DEF Task, Refresh

LEMMA NewReopening ==
  ASSUME NEW u \in Task, NEW r \in StatusRow, NEW t, t = Reopening(u, r)
  PROVE  t \in Task /\ t.at = "open" /\ t.row = r
  BY Zenon DEF Task, Reopening

\* Only w's task changes, to t.
TaskSet(w, t) == task' = [task EXCEPT ![w] = t]

LEMMA TaskSetTyped ==
  ASSUME Types, NEW w \in Workers, NEW t \in Task, TaskSet(w, t)
  PROVE  task' \in [Workers -> Task] /\ task'[w] = t /\ \A v \in Workers : v # w => task'[v] = task[v]
  BY DEF Types, TaskSet

\* A calculation begins, and is seen by those under way.
LEMMA BuildTask ==
  ASSUME BusInv, Types, NEW w \in Workers, BuildDailyMetrics(w)
  PROVE  /\ task' \in [Workers -> Task]
         /\ task[w].at = "idle" /\ task'[w].at = "upsert" /\ task'[w].seen = data
         /\ task'[w].full = Full(w)
         /\ ~task'[w].shared => \A u \in Workers : ~Calculating(u)
         /\ \A v \in Workers : v # w =>
              /\ task'[v].at = task[v].at /\ task'[v].full = task[v].full /\ task'[v].seen = task[v].seen
              /\ task'[v].row = task[v].row
              /\ Calculating(v) => task'[v].shared
  <1>1. Full(w) \in BOOLEAN
    <2>1. CASE w \in Buses
      <3>1. handler[w].at = "work"
        BY <2>1, PipelineAssumption DEF BuildDailyMetrics
      <3>2. handler[w].msg \in DOMAIN stream[w] /\ stream[w] \in Seq(Message)
        BY <2>1, <3>1 DEF BusInv, BusShape, HandsMade, Made
      <3>3. QED
        BY <2>1, <3>2, MessageTyped DEF Full
    <2>2. CASE w \in Jobs
      BY <2>2, PipelineAssumption DEF Full, Types, Runner
    <2>3. CASE w \notin Buses /\ w \notin Jobs
      BY <2>3 DEF Full
    <2>4. QED
      BY <2>1, <2>2, <2>3
  <1>2. PICK full \in BOOLEAN : full = Full(w)
    BY <1>1
  <1>3. PICK shared \in BOOLEAN : shared = \E u \in Workers : Calculating(u)
    OBVIOUS
  <1>4. PICK t : t = Calculation(full, data, shared)
    OBVIOUS
  <1>5. data \in 0 .. MaxRuns /\ task \in [Workers -> Task]
    BY DEF Types
  <1>6. t \in Task /\ t.at = "upsert" /\ t.full = full /\ t.seen = data /\ t.shared = shared
    BY <1>4, <1>5, NewCalculation
  <1>7. task' = [v \in Workers |-> IF v = w THEN t
                                   ELSE IF Calculating(v) THEN [task[v] EXCEPT !.shared = TRUE] ELSE task[v]]
    BY <1>2, <1>3, <1>4, Zenon DEF BuildDailyMetrics, Calculation
  <1>8. TaskAt(w, "idle")
    BY Zenon DEF BuildDailyMetrics
  <1>9. \A v \in Workers : [task[v] EXCEPT !.shared = TRUE] \in Task
    BY <1>5 DEF Task
  <1>10. task' \in [Workers -> Task]
    BY <1>5, <1>6, <1>7, <1>9
  <1>11. ASSUME NEW v \in Workers, v # w
         PROVE  /\ task'[v].at = task[v].at /\ task'[v].full = task[v].full /\ task'[v].seen = task[v].seen
                /\ task'[v].row = task[v].row
                /\ Calculating(v) => task'[v].shared
    <2>1. CASE Calculating(v)
      <3>1. task'[v] = [task[v] EXCEPT !.shared = TRUE] /\ task[v] \in Task
        BY <1>5, <1>7, <1>11, <2>1
      <3>2. QED
        BY <3>1 DEF Task
    <2>2. CASE ~Calculating(v)
      BY <1>7, <1>11, <2>2
    <2>3. QED
      BY <2>1, <2>2
  <1>12. QED
    BY <1>2, <1>3, <1>6, <1>7, <1>8, <1>10, <1>11 DEF TaskAt

\* Every other step of a worker is of its own task.
LEMMA AtSet ==
  ASSUME Types, NEW w \in Workers, NEW at \in {"upsert", "ok", "error"}, task' = [task EXCEPT ![w].at = at]
  PROVE  /\ task' \in [Workers -> Task] /\ \A v \in Workers : v # w => task'[v] = task[v]
         /\ task'[w].at = at /\ task'[w].full = task[w].full /\ task'[w].seen = task[w].seen
         /\ task'[w].shared = task[w].shared /\ task'[w].row = task[w].row
  <1>1. task \in [Workers -> Task]
    BY DEF Types
  <1>2. task[w] \in Task
    BY <1>1
  <1>3. PICK t : t = [task[w] EXCEPT !.at = at]
    OBVIOUS
  <1>4. t \in Task /\ t.at = at /\ t.full = task[w].full /\ t.seen = task[w].seen
        /\ t.shared = task[w].shared /\ t.row = task[w].row
    BY <1>2, <1>3 DEF Task
  <1>5. TaskSet(w, t)
    BY <1>3 DEF TaskSet
  <1>6. QED
    BY <1>4, <1>5, TaskSetTyped

LEMMA RowTyped ==
  ASSUME InsightTypes, NEW status \in {"none", "open", "reviewed", "dismissed"},
         NEW a \in Clock, NEW b \in Clock, NEW c \in Clock, UpsertStatus(status, a, b, c)
  PROVE  row' \in StatusRow /\ row'.status = status /\ row'.reviewed = a /\ row'.dismissed = b /\ row'.reopened = c
  BY DEF UpsertStatus, StatusRow

LEMMA ClockTyped == 0 \in Clock /\ \A t \in Clock : t \in Nat
  BY PipelineAssumption DEF Clock

LEMMA LoadTask ==
  ASSUME Types, InsightTypes, NEW w \in Workers, LoadInsights(w)
  PROVE  /\ task' \in [Workers -> Task] /\ \A v \in Workers : v # w => task'[v] = task[v]
         /\ task[w].at = "idle" /\ task'[w].at \in {"ok", "reopen", "open"} /\ task'[w].row = row
         /\ task'[w].at = "reopen" => ShouldReopen(row, finding)
         /\ task'[w].at = "open" => row.status \in {"none", "open"}
  <1>1. row \in StatusRow /\ finding \in Finding
    BY DEF InsightTypes
  <1> DEFINE a == IF finding.at = 0 THEN "ok"
                  ELSE IF ShouldReopen(row, finding) THEN "reopen"
                  ELSE IF row.status \in {"none", "open"} THEN "open" ELSE "ok"
  <1>2. PICK at : at = a
    OBVIOUS
  <1>3. at \in {"ok", "reopen", "open"}
    BY <1>2
  <1>4. PICK t : t = Refresh(row, finding, at)
    OBVIOUS
  <1>5. t \in Task /\ t.at = at /\ t.row = row
    BY <1>1, <1>3, <1>4, NewRefresh
  <1>6. TaskAt(w, "idle") /\ task' = [task EXCEPT ![w] = t]
    BY <1>2, <1>4, Zenon DEF LoadInsights, Refresh
  <1>7. task' \in [Workers -> Task] /\ task'[w] = t /\ \A v \in Workers : v # w => task'[v] = task[v]
    BY <1>5, <1>6, TaskSetTyped DEF TaskSet
  <1>8. /\ at = "reopen" => ShouldReopen(row, finding)
        /\ at = "open" => row.status \in {"none", "open"}
    BY <1>2
  <1>9. QED
    BY <1>3, <1>5, <1>6, <1>7, <1>8 DEF TaskAt

LEMMA ReopenTask ==
  ASSUME Types, InsightTypes, NEW w \in Workers, ReopenInsight(w)
  PROVE  /\ row' \in StatusRow /\ row'.status = "open"
         /\ task' \in [Workers -> Task] /\ \A v \in Workers : v # w => task'[v] = task[v]
         /\ task[w].at = "reopen" /\ task'[w].at \in {"idle", "open"}
         /\ w = Reader => task'[w].at = "idle"
  <1>1. task \in [Workers -> Task] /\ task[w] \in Task /\ now \in Clock
    BY DEF Types, InsightTypes
  <1>2. TaskAt(w, "reopen") /\ UpsertStatus("open", task[w].row.reviewed, 0, now)
    BY Zenon DEF ReopenInsight
  <1>3. task[w].row.reviewed \in Clock
    BY <1>1 DEF Task, StatusRow
  <1>4. row' \in StatusRow /\ row'.status = "open"
    BY <1>1, <1>2, <1>3, RowTyped, ClockTyped
  <1>5. PICK r : r = row'
    OBVIOUS
  <1>6. CASE w = Reader
    <2>1. TaskSet(w, NoTask)
      BY <1>6, Zenon DEF ReopenInsight, TaskSet
    <2>2. QED
      BY <1>2, <1>4, <1>6, <2>1, NoTaskTyped, TaskSetTyped DEF TaskAt
  <1>7. CASE w # Reader
    <2>1. PICK t : t = Reopening(task[w], r)
      OBVIOUS
    <2>2. TaskSet(w, t)
      BY <1>5, <1>7, <2>1, Zenon DEF ReopenInsight, TaskSet, Reopening
    <2>3. t \in Task /\ t.at = "open"
      BY <1>1, <1>4, <1>5, <2>1, NewReopening
    <2>4. QED
      BY <1>2, <1>4, <1>7, <2>2, <2>3, TaskSetTyped DEF TaskAt
  <1>8. QED
    BY <1>6, <1>7

LEMMA FailTask ==
  ASSUME Types, NEW w \in Workers, TaskFails(w)
  PROVE  /\ task' \in [Workers -> Task] /\ \A v \in Workers : v # w => task'[v] = task[v]
         /\ task[w].at \in {"upsert", "reopen", "open"}
         /\ task'[w].at = IF w = Reader THEN "idle" ELSE "error"
  <1>1. task \in [Workers -> Task] /\ task[w] \in Task
    BY DEF Types
  <1>2. task[w].at \in {"upsert", "reopen", "open"}
    BY Zenon DEF TaskFails
  <1>3. CASE w = Reader
    <2>1. TaskSet(w, NoTask)
      BY <1>3, Zenon DEF TaskFails, TaskSet
    <2>2. QED
      BY <1>2, <1>3, <2>1, NoTaskTyped, TaskSetTyped
  <1>4. CASE w # Reader
    <2>1. task' = [task EXCEPT ![w].at = "error"]
      BY <1>4, Zenon DEF TaskFails
    <2>2. QED
      BY <1>2, <1>4, <2>1, AtSet
  <1>5. QED
    BY <1>3, <1>4

LEMMA SpendTyped ==
  ASSUME Types, Spend
  PROVE  budget' \in [runs : 0 .. MaxRuns, faults : 0 .. MaxFaults] /\ budget'.runs = budget.runs
  BY BusAssumption DEF Types, Spend

LEMMA TypesStep ==
  ASSUME BusInv, Types, InsightTypes, Step
  PROVE  Types'
  <1> DEFINE Budgets == [runs : 0 .. MaxRuns, faults : 0 .. MaxFaults]
  <1>0. /\ budget \in Budgets /\ open \subseteq Buses /\ runner \in [Jobs -> Runner]
        /\ data \in 0 .. MaxRuns /\ data + budget.runs = MaxRuns
        /\ metrics \in Versions /\ due \in Versions /\ behind \subseteq Days
        /\ task \in [Workers -> Task]
    BY DEF Types
  <1>a. ASSUME NEW j \in Jobs, NEW at \in {"new", "metrics", "calculate", "insights", "refresh", "done", "failed", "stopped"},
               Goto(j, at)
        PROVE  runner' \in [Jobs -> Runner]
    <2>1. [runner[j] EXCEPT !.at = at] \in Runner
      BY <1>0 DEF Runner
    <2>2. runner' = [runner EXCEPT ![j] = [runner[j] EXCEPT !.at = at]]
      BY <1>a DEF Goto
    <2>3. QED
      BY <2>1, <2>2, <1>0
  <1>b. ASSUME NEW j \in Jobs, Completed(j)
        PROVE  runner' \in [Jobs -> Runner] /\ due' \in Versions
    <2>1. runner' \in [Jobs -> Runner]
      BY <1>a, <1>b DEF Completed
    <2>2. \A d \in Days : due[d] \in 0 .. MaxRuns /\ runner[j].stored \in 0 .. MaxRuns
      BY <1>0 DEF Versions, Runner
    <2>3. \A d \in Days : Max({due[d], runner[j].stored}) \in 0 .. MaxRuns
      BY <2>2, MaxOfTwo
    <2>4. QED
      BY <2>1, <2>2, <2>3, <1>b DEF Completed, Versions
  <1>1. ASSUME NEW j \in Jobs, Persist(j)
        PROVE  Types'
    <2>1. /\ budget.runs > 0 /\ budget' = [budget EXCEPT !.runs = budget.runs - 1] /\ data' = data + 1
          /\ \E full \in BOOLEAN :
               runner' = [runner EXCEPT ![j] = [at |-> "metrics", full |-> full, stored |-> data']]
          /\ UNCHANGED <<open, metrics, due, behind, task>>
      BY <1>1 DEF Persist
    <2>2. budget' \in Budgets /\ budget'.runs = budget.runs - 1
      BY <2>1, <1>0, BusAssumption
    <2>3. data' \in 0 .. MaxRuns /\ data' + budget'.runs = MaxRuns
      BY <2>1, <2>2, <1>0, BusAssumption
    <2>4. runner' \in [Jobs -> Runner]
      BY <2>1, <2>3, <1>0 DEF Runner
    <2>5. QED
      BY <2>1, <2>2, <2>3, <2>4, <1>0 DEF Types
  <1>2. ASSUME NEW j \in Jobs, PublishMetrics(j)
        PROVE  Types'
    <2>1. /\ Goto(j, "insights") \/ Goto(j, "calculate")
          /\ Spend \/ UNCHANGED budget
          /\ UNCHANGED behind \/ behind' = behind \cup DaysOf(runner[j].full)
          /\ UNCHANGED <<open, data, metrics, due, task>>
      BY <1>2, Zenon DEF PublishMetrics, Unconsumed
    <2>2. runner' \in [Jobs -> Runner]
      BY <2>1, <1>a
    <2>3. budget' \in Budgets /\ budget'.runs = budget.runs
      BY <2>1, <1>0, SpendTyped
    <2>4. QED
      BY <2>1, <2>2, <2>3, <1>0, DaysOfDays DEF Types
  <1>3. ASSUME NEW j \in Jobs, PublishInsights(j)
        PROVE  Types'
    <2>1. /\ Completed(j) \/ ((Goto(j, "failed") \/ Goto(j, "refresh")) /\ UNCHANGED due)
          /\ Spend \/ UNCHANGED budget
          /\ UNCHANGED <<open, data, metrics, behind, task>>
      BY <1>3, Zenon DEF PublishInsights
    <2>2. runner' \in [Jobs -> Runner] /\ due' \in Versions
      BY <2>1, <1>0, <1>a, <1>b
    <2>3. budget' \in Budgets /\ budget'.runs = budget.runs
      BY <2>1, <1>0, SpendTyped
    <2>4. QED
      BY <2>1, <2>2, <2>3, <1>0 DEF Types
  <1>4. ASSUME NEW j \in Jobs, Returned(j)
        PROVE  Types'
    <2>1. /\ Completed(j) \/ ((Goto(j, "failed") \/ Goto(j, "insights")) /\ UNCHANGED due)
          /\ TaskSet(j, NoTask)
          /\ UNCHANGED <<budget, open, data, metrics, behind>>
      BY <1>4, Zenon DEF Returned, TaskSet
    <2>2. runner' \in [Jobs -> Runner] /\ due' \in Versions
      BY <2>1, <1>0, <1>a, <1>b
    <2>3. task' \in [Workers -> Task]
      BY <2>1, NoTaskTyped, TaskSetTyped DEF Workers
    <2>4. QED
      BY <2>1, <2>2, <2>3, <1>0 DEF Types
  <1>5. ASSUME NEW b \in Buses, Consumed(b)
        PROVE  Types'
    <2>1. /\ TaskSet(b, NoTask)
          /\ UNCHANGED behind \/ behind' = behind \cup DaysOf(Full(b))
          /\ UNCHANGED <<open, runner, data, metrics, due>>
      BY <1>5, Zenon DEF Consumed, TaskSet
    <2>2. UNCHANGED budget \/ Spend
      BY <1>5, Zenon DEF Consumed, Finish, Answer
    <2>3. task' \in [Workers -> Task]
      BY <2>1, NoTaskTyped, TaskSetTyped DEF Workers
    <2>4. budget' \in Budgets /\ budget'.runs = budget.runs
      BY <2>2, <1>0, SpendTyped
    <2>5. QED
      BY <2>1, <2>3, <2>4, <1>0, DaysOfDays DEF Types
  <1>6. ASSUME NEW b \in Buses, NEW i,
               \/ Consume(b)
               \/ DeadLetter(b) /\ UNCHANGED <<open, pipeVars, task>>
               \/ (Deliver(b, i) \/ AckExpires(b, i)) /\ UNCHANGED <<open, pipeVars, task>>
        PROVE  Types'
    <2>1. UNCHANGED budget \/ Spend
      BY <1>6, Zenon DEF Consume, Take, DeadLetter, Answer, Deliver, AckExpires
    <2>2. UNCHANGED <<open, runner, data, metrics, due, behind, task>>
      BY <1>6, Zenon DEF Consume, pipeVars
    <2>3. budget' \in Budgets /\ budget'.runs = budget.runs
      BY <2>1, <1>0, SpendTyped
    <2>4. QED
      BY <2>2, <2>3, <1>0 DEF Types
  <1>7. ASSUME NEW w \in Workers, TaskStep(w)
        PROVE  Types'
    <2>1. UNCHANGED <<open, runner, data, due>> /\ (UNCHANGED budget \/ Spend)
      BY <1>7, Zenon DEF TaskStep, BuildDailyMetrics, UpsertMetricsDaily, LoadInsights,
        ReopenInsight, KeepOpen, TaskFails, pipeVars
    <2>2. budget' \in Budgets /\ budget'.runs = budget.runs
      BY <2>1, <1>0, SpendTyped
    <2>3. metrics' \in Versions /\ behind' \subseteq Days
      <3>1. CASE UpsertMetricsDaily(w)
        <4> DEFINE ds == DaysOf(task[w].full)
        <4>1. /\ metrics' = [d \in Days |-> IF d \in ds THEN task[w].seen ELSE metrics[d]]
              /\ behind' = behind \cup ds \/ behind' = behind \ ds \/ behind' = behind
          BY <3>1, Zenon DEF UpsertMetricsDaily
        <4>2. task[w].seen \in 0 .. MaxRuns
          BY <1>0 DEF Task
        <4>3. QED
          BY <4>1, <4>2, <1>0, DaysOfDays DEF Versions
      <3>2. CASE ~UpsertMetricsDaily(w)
        <4>1. UNCHANGED <<metrics, behind>>
          BY <1>7, <3>2, Zenon DEF TaskStep, BuildDailyMetrics, LoadInsights,
            ReopenInsight, KeepOpen, TaskFails, pipeVars
        <4>2. QED
          BY <4>1, <1>0
      <3>3. QED
        BY <3>1, <3>2
    <2>4. task' \in [Workers -> Task]
      <3>1. CASE UpsertMetricsDaily(w) \/ KeepOpen(w)
        <4>1. \E at \in {"upsert", "ok", "error"} : task' = [task EXCEPT ![w].at = at]
          BY <3>1 DEF UpsertMetricsDaily, KeepOpen
        <4>2. QED
          BY <4>1, AtSet
      <3>2. CASE BuildDailyMetrics(w)
        BY <3>2, BuildTask
      <3>3. CASE LoadInsights(w)
        BY <3>3, LoadTask
      <3>4. CASE ReopenInsight(w)
        BY <3>4, ReopenTask
      <3>5. CASE TaskFails(w)
        BY <3>5, FailTask
      <3>6. QED
        BY <1>7, <3>1, <3>2, <3>3, <3>4, <3>5 DEF TaskStep
    <2>5. QED
      BY <2>1, <2>2, <2>3, <2>4, <1>0 DEF Types
  <1>8. ASSUME (\E status \in {"open", "reviewed", "dismissed"} : Decide(status)) \/ Detect
        PROVE  Types'
    <2>1. UNCHANGED <<budget, open, runner, data, metrics, due, behind, task>>
      BY <1>8, Zenon DEF Decide, Detect, pipeVars
    <2>2. QED
      BY <2>1, <1>0 DEF Types
  <1>9. CASE Restart
    <2>1. /\ UNCHANGED budget \/ Spend
          /\ runner' = [j \in Jobs |-> IF runner[j].at \in {"new", "done", "failed", "stopped"}
                                         THEN runner[j] ELSE [runner[j] EXCEPT !.at = "stopped"]]
          /\ task' = [w \in Workers |-> NoTask]
          /\ UNCHANGED <<open, data, metrics, due>>
      BY <1>9, Zenon DEF Restart, ConsumersStop
    <2>2. \E lost : behind' = behind \cup DaysLost(lost)
      BY <1>9, Zenon DEF Restart
    <2>3. behind' \subseteq Days
      BY <2>2, <1>0, DaysOfDays DEF DaysLost
    <2>4. \A j \in Jobs : [runner[j] EXCEPT !.at = "stopped"] \in Runner
      BY <1>0 DEF Runner
    <2>5. runner' \in [Jobs -> Runner]
      BY <2>1, <2>4, <1>0
    <2>6. budget' \in Budgets /\ budget'.runs = budget.runs
      BY <2>1, <1>0, SpendTyped
    <2>7. task' \in [Workers -> Task]
      BY <2>1, NoTaskTyped
    <2>8. QED
      BY <2>1, <2>3, <2>5, <2>6, <2>7, <1>0 DEF Types
  <1>10. ASSUME NEW b \in Buses, RunStep(b)
         PROVE  Types'
    <2>1. UNCHANGED <<open, runner, data, metrics, due, task>> /\ (UNCHANGED budget \/ Spend)
      BY <1>10, RunFrame
    <2>2. UNCHANGED behind \/ \E lost : behind' = behind \cup DaysLost(lost)
      BY <1>10, RunFrame DEF Stop
    <2>3. behind' \subseteq Days
      BY <2>2, <1>0, DaysOfDays DEF DaysLost
    <2>4. budget' \in Budgets /\ budget'.runs = budget.runs
      BY <2>1, <1>0, SpendTyped
    <2>5. QED
      BY <2>1, <2>3, <2>4, <1>0 DEF Types
  <1>11. QED
    BY <1>0, <1>1, <1>2, <1>3, <1>4, <1>5, <1>6, <1>7, <1>8, <1>9, <1>10
    DEF Step, ConsumerStep, ServerStep

\* What changes the row or the finding.
LEMMA InsightsFrame ==
  ASSUME Step
  PROVE  /\ UNCHANGED rules
         /\ \/ UNCHANGED insightVars
            \/ \E w \in Workers : ReopenInsight(w) \/ KeepOpen(w)
            \/ \E status \in {"open", "reviewed", "dismissed"} : Decide(status)
            \/ Detect
  <1>1. ASSUME NEW j \in Jobs, Persist(j) \/ PublishMetrics(j) \/ PublishInsights(j) \/ Returned(j)
        PROVE  UNCHANGED <<rules, insightVars>>
    BY <1>1, Zenon DEF Persist, PublishMetrics, PublishInsights, Returned
  <1>2. ASSUME NEW b, NEW i, RunStep(b) \/ ConsumerStep(b) \/ ServerStep(b, i)
        PROVE  UNCHANGED <<rules, insightVars>>
    BY <1>2, RunFrame, Zenon DEF ConsumerStep, ServerStep, Consume, Consumed
  <1>3. ASSUME NEW w \in Workers, BuildDailyMetrics(w) \/ UpsertMetricsDaily(w) \/ LoadInsights(w) \/ TaskFails(w)
        PROVE  UNCHANGED <<rules, insightVars>>
    BY <1>3, Zenon DEF BuildDailyMetrics, UpsertMetricsDaily, LoadInsights, TaskFails
  <1>4. ASSUME NEW w \in Workers, ReopenInsight(w) \/ KeepOpen(w)
        PROVE  UNCHANGED rules
    BY <1>4, Zenon DEF ReopenInsight, KeepOpen
  <1>5. ASSUME (\E status \in {"open", "reviewed", "dismissed"} : Decide(status)) \/ Detect
        PROVE  UNCHANGED rules
    BY <1>5, Zenon DEF Decide, Detect
  <1>6. CASE Restart
    BY <1>6, Zenon DEF Restart
  <1>7. QED
    BY <1>1, <1>2, <1>3, <1>4, <1>5, <1>6, Zenon DEF Step, TaskStep

\* What a decision leaves.
LEMMA DecideKeeps ==
  ASSUME InsightTypes, NEW status \in {"open", "reviewed", "dismissed"}, Decide(status)
  PROVE  /\ row' \in StatusRow /\ row'.status = status
         /\ row'.reviewed = IF status = "reviewed" THEN now ELSE 0
         /\ row'.dismissed = IF status = "dismissed" THEN now ELSE 0
         /\ row'.reopened = IF status = "open" THEN now ELSE 0
         /\ events > 0 /\ events' = events - 1
         /\ verdict' = IF status = "open" THEN [kind |-> "none", at |-> 0] ELSE [kind |-> status, at |-> now]
         /\ raced' = \E w \in Workers : task[w].at \in {"reopen", "open"}
         /\ UNCHANGED <<task, finding, now, severeAt>>
  <1>1. /\ UpsertStatus(status, IF status = "reviewed" THEN now ELSE 0,
                        IF status = "dismissed" THEN now ELSE 0, IF status = "open" THEN now ELSE 0)
        /\ events > 0 /\ events' = events - 1
        /\ verdict' = IF status = "open" THEN [kind |-> "none", at |-> 0] ELSE [kind |-> status, at |-> now]
        /\ raced' = \E w \in Workers : task[w].at \in {"reopen", "open"}
        /\ UNCHANGED <<task, finding, now, severeAt>>
    BY DEF Decide, Event
  <1>2. now \in Clock /\ 0 \in Clock
    BY ClockTyped DEF InsightTypes
  <1>3. QED
    BY <1>1, <1>2, RowTyped

\* What a change of the finding leaves.
LEMMA DetectKeeps ==
  ASSUME InsightTypes, Detect
  PROVE  /\ finding' \in Finding /\ finding'.at \in Nat /\ finding'.at <= now + 1
         /\ now' \in Nat /\ now' <= now + 1 /\ finding'.at <= now' /\ now' >= now
         /\ severeAt' \in Clock /\ severeAt' >= severeAt
         /\ finding'.severe => finding'.at <= severeAt'
         /\ events > 0 /\ events' = events - 1
         /\ UNCHANGED <<task, row, verdict, raced>>
  <1>1. PICK f \in [at : 0 .. now + 1, severe : BOOLEAN] :
          /\ finding' = f /\ now' = Max({now, f.at})
          /\ severeAt' = IF f.severe THEN Max({severeAt, f.at}) ELSE severeAt
    BY DEF Detect
  <1>2. /\ events > 0 /\ events' = events - 1 /\ UNCHANGED <<task, row, verdict, raced>>
    BY DEF Detect, Event
  <1>3. /\ now \in Nat /\ severeAt \in Nat /\ now + 1 <= MaxEvents + 1 /\ f.at \in Nat /\ f.at <= now + 1
        /\ events \in Nat
    BY <1>2, ClockTyped, PipelineAssumption DEF InsightTypes, ClockBounded
  <1>4. f \in Finding
    BY <1>3, PipelineAssumption DEF Finding, Clock
  <1>5. /\ Max({now, f.at}) \in {now, f.at} /\ Max({now, f.at}) >= now /\ Max({now, f.at}) >= f.at
        /\ Max({severeAt, f.at}) \in {severeAt, f.at}
        /\ Max({severeAt, f.at}) >= severeAt /\ Max({severeAt, f.at}) >= f.at
    BY <1>3, MaxOfTwo
  <1>6. /\ severeAt' \in {severeAt, f.at} /\ severeAt' >= severeAt /\ (f.severe => severeAt' >= f.at)
        /\ now' \in {now, f.at} /\ now' >= now /\ now' >= f.at
    BY <1>1, <1>3, <1>5
  <1>7. severeAt' \in Clock
    BY <1>3, <1>4, <1>6 DEF Finding, InsightTypes
  <1>8. QED
    BY <1>1, <1>2, <1>3, <1>4, <1>6, <1>7

LEMMA KeepOpenRow ==
  ASSUME Types, InsightTypes, NEW w \in Workers, KeepOpen(w)
  PROVE  row' \in StatusRow /\ row'.status = "open" /\ task[w].at = "open"
         /\ task' = [task EXCEPT ![w].at = "ok"]
         /\ UNCHANGED <<finding, now, verdict, severeAt, events, raced>>
  <1>1. task[w].row \in StatusRow
    BY DEF Types, Task
  <1>2. task[w].row.reviewed \in Clock /\ task[w].row.reopened \in Clock
    BY <1>1 DEF StatusRow
  <1>3. UpsertStatus("open", task[w].row.reviewed, 0, task[w].row.reopened)
    BY Zenon DEF KeepOpen
  <1>4. row' \in StatusRow /\ row'.status = "open"
    BY <1>2, <1>3, RowTyped, ClockTyped
  <1>5. QED
    BY <1>4, Zenon DEF KeepOpen, TaskAt

LEMMA InsightTypesStep ==
  ASSUME Types, InsightTypes, Step
  PROVE  InsightTypes'
  <1>0. UNCHANGED rules
    BY InsightsFrame
  <1>1. CASE UNCHANGED insightVars
    BY <1>0, <1>1 DEF InsightTypes, insightVars, ClockBounded
  <1>2. ASSUME NEW w \in Workers, ReopenInsight(w)
        PROVE  InsightTypes'
    <2>1. row' \in StatusRow
      BY <1>2, ReopenTask
    <2>2. UNCHANGED <<finding, now, verdict, severeAt, events, raced>>
      BY <1>2, Zenon DEF ReopenInsight
    <2>3. QED
      BY <2>1, <2>2, <1>0 DEF InsightTypes, ClockBounded
  <1>3. ASSUME NEW w \in Workers, KeepOpen(w)
        PROVE  InsightTypes'
    BY <1>0, <1>3, KeepOpenRow DEF InsightTypes, ClockBounded
  <1>4. ASSUME NEW status \in {"open", "reviewed", "dismissed"}, Decide(status)
        PROVE  InsightTypes'
    <2>1. /\ row' \in StatusRow /\ events > 0 /\ events' = events - 1
          /\ UNCHANGED <<finding, now, severeAt>> /\ raced' \in BOOLEAN
      BY <1>4, DecideKeeps
    <2>2. verdict' = IF status = "open" THEN [kind |-> "none", at |-> 0] ELSE [kind |-> status, at |-> now]
      BY <1>4, DecideKeeps
    <2>3. now \in Clock /\ 0 \in Clock
      BY ClockTyped DEF InsightTypes
    <2>4. verdict' \in [kind : {"none", "reviewed", "dismissed"}, at : Clock]
      BY <2>2, <2>3
    <2>5. events' \in 0 .. MaxEvents /\ now + events' <= MaxEvents + 1
      BY <2>1, <2>3, ClockTyped, PipelineAssumption DEF InsightTypes, ClockBounded
    <2>6. QED
      BY <2>1, <2>4, <2>5, <1>0 DEF InsightTypes, ClockBounded
  <1>5. CASE Detect
    <2>1. /\ finding' \in Finding /\ severeAt' \in Clock /\ now' \in Nat
          /\ now' <= now + 1 /\ finding'.at <= now'
          /\ events > 0 /\ events' = events - 1 /\ UNCHANGED <<row, verdict, raced>>
      BY <1>5, DetectKeeps
    <2>2. now \in Nat /\ events \in Nat /\ events <= MaxEvents /\ now + events <= MaxEvents + 1
      BY ClockTyped, PipelineAssumption DEF InsightTypes, ClockBounded
    <2>3. now' \in Clock /\ events' \in 0 .. MaxEvents /\ now' + events' <= MaxEvents + 1
      <3>1. MaxEvents \in Nat /\ events \in Nat /\ now \in Nat
        BY <2>2, PipelineAssumption
      <3>2. PICK n \in Nat, e \in Nat : n = now' /\ e = events'
        BY <2>1, <3>1
      <3>3. n <= now + 1 /\ e = events - 1 /\ events > 0
        BY <2>1, <3>2
      <3>4. n \in 0 .. MaxEvents + 1 /\ e \in 0 .. MaxEvents /\ n + e <= MaxEvents + 1
        BY <2>2, <3>1, <3>3
      <3>5. QED
        BY <3>2, <3>4 DEF Clock
    <2>4. QED
      BY <2>1, <2>3, <1>0 DEF InsightTypes, ClockBounded
  <1>6. QED
    BY <1>1, <1>2, <1>3, <1>4, <1>5, InsightsFrame

LEMMA TypeInvInit == Init => TypeInv
  <1> SUFFICES ASSUME Init PROVE TypeInv
    OBVIOUS
  <1>1. BusInv
    <2>1. \A b \in Buses : stream[b] = <<>> /\ queue[b] = <<>> /\ handler[b] = Idle /\ Idle.at = "idle"
      BY DEF Init, BusInit, Idle
    <2>2. BusShape
      BY DEF Init, BusInit, BusShape, Idle, Handler
    <2>3. QED
      BY <2>1, <2>2 DEF BusInv, HandsMade, HandsOnce, FailedWasLast, AckedWasHandled
  <1>2. Types
    BY NoTaskTyped, BusAssumption DEF Types, Init, BusInit, Runner, Versions
  <1>3. InsightTypes
    <2>1. 0 \in Clock /\ 1 \in Clock /\ MaxEvents \in 0 .. MaxEvents
      BY PipelineAssumption DEF Clock
    <2>2. /\ finding \in Finding /\ rules \in Rules /\ row \in StatusRow
          /\ now \in Clock /\ severeAt \in Clock /\ raced \in BOOLEAN /\ events \in 0 .. MaxEvents
          /\ verdict \in [kind : {"none", "reviewed", "dismissed"}, at : Clock]
      BY <2>1 DEF Init, Finding, StatusRow, NoRow
    <2>3. ClockBounded
      BY PipelineAssumption DEF Init, ClockBounded
    <2>4. QED
      BY <2>2, <2>3 DEF InsightTypes
  <1>4. QED
    BY <1>1, <1>2, <1>3 DEF TypeInv

LEMMA TypeInvSame == TypeInv /\ UNCHANGED vars => TypeInv'
  <1> SUFFICES ASSUME TypeInv, UNCHANGED vars PROVE TypeInv'
    OBVIOUS
  <1>1. BusInv'
    BY SameBus DEF TypeInv, vars
  <1>2. Types' /\ InsightTypes'
    BY DEF TypeInv, Types, InsightTypes, ClockBounded, vars
  <1>3. QED
    BY <1>1, <1>2 DEF TypeInv

LEMMA TypeInvAlways == Spec => []TypeInv
  <1>1. TypeInv /\ [Next]_vars => TypeInv'
    BY BusStep, TypesStep, InsightTypesStep, TypeInvSame DEF TypeInv, Next
  <1>2. QED
    BY <1>1, TypeInvInit, PTL DEF Spec

\* EventBus: whatever JetStream may forget was handled, or has its dead letter.
THEOREM AcknowledgedHandled == Spec => []AckedWasHandled
  <1>1. TypeInv => AckedWasHandled
    BY DEF TypeInv, BusInv
  <1>2. QED
    BY <1>1, TypeInvAlways, PTL

-----------------------------------------------------------------------------
(* Insights.                                                                   *)

LEMMA MaxOfThree ==
  ASSUME NEW a \in Nat, NEW b \in Nat, NEW c \in Nat
  PROVE  /\ Max({a, b, c}) \in {a, b, c}
         /\ Max({a, b, c}) >= a /\ Max({a, b, c}) >= b /\ Max({a, b, c}) >= c
  <1>1. \E x \in {a, b, c} : \A y \in {a, b, c} : x >= y
    <2>1. CASE a >= b /\ a >= c
      BY <2>1
    <2>2. CASE b >= a /\ b >= c
      BY <2>2
    <2>3. CASE c >= a /\ c >= b
      BY <2>3
    <2>4. QED
      BY <2>1, <2>2, <2>3
  <1>2. QED
    BY <1>1 DEF Max

LEMMA LatestTimeIsLatest ==
  ASSUME NEW r \in StatusRow
  PROVE  /\ LatestTime(r) \in Nat /\ r.reviewed \in Nat /\ r.dismissed \in Nat /\ r.reopened \in Nat
         /\ LatestTime(r) >= r.reviewed /\ LatestTime(r) >= r.dismissed /\ LatestTime(r) >= r.reopened
  <1>1. r.reviewed \in Nat /\ r.dismissed \in Nat /\ r.reopened \in Nat
    BY ClockTyped DEF StatusRow
  <1>2. QED
    BY <1>1, MaxOfThree DEF LatestTime

AboutToOpen(w) == task[w].at \in {"reopen", "open"}

\* Only what has just read the row becomes about to open it.
LEMMA AboutToOpenFrame ==
  ASSUME BusInv, Types, InsightTypes, Step
  PROVE  \A v \in Workers : task'[v].at \in {"reopen", "open"} => AboutToOpen(v) \/ LoadInsights(v)
  <1> USE DEF AboutToOpen
  <1> DEFINE P == \A v \in Workers : task'[v].at \in {"reopen", "open"} => AboutToOpen(v) \/ LoadInsights(v)
  <1>1. ASSUME NEW v \in Workers, TaskSet(v, NoTask)
        PROVE  P
    BY <1>1, NoTaskTyped, TaskSetTyped
  <1>2. ASSUME NEW j \in Jobs, Persist(j) \/ PublishMetrics(j) \/ PublishInsights(j) \/ Returned(j)
        PROVE  P
    <2>1. UNCHANGED task \/ TaskSet(j, NoTask)
      BY <1>2, Zenon DEF Persist, PublishMetrics, PublishInsights, Returned, TaskSet
    <2>2. QED
      BY <2>1, <1>1 DEF Workers
  <1>3. ASSUME NEW b \in Buses, NEW i, RunStep(b) \/ ConsumerStep(b) \/ ServerStep(b, i)
        PROVE  P
    <2>1. UNCHANGED task \/ TaskSet(b, NoTask)
      BY <1>3, RunFrame, Zenon DEF ConsumerStep, ServerStep, Consume, Consumed, TaskSet
    <2>2. QED
      BY <2>1, <1>1 DEF Workers
  <1>4. ASSUME NEW w \in Workers, BuildDailyMetrics(w)
        PROVE  P
    <2>1. task'[w].at = "upsert" /\ \A v \in Workers : v # w => task'[v].at = task[v].at
      BY <1>4, BuildTask
    <2>2. QED
      BY <2>1
  <1>5. ASSUME NEW w \in Workers, UpsertMetricsDaily(w) \/ KeepOpen(w)
        PROVE  P
    <2>1. \E at \in {"ok", "error"} : task' = [task EXCEPT ![w].at = at]
      BY <1>5 DEF UpsertMetricsDaily, KeepOpen
    <2>2. task'[w].at \in {"ok", "error"} /\ \A v \in Workers : v # w => task'[v] = task[v]
      BY <2>1, AtSet
    <2>3. QED
      BY <2>2
  <1>6. ASSUME NEW w \in Workers, LoadInsights(w)
        PROVE  P
    BY <1>6, LoadTask
  <1>7. ASSUME NEW w \in Workers, ReopenInsight(w)
        PROVE  P
    BY <1>7, ReopenTask
  <1>8. ASSUME NEW w \in Workers, TaskFails(w)
        PROVE  P
    BY <1>8, FailTask
  <1>9. ASSUME (\E status \in {"open", "reviewed", "dismissed"} : Decide(status)) \/ Detect
        PROVE  P
    <2>1. UNCHANGED task
      BY <1>9, Zenon DEF Decide, Detect
    <2>2. QED
      BY <2>1
  <1>10. CASE Restart
    <2>1. task' = [w \in Workers |-> NoTask]
      BY <1>10, Zenon DEF Restart
    <2>2. QED
      BY <2>1, NoTaskTyped
  <1>11. open \subseteq Buses
    BY DEF Types
  <1>12. ASSUME NEW b \in open, NEW i, RunStep(b) \/ ConsumerStep(b) \/ ServerStep(b, i)
         PROVE  P
    BY <1>3, <1>11, <1>12
  <1>13. ASSUME NEW w \in Workers, TaskStep(w)
         PROVE  P
    BY <1>4, <1>5, <1>6, <1>7, <1>8, <1>13 DEF TaskStep
  <1> HIDE DEF AboutToOpen
  <1>14. QED
    BY <1>2, <1>9, <1>10, <1>12, <1>13, Zenon DEF Step

LEMMA DecisionInit == Init => DecisionInv
  BY DEF Init, DecisionInv

LEMMA DecisionStep ==
  ASSUME TypeInv, DecisionInv, Step
  PROVE  DecisionInv'
  <1>0. BusInv /\ Types /\ InsightTypes /\ UNCHANGED rules
    BY InsightsFrame DEF TypeInv
  <1>a. /\ finding.at \in Nat /\ finding.severe \in BOOLEAN /\ severeAt \in Nat /\ verdict.at \in Nat
        /\ verdict.kind \in {"none", "reviewed", "dismissed"} /\ row \in StatusRow /\ now \in Nat
    BY <1>0, ClockTyped DEF InsightTypes, Finding
  <1> DEFINE Held == verdict.kind # "none" /\ ~raced
             Some == \E w \in Workers : AboutToOpen(w)
  <1>b. Held => /\ row.status \in {verdict.kind, "open"}
                /\ row.status = verdict.kind => LatestTime(row) >= verdict.at
                /\ row.status = "open" \/ Some => ReopenedByRule
    BY DEF DecisionInv, AboutToOpen
  <1>c. finding.severe => finding.at <= severeAt
    BY DEF DecisionInv
  \* A refresh that has read the row reopens it by the rules, or finds it open.
  <1>d. ASSUME Held, NEW w \in Workers, LoadInsights(w), task'[w].at \in {"reopen", "open"}
        PROVE  ReopenedByRule
    <2>1. CASE task'[w].at = "reopen"
      <3>1. ShouldReopen(row, finding)
        BY <1>0, <1>d, <2>1, LoadTask
      <3>2. row.status = verdict.kind /\ rules[row.status] /\ finding.severe /\ finding.at > LatestTime(row)
        BY <3>1, <1>b, <1>d DEF ShouldReopen
      <3>3. LatestTime(row) \in Nat
        BY <1>a, LatestTimeIsLatest
      <3>4. severeAt > verdict.at
        BY <3>2, <3>3, <1>a, <1>b, <1>c, <1>d
      <3>5. QED
        BY <3>2, <3>4 DEF ReopenedByRule
    <2>2. CASE task'[w].at = "open"
      <3>1. row.status \in {"none", "open"}
        BY <1>0, <1>d, <2>2, LoadTask
      <3>2. row.status = "open"
        BY <3>1, <1>a, <1>b, <1>d
      <3>3. QED
        BY <3>2, <1>b, <1>d
    <2>3. QED
      BY <1>d, <2>1, <2>2
  <1>1. CASE UNCHANGED insightVars
    <2>1. UNCHANGED <<finding, row, verdict, severeAt, raced>>
      BY <1>1 DEF insightVars
    <2>2. Held /\ (\E w \in Workers : task'[w].at \in {"reopen", "open"}) => ReopenedByRule
      BY <1>0, <1>b, <1>d, AboutToOpenFrame
    <2>3. QED
      BY <2>1, <2>2, <1>0, <1>b, <1>c DEF DecisionInv, ReopenedByRule
  <1>2. ASSUME NEW w \in Workers, ReopenInsight(w) \/ KeepOpen(w)
        PROVE  DecisionInv'
    <2>1. /\ row'.status = "open" /\ AboutToOpen(w)
          /\ UNCHANGED <<finding, verdict, severeAt, raced>>
      <3>1. CASE ReopenInsight(w)
        <4>1. UNCHANGED <<finding, verdict, severeAt, raced>>
          BY <3>1, Zenon DEF ReopenInsight
        <4>2. QED
          BY <3>1, <4>1, <1>0, ReopenTask DEF AboutToOpen
      <3>2. CASE KeepOpen(w)
        BY <3>2, <1>0, KeepOpenRow DEF AboutToOpen
      <3>3. QED
        BY <1>2, <3>1, <3>2
    <2>2. Held => ReopenedByRule
      BY <2>1, <1>b
    <2>3. QED
      BY <2>1, <2>2, <1>0, <1>a, <1>c DEF DecisionInv, ReopenedByRule
  <1>3. ASSUME NEW status \in {"open", "reviewed", "dismissed"}, Decide(status)
        PROVE  DecisionInv'
    <2>1. /\ row' \in StatusRow /\ row'.status = status
          /\ row'.reviewed = IF status = "reviewed" THEN now ELSE 0
          /\ row'.dismissed = IF status = "dismissed" THEN now ELSE 0
          /\ verdict' = IF status = "open" THEN [kind |-> "none", at |-> 0] ELSE [kind |-> status, at |-> now]
          /\ raced' = Some
          /\ UNCHANGED <<task, finding, severeAt>>
      BY <1>0, <1>3, DecideKeeps DEF AboutToOpen
    <2>2. CASE status = "open"
      BY <2>1, <2>2, <1>c DEF DecisionInv
    <2>3. CASE status # "open"
      <3>1. verdict'.kind = status /\ verdict'.at = now
        BY <2>1, <2>3
      <3>2. LatestTime(row') >= now
        <4>1. LatestTime(row') \in Nat /\ LatestTime(row') >= row'.reviewed /\ LatestTime(row') >= row'.dismissed
          BY <2>1, LatestTimeIsLatest
        <4>2. row'.reviewed = now \/ row'.dismissed = now
          BY <2>1, <2>3
        <4>3. QED
          BY <4>1, <4>2
      <3>3. ~raced' => ~(\E w \in Workers : task'[w].at \in {"reopen", "open"})
        BY <2>1 DEF AboutToOpen
      <3>4. QED
        BY <2>1, <2>3, <3>1, <3>2, <3>3, <1>c DEF DecisionInv
    <2>4. QED
      BY <2>2, <2>3
  <1>4. CASE Detect
    <2>1. /\ severeAt' >= severeAt /\ severeAt' \in Nat /\ (finding'.severe => finding'.at <= severeAt')
          /\ UNCHANGED <<task, row, verdict, raced>>
      BY <1>0, <1>4, DetectKeeps, ClockTyped
    <2>2. Held /\ (row.status = "open" \/ Some) => rules'[verdict.kind] /\ severeAt' > verdict.at
      BY <2>1, <1>0, <1>a, <1>b DEF ReopenedByRule
    <2>3. QED
      BY <2>1, <2>2, <1>b DEF DecisionInv, ReopenedByRule, AboutToOpen
  <1>5. QED
    BY <1>1, <1>2, <1>3, <1>4, InsightsFrame

LEMMA DecisionAlways == Spec => []DecisionInv
  <1>1. TypeInv /\ DecisionInv /\ [Next]_vars => DecisionInv'
    <2>1. CASE UNCHANGED vars
      BY <2>1 DEF DecisionInv, ReopenedByRule, LatestTime, vars
    <2>2. QED
      BY <2>1, DecisionStep DEF Next
  <1>2. QED
    BY <1>1, DecisionInit, TypeInvAlways, PTL DEF Spec

\* insights: what a user has reviewed or dismissed is open again only by the rules.
THEOREM VerdictsHold == Spec => []VerdictHolds
  <1>1. DecisionInv => VerdictHolds
    BY DEF DecisionInv, VerdictHolds, ReopenedByRule
  <1>2. QED
    BY <1>1, DecisionAlways, PTL

-----------------------------------------------------------------------------
(* Whose task is whose.                                                       *)

FullKept == \A b \in Buses : \A k \in DOMAIN stream[b] : stream'[b][k].full = stream[b][k].full

LEMMA MetricsIsBus == METRICS \in Buses /\ METRICS \in Workers /\ METRICS \notin Jobs /\ METRICS # Reader
  BY PipelineAssumption DEF Buses, Workers

\* Steps of the buses between the work on two messages.
LEMMA TasksKept ==
  ASSUME BusInv, TasksBelong, UNCHANGED <<task, runner>>, FullKept,
         \A b \in Buses : handler[b].at = "work" => handler'[b] = handler[b]
  PROVE  TasksBelong'
  <1>1. task[METRICS].at = "upsert" => handler[METRICS].at = "work" /\ handler[METRICS].msg \in DOMAIN stream[METRICS]
    BY MetricsIsBus DEF TasksBelong, BusInv, HandsMade, Made
  <1>2. QED
    BY <1>1, MetricsIsBus DEF TasksBelong, FullKept

\* The run of a job publishes.
LEMMA PublishKeepsFull ==
  ASSUME BusInv, Types, NEW j \in Jobs, PublishMetrics(j) \/ PublishInsights(j)
  PROVE  FullKept /\ UNCHANGED <<handler, task>>
  <1>1. PICK f \in BOOLEAN : f = runner[j].full
    BY DEF Types, Runner
  <1>2. /\ UNCHANGED <<queue, handler, task>>
        /\ UNCHANGED stream \/ Stored(METRICS, j, runner[j].full) \/ Stored(INSIGHTS, j, runner[j].full)
    BY Zenon DEF PublishMetrics, PublishInsights, Dropped
  <1>3. UNCHANGED stream \/ \E b \in Buses : Stored(b, j, f)
    BY <1>1, <1>2 DEF Stored, Buses
  <1>4. ASSUME NEW b \in Buses, Stored(b, j, f)
        PROVE  FullKept
    <2>1. \A c \in Buses : \A k \in DOMAIN stream[c] : stream'[c][k] = stream[c][k]
      BY <1>2, <1>4, StoredKeeps
    <2>2. QED
      BY <2>1 DEF FullKept
  <1>5. QED
    BY <1>2, <1>3, <1>4 DEF FullKept

LEMMA GotoKeeps ==
  ASSUME Types, NEW j \in Jobs, NEW at, Goto(j, at)
  PROVE  /\ runner'[j].at = at /\ runner'[j].full = runner[j].full /\ runner'[j].stored = runner[j].stored
         /\ \A i \in Jobs : i # j => runner'[i] = runner[i]
  BY DEF Types, Runner, Goto

\* A job goes on: its task is idle, or has returned.
LEMMA JobGoesOn ==
  ASSUME BusInv, TasksBelong, FullKept, UNCHANGED handler, NEW j \in Jobs,
         \A i \in Jobs : i # j => runner'[i] = runner[i],
         task'[j].at = "idle", \A w \in Workers : w # j => task'[w] = task[w]
  PROVE  TasksBelong'
  <1>1. task[METRICS].at = "upsert" => handler[METRICS].at = "work" /\ handler[METRICS].msg \in DOMAIN stream[METRICS]
    BY MetricsIsBus DEF TasksBelong, BusInv, HandsMade, Made
  <1>2. \A b \in Buses : b # j /\ b \in Workers
    BY PipelineAssumption DEF Workers
  <1>3. \A i \in Jobs : i \in Workers
    BY DEF Workers
  <1>4. \A b \in Buses : task'[b] = task[b]
    BY <1>2
  <1>5. (\A b \in Buses : task[b].at # "idle" => handler[b].at = "work")'
    BY <1>4 DEF TasksBelong
  <1>6. ASSUME NEW i \in Jobs
        PROVE  (/\ runner[i].at \notin {"calculate", "refresh"} => task[i].at = "idle"
                /\ runner[i].at = "calculate" => task[i].at \in OfMetrics
                /\ runner[i].at = "calculate" /\ task[i].at = "upsert" =>
                     task[i].full = runner[i].full /\ task[i].seen >= runner[i].stored)'
    <2>1. CASE i = j
      BY <2>1 DEF OfMetrics
    <2>2. CASE i # j
      BY <2>2, <1>3 DEF TasksBelong
    <2>3. QED
      BY <2>1, <2>2
  <1>7. QED
    BY <1>1, <1>4, <1>5, <1>6, MetricsIsBus DEF TasksBelong, FullKept

\* A worker goes on with its own task.
LEMMA WorkerGoesOn ==
  ASSUME TasksBelong, UNCHANGED <<busVars, runner>>, NEW w \in Workers, w # METRICS,
         \A v \in Workers : v # w =>
           task'[v].at = task[v].at /\ task'[v].full = task[v].full /\ task'[v].seen = task[v].seen,
         w \in Buses /\ task'[w].at # "idle" => handler[w].at = "work",
         w \in Jobs /\ task'[w].at # "idle" => runner[w].at \in {"calculate", "refresh"},
         w \in Jobs /\ runner[w].at = "calculate" =>
           /\ task'[w].at \in OfMetrics
           /\ task'[w].at = "upsert" => task'[w].full = runner[w].full /\ task'[w].seen >= runner[w].stored
  PROVE  TasksBelong'
  <1>1. \A b \in Buses : b \in Workers
    BY DEF Workers
  <1>2. \A i \in Jobs : i \in Workers
    BY DEF Workers
  <1>3. (\A b \in Buses : task[b].at # "idle" => handler[b].at = "work")'
    <2>1. ASSUME NEW b \in Buses, task'[b].at # "idle"
          PROVE  handler'[b].at = "work"
      BY <1>1, <2>1 DEF TasksBelong, busVars
    <2>2. QED
      BY <2>1
  <1>4. (/\ task[METRICS].at \in OfMetrics
         /\ task[METRICS].at = "upsert" => task[METRICS].full = stream[METRICS][handler[METRICS].msg].full)'
    BY MetricsIsBus DEF TasksBelong, busVars
  <1>5. ASSUME NEW i \in Jobs
        PROVE  (/\ runner[i].at \notin {"calculate", "refresh"} => task[i].at = "idle"
                /\ runner[i].at = "calculate" => task[i].at \in OfMetrics
                /\ runner[i].at = "calculate" /\ task[i].at = "upsert" =>
                     task[i].full = runner[i].full /\ task[i].seen >= runner[i].stored)'
    <2>1. CASE i = w
      BY <2>1
    <2>2. CASE i # w
      BY <2>2, <1>2 DEF TasksBelong
    <2>3. QED
      BY <2>1, <2>2
  <1>6. QED
    BY <1>3, <1>4, <1>5 DEF TasksBelong

\* Insights are not the work of the metrics bus, nor of a job that calculates.
LEMMA InsightWorker ==
  ASSUME TasksBelong, NEW w \in Workers,
         task[w].at \in {"reopen", "open"} \/ LoadInsights(w)
  PROVE  /\ w # METRICS
         /\ w \in Buses => handler[w].at = "work"
         /\ w \in Jobs => runner[w].at = "refresh"
  <1>1. CASE task[w].at \in {"reopen", "open"}
    BY <1>1 DEF TasksBelong, OfMetrics
  <1>2. CASE LoadInsights(w)
    <2>1. \/ w = INSIGHTS /\ handler[w].at = "work"
          \/ w \in Jobs /\ runner[w].at = "refresh"
          \/ w = Reader
      BY <1>2, Zenon DEF LoadInsights
    <2>2. QED
      BY <2>1, PipelineAssumption DEF Buses
  <1>3. QED
    BY <1>1, <1>2

LEMMA TasksInit == Init => TasksBelong
  BY NoTaskTyped DEF Init, TasksBelong, OfMetrics, Workers, Buses

LEMMA TasksStep ==
  ASSUME TypeInv, TasksBelong, VersionsBehind, Step
  PROVE  TasksBelong'
  <1>0. BusInv /\ Types /\ InsightTypes /\ open \subseteq Buses
    BY DEF TypeInv, Types
  <1>a. \A j \in Jobs : j \in Workers /\ j # METRICS
    BY MetricsIsBus DEF Workers
  <1>b. \A b \in Buses : b \in Workers /\ b \notin Jobs
    BY PipelineAssumption DEF Workers
  <1>1. ASSUME NEW j \in Jobs, Persist(j)
        PROVE  TasksBelong'
    <2>1. /\ UNCHANGED busVars /\ UNCHANGED task /\ runner[j].at \in {"new", "failed"}
          /\ \E full : runner' = [runner EXCEPT ![j] = [at |-> "metrics", full |-> full, stored |-> data']]
      BY <1>1, Zenon DEF Persist
    <2>2. \A i \in Jobs : i # j => runner'[i] = runner[i]
      BY <2>1, <1>0 DEF Types
    <2>3. task'[j].at = "idle" /\ FullKept /\ UNCHANGED handler
      BY <2>1, <1>a DEF TasksBelong, FullKept, busVars
    <2>4. QED
      BY <2>1, <2>2, <2>3, <1>0, JobGoesOn
  <1>2. ASSUME NEW j \in Jobs, PublishMetrics(j) \/ PublishInsights(j)
        PROVE  TasksBelong'
    <2>1. FullKept /\ UNCHANGED <<handler, task>>
      BY <1>0, <1>2, PublishKeepsFull
    <2>2. runner[j].at \in {"metrics", "insights"} /\ \E at : Goto(j, at)
      BY <1>2, Zenon DEF PublishMetrics, PublishInsights, Completed
    <2>3. \A i \in Jobs : i # j => runner'[i] = runner[i]
      BY <2>2, <1>0, GotoKeeps
    <2>4. task'[j].at = "idle"
      BY <2>1, <2>2 DEF TasksBelong
    <2>5. QED
      BY <2>1, <2>3, <2>4, <1>0, JobGoesOn
  <1>3. ASSUME NEW j \in Jobs, Returned(j)
        PROVE  TasksBelong'
    <2>1. UNCHANGED busVars /\ TaskSet(j, NoTask) /\ \E at : Goto(j, at)
      BY <1>3, Zenon DEF Returned, Completed, TaskSet
    <2>2. \A i \in Jobs : i # j => runner'[i] = runner[i]
      BY <2>1, <1>0, GotoKeeps
    <2>3. task'[j].at = "idle" /\ \A w \in Workers : w # j => task'[w] = task[w]
      BY <2>1, <1>0, <1>a, NoTaskTyped, TaskSetTyped
    <2>4. FullKept /\ UNCHANGED handler
      BY <2>1 DEF FullKept, busVars
    <2>5. QED
      BY <2>2, <2>3, <2>4, <1>0, JobGoesOn
  <1>4. ASSUME NEW b \in Buses, Consume(b)
        PROVE  TasksBelong'
    <2>1. Take(b) /\ UNCHANGED <<task, runner>>
      BY <1>4, Zenon DEF Consume, pipeVars
    <2>2. /\ UNCHANGED stream /\ handler[b].at = "idle"
          /\ \A c \in Buses : c # b => handler'[c] = handler[c]
      BY <2>1, <1>0, TakeKeeps
    <2>3. FullKept /\ \A c \in Buses : handler[c].at = "work" => handler'[c] = handler[c]
      BY <2>2 DEF FullKept
    <2>4. QED
      BY <2>1, <2>3, <1>0, TasksKept
  <1>5. ASSUME NEW b \in Buses, Consumed(b)
        PROVE  TasksBelong'
    <2>1. TaskSet(b, NoTask) /\ UNCHANGED runner /\ \E ok \in BOOLEAN : Finish(b, ok)
      BY <1>5 DEF Consumed, TaskSet, TaskAt
    <2>2. task'[b].at = "idle" /\ \A w \in Workers : w # b => task'[w] = task[w]
      BY <2>1, <1>0, <1>b, NoTaskTyped, TaskSetTyped
    <2>3. \A c \in Buses : c # b => handler'[c] = handler[c]
      BY <2>1, <1>0, FinishKeeps
    <2>4. FullKept
      BY <2>1, <1>0, FinishKeeps DEF OnlyMessage, FullKept
    <2>5. (\A c \in Buses : task[c].at # "idle" => handler[c].at = "work")'
      BY <2>2, <2>3, <1>b DEF TasksBelong
    <2>6. (/\ task[METRICS].at \in OfMetrics
           /\ task[METRICS].at = "upsert" => task[METRICS].full = stream[METRICS][handler[METRICS].msg].full)'
      <3>1. CASE b = METRICS
        BY <3>1, <2>2 DEF OfMetrics
      <3>2. CASE b # METRICS
        <4>1. task[METRICS].at = "upsert" => handler[METRICS].at = "work" /\ handler[METRICS].msg \in DOMAIN stream[METRICS]
          BY <1>0, MetricsIsBus DEF TasksBelong, BusInv, HandsMade, Made
        <4>2. QED
          BY <3>2, <4>1, <2>2, <2>3, <2>4, MetricsIsBus DEF TasksBelong, FullKept
      <3>3. QED
        BY <3>1, <3>2
    <2>7. \A i \in Jobs : task'[i] = task[i]
      BY <2>2, <1>a, <1>b
    <2>8. QED
      BY <2>1, <2>5, <2>6, <2>7 DEF TasksBelong
  <1>6. ASSUME NEW b \in Buses, DeadLetter(b) /\ UNCHANGED <<open, pipeVars, task, rules, insightVars>>
        PROVE  TasksBelong'
    <2>1. /\ OnlyMessage(b, handler[b].msg) /\ handler[b].at = "failed"
          /\ \A c \in Buses : c # b => handler'[c] = handler[c]
      BY <1>0, <1>6, DeadLetterKeeps
    <2>2. FullKept /\ UNCHANGED <<task, runner>>
      BY <2>1, <1>6 DEF FullKept, OnlyMessage, pipeVars
    <2>3. \A c \in Buses : handler[c].at = "work" => handler'[c] = handler[c]
      BY <2>1
    <2>4. QED
      BY <2>2, <2>3, <1>0, TasksKept
  <1>7. ASSUME NEW b \in Buses, NEW i \in 1 .. MaxMessages, ServerStep(b, i)
        PROVE  TasksBelong'
    <2>1. Deliver(b, i) \/ AckExpires(b, i)
      BY <1>7 DEF ServerStep
    <2>2. UNCHANGED <<task, runner, handler>>
      BY <1>7, <2>1, Zenon DEF ServerStep, pipeVars, Deliver, AckExpires
    <2>3. OnlyMessage(b, i)
      BY <2>1, <1>0, DeliverKeeps, AckExpiresKeeps
    <2>4. FullKept
      BY <2>3 DEF FullKept, OnlyMessage
    <2>5. QED
      BY <2>2, <2>4, <1>0, TasksKept
  <1>8. ASSUME NEW w \in Workers, BuildDailyMetrics(w)
        PROVE  TasksBelong'
    <2>1. /\ task'[w].at = "upsert" /\ task'[w].seen = data /\ task'[w].full = Full(w)
          /\ \A v \in Workers : v # w =>
               task'[v].at = task[v].at /\ task'[v].full = task[v].full /\ task'[v].seen = task[v].seen
      BY <1>0, <1>8, BuildTask
    <2>2. /\ UNCHANGED <<busVars, runner>>
          /\ \/ w = METRICS /\ handler[w].at = "work"
             \/ w \in Jobs /\ runner[w].at = "calculate"
      BY <1>8, Zenon DEF BuildDailyMetrics, pipeVars
    <2>3. CASE w \in Jobs
      <3>1. Full(w) = runner[w].full /\ w \notin Buses /\ w # METRICS /\ runner[w].at = "calculate"
        BY <2>2, <2>3, <1>a, <1>b DEF Full
      <3>2. runner[w].stored \in Nat /\ data \in Nat /\ data >= runner[w].stored
        BY <1>0, <2>3, BusAssumption DEF VersionsBehind, Types, Runner
      <3>3. QED
        BY <2>1, <2>2, <2>3, <3>1, <3>2, WorkerGoesOn DEF OfMetrics
    <2>4. CASE w = METRICS
      <3>1. Full(w) = stream[METRICS][handler[METRICS].msg].full
        BY <2>4, MetricsIsBus DEF Full
      <3>2. (\A b \in Buses : task[b].at # "idle" => handler[b].at = "work")'
        BY <2>1, <2>2, <2>4, <1>a, <1>b DEF TasksBelong, busVars
      <3>3. (/\ task[METRICS].at \in OfMetrics
             /\ task[METRICS].at = "upsert" => task[METRICS].full = stream[METRICS][handler[METRICS].msg].full)'
        BY <2>1, <2>2, <2>4, <3>1 DEF OfMetrics, busVars
      <3>4. \A i \in Jobs :
              task'[i].at = task[i].at /\ task'[i].full = task[i].full /\ task'[i].seen = task[i].seen
        BY <2>1, <2>4, <1>a
      <3>5. QED
        BY <2>2, <3>2, <3>3, <3>4 DEF TasksBelong
    <2>5. QED
      BY <2>2, <2>3, <2>4
  <1>9. ASSUME NEW w \in Workers, UpsertMetricsDaily(w)
        PROVE  TasksBelong'
    <2>1. /\ UNCHANGED <<busVars, runner>> /\ task[w].at = "upsert"
          /\ \E at \in {"ok", "error"} : task' = [task EXCEPT ![w].at = at]
      BY <1>9 DEF UpsertMetricsDaily, TaskAt, Calculating
    <2>2. task'[w].at \in {"ok", "error"} /\ \A v \in Workers : v # w => task'[v] = task[v]
      BY <2>1, <1>0, AtSet
    <2>3. CASE w = METRICS
      BY <2>1, <2>2, <2>3, <1>a, <1>b DEF TasksBelong, OfMetrics, busVars
    <2>4. CASE w # METRICS
      BY <2>1, <2>2, <2>4, WorkerGoesOn DEF TasksBelong, OfMetrics
    <2>5. QED
      BY <2>3, <2>4
  <1>10. ASSUME NEW w \in Workers, LoadInsights(w) \/ ReopenInsight(w) \/ KeepOpen(w)
         PROVE  TasksBelong'
    <2>1. UNCHANGED <<busVars, runner>>
      BY <1>10, Zenon DEF LoadInsights, ReopenInsight, KeepOpen, pipeVars
    <2>2. \A v \in Workers : v # w => task'[v] = task[v]
      <3>1. CASE LoadInsights(w)
        BY <3>1, <1>0, LoadTask
      <3>2. CASE ReopenInsight(w)
        BY <3>2, <1>0, ReopenTask
      <3>3. CASE KeepOpen(w)
        BY <3>3, <1>0, KeepOpenRow, AtSet
      <3>4. QED
        BY <1>10, <3>1, <3>2, <3>3
    <2>3. task[w].at \in {"reopen", "open"} \/ LoadInsights(w)
      BY <1>10, Zenon DEF ReopenInsight, KeepOpen, TaskAt
    <2>4. /\ w # METRICS
          /\ w \in Buses => handler[w].at = "work"
          /\ w \in Jobs => runner[w].at = "refresh"
      BY <2>3, InsightWorker
    <2>5. QED
      BY <2>1, <2>2, <2>4, WorkerGoesOn
  <1>11. ASSUME NEW w \in Workers, TaskFails(w)
         PROVE  TasksBelong'
    <2>1. UNCHANGED <<busVars, runner>>
      BY <1>11, Zenon DEF TaskFails, pipeVars
    <2>2. /\ \A v \in Workers : v # w => task'[v] = task[v]
          /\ task[w].at \in {"upsert", "reopen", "open"}
          /\ task'[w].at = IF w = Reader THEN "idle" ELSE "error"
      BY <1>0, <1>11, FailTask
    <2>3. CASE w = METRICS
      BY <2>1, <2>2, <2>3, <1>a, <1>b, MetricsIsBus DEF TasksBelong, OfMetrics, busVars
    <2>4. CASE w # METRICS
      BY <2>1, <2>2, <2>4, WorkerGoesOn DEF TasksBelong, OfMetrics
    <2>5. QED
      BY <2>3, <2>4
  <1>12. ASSUME (\E status \in {"open", "reviewed", "dismissed"} : Decide(status)) \/ Detect
         PROVE  TasksBelong'
    <2>1. UNCHANGED <<busVars, task, runner>>
      BY <1>12, Zenon DEF Decide, Detect, pipeVars
    <2>2. FullKept /\ UNCHANGED <<task, runner>> /\ \A b \in Buses : handler[b].at = "work" => handler'[b] = handler[b]
      BY <2>1 DEF FullKept, busVars
    <2>3. QED
      BY <2>2, <1>0, TasksKept
  <1>13. CASE Restart
    <2>1. task' = [w \in Workers |-> NoTask]
      BY <1>13, Zenon DEF Restart
    <2>2. \A w \in Workers : task'[w].at = "idle"
      BY <2>1, NoTaskTyped
    <2>3. QED
      BY <2>2, <1>a, <1>b, MetricsIsBus DEF TasksBelong, OfMetrics
  <1>14. ASSUME NEW b \in open, ConsumerStep(b) \/ \E i \in 1 .. MaxMessages : ServerStep(b, i)
         PROVE  TasksBelong'
    BY <1>0, <1>4, <1>5, <1>6, <1>7, <1>14 DEF ConsumerStep
  <1>15. ASSUME NEW w \in Workers, TaskStep(w)
         PROVE  TasksBelong'
    BY <1>8, <1>9, <1>10, <1>11, <1>15 DEF TaskStep
  <1>16. ASSUME NEW b \in open, RunStep(b)
         PROVE  TasksBelong'
    <2>1. UNCHANGED <<handler, task, runner>>
          /\ (UNCHANGED stream \/ \E deleted \in BOOLEAN : Drain(b, deleted))
      BY <1>16, RunFrame DEF Stop
    <2>2. b \in Buses
      BY <1>0 DEF Types
    <2>3. FullKept
      BY <2>1, <2>2, <1>0, DrainKeeps DEF FullKept
    <2>4. QED
      BY <2>1, <2>3, <1>0, TasksKept
  <1>17. QED
    BY <1>1, <1>2, <1>3, <1>12, <1>13, <1>14, <1>15, <1>16 DEF Step

-----------------------------------------------------------------------------
(* Versions.                                                                  *)

\* But for one that begins, a calculation under way is one of before.
LEMMA CalculationsFrame ==
  ASSUME BusInv, Types, InsightTypes, Step, \A w \in Workers : ~BuildDailyMetrics(w)
  PROVE  \A v \in Workers : task'[v].at = "upsert" => task'[v] = task[v]
  <1> DEFINE P == \A v \in Workers : task'[v].at = "upsert" => task'[v] = task[v]
  <1>1. ASSUME NEW v \in Workers, TaskSet(v, NoTask)
        PROVE  P
    BY <1>1, NoTaskTyped, TaskSetTyped
  <1>2. ASSUME NEW j \in Jobs, Persist(j) \/ PublishMetrics(j) \/ PublishInsights(j) \/ Returned(j)
        PROVE  P
    <2>1. UNCHANGED task \/ TaskSet(j, NoTask)
      BY <1>2, Zenon DEF Persist, PublishMetrics, PublishInsights, Returned, TaskSet
    <2>2. QED
      BY <2>1, <1>1 DEF Workers
  <1>3. ASSUME NEW b \in open, NEW i, RunStep(b) \/ ConsumerStep(b) \/ ServerStep(b, i)
        PROVE  P
    <2>1. UNCHANGED task \/ TaskSet(b, NoTask)
      BY <1>3, RunFrame, Zenon DEF ConsumerStep, ServerStep, Consume, Consumed, TaskSet
    <2>2. QED
      BY <2>1, <1>1 DEF Types, Workers
  <1>4. ASSUME NEW w \in Workers, TaskStep(w)
        PROVE  P
    <2>1. CASE UpsertMetricsDaily(w) \/ KeepOpen(w)
      <3>1. \E at \in {"ok", "error"} : task' = [task EXCEPT ![w].at = at]
        BY <2>1 DEF UpsertMetricsDaily, KeepOpen
      <3>2. task'[w].at \in {"ok", "error"} /\ \A v \in Workers : v # w => task'[v] = task[v]
        BY <3>1, AtSet
      <3>3. QED
        BY <3>2
    <2>2. CASE LoadInsights(w)
      BY <2>2, LoadTask
    <2>3. CASE ReopenInsight(w)
      BY <2>3, ReopenTask
    <2>4. CASE TaskFails(w)
      BY <2>4, FailTask
    <2>5. QED
      BY <1>4, <2>1, <2>2, <2>3, <2>4 DEF TaskStep
  <1>5. ASSUME (\E status \in {"open", "reviewed", "dismissed"} : Decide(status)) \/ Detect
        PROVE  P
    <2>1. UNCHANGED task
      BY <1>5, Zenon DEF Decide, Detect
    <2>2. QED
      BY <2>1
  <1>6. CASE Restart
    <2>1. task' = [w \in Workers |-> NoTask]
      BY <1>6, Zenon DEF Restart
    <2>2. QED
      BY <2>1, NoTaskTyped
  <1>7. QED
    BY <1>2, <1>3, <1>4, <1>5, <1>6, Zenon DEF Step

\* Only a batch changes the metrics, only a run the data.
LEMMA MetricsFrame ==
  ASSUME Types, Step
  PROVE  /\ UNCHANGED metrics \/ \E w \in Workers : UpsertMetricsDaily(w)
         /\ UNCHANGED data \/ \E j \in Jobs : Persist(j)
         /\ data' \in Nat /\ data' >= data
  <1>0. data \in Nat
    BY BusAssumption DEF Types
  <1>1. ASSUME NEW j \in Jobs, Persist(j)
        PROVE  UNCHANGED metrics /\ data' = data + 1
    BY <1>1, Zenon DEF Persist
  <1>2. ASSUME NEW j \in Jobs, PublishMetrics(j) \/ PublishInsights(j) \/ Returned(j)
        PROVE  UNCHANGED <<metrics, data>>
    BY <1>2, Zenon DEF PublishMetrics, PublishInsights, Returned
  <1>3. ASSUME NEW b, NEW i, RunStep(b) \/ ConsumerStep(b) \/ ServerStep(b, i)
        PROVE  UNCHANGED <<metrics, data>>
    BY <1>3, RunFrame, Zenon DEF ConsumerStep, ServerStep, Consume, Consumed, pipeVars
  <1>4. ASSUME NEW w \in Workers, TaskStep(w)
        PROVE  UNCHANGED data /\ (UNCHANGED metrics \/ UpsertMetricsDaily(w))
    BY <1>4, Zenon DEF TaskStep, BuildDailyMetrics, UpsertMetricsDaily, LoadInsights,
      ReopenInsight, KeepOpen, TaskFails, pipeVars
  <1>5. ASSUME (\E status \in {"open", "reviewed", "dismissed"} : Decide(status)) \/ Detect \/ Restart
        PROVE  UNCHANGED <<metrics, data>>
    BY <1>5, Zenon DEF Decide, Detect, Restart, pipeVars
  <1>6. \/ UNCHANGED <<metrics, data>>
        \/ UNCHANGED data /\ \E w \in Workers : UpsertMetricsDaily(w)
        \/ UNCHANGED metrics /\ data' = data + 1 /\ \E j \in Jobs : Persist(j)
    BY <1>1, <1>2, <1>3, <1>4, <1>5, Zenon DEF Step
  <1>7. QED
    BY <1>0, <1>6

\* What the completed jobs are due, and what a job has stored.
LEMMA JobsFrame ==
  ASSUME Types, Step
  PROVE  \/ UNCHANGED <<runner, due>>
         \/ \E j \in Jobs : Persist(j)
         \/ UNCHANGED due /\ \E j \in Jobs : (PublishMetrics(j) \/ PublishInsights(j) \/ Returned(j)) /\ \E at : Goto(j, at)
         \/ \E j \in Jobs : (PublishInsights(j) \/ Returned(j)) /\ Completed(j)
         \/ Restart /\ UNCHANGED due
  <1>1. ASSUME NEW j \in Jobs, PublishMetrics(j)
        PROVE  UNCHANGED due /\ \E at : Goto(j, at)
    BY <1>1, Zenon DEF PublishMetrics
  <1>2. ASSUME NEW j \in Jobs, PublishInsights(j) \/ Returned(j)
        PROVE  (UNCHANGED due /\ \E at : Goto(j, at)) \/ Completed(j)
    BY <1>2, Zenon DEF PublishInsights, Returned
  <1>3. ASSUME NEW b, NEW i, RunStep(b) \/ ConsumerStep(b) \/ ServerStep(b, i)
        PROVE  UNCHANGED <<runner, due>>
    BY <1>3, RunFrame, Zenon DEF ConsumerStep, ServerStep, Consume, Consumed, pipeVars
  <1>4. ASSUME NEW w \in Workers, TaskStep(w)
        PROVE  UNCHANGED <<runner, due>>
    BY <1>4, Zenon DEF TaskStep, BuildDailyMetrics, UpsertMetricsDaily, LoadInsights,
      ReopenInsight, KeepOpen, TaskFails, pipeVars
  <1>5. ASSUME (\E status \in {"open", "reviewed", "dismissed"} : Decide(status)) \/ Detect
        PROVE  UNCHANGED <<runner, due>>
    BY <1>5, Zenon DEF Decide, Detect, pipeVars
  <1>6. CASE Restart
    BY <1>6, Zenon DEF Restart
  <1>7. QED
    BY <1>1, <1>2, <1>3, <1>4, <1>5, <1>6, Zenon DEF Step

LEMMA VersionsTyped ==
  ASSUME Types
  PROVE  /\ data \in Nat /\ \A d \in Days : metrics[d] \in Nat /\ due[d] \in Nat
         /\ \A j \in Jobs : runner[j].stored \in Nat
         /\ \A w \in Workers : task[w].seen \in Nat
  BY BusAssumption DEF Types, Versions, Runner, Task

\* What becomes due is what was, or what the job has stored.
LEMMA CompletedDue ==
  ASSUME Types, NEW j \in Jobs, Completed(j)
  PROVE  \A d \in Days : \/ due'[d] = due[d]
                         \/ d \in DaysOf(runner[j].full) /\ due'[d] = runner[j].stored
  <1> SUFFICES ASSUME NEW d \in Days
               PROVE  \/ due'[d] = due[d]
                      \/ d \in DaysOf(runner[j].full) /\ due'[d] = runner[j].stored
    OBVIOUS
  <1>1. due[d] \in Nat /\ runner[j].stored \in Nat
    BY VersionsTyped
  <1>2. Max({due[d], runner[j].stored}) \in {due[d], runner[j].stored}
    BY <1>1, MaxOfTwo
  <1>3. due'[d] = IF d \in DaysOf(runner[j].full) THEN Max({due[d], runner[j].stored}) ELSE due[d]
    BY DEF Completed
  <1>4. QED
    BY <1>2, <1>3

VersionsInv == VersionsBehind /\ AloneIsNewest

LEMMA VersionsInit == Init => VersionsInv
  <1> SUFFICES ASSUME Init PROVE VersionsInv
    OBVIOUS
  <1>1. \A w \in Workers : ~Calculating(w)
    BY NoTaskTyped DEF Init, Calculating, TaskAt
  <1>2. QED
    BY <1>1 DEF Init, VersionsInv, VersionsBehind, AloneIsNewest

LEMMA VersionsStep ==
  ASSUME TypeInv, VersionsInv, Step
  PROVE  VersionsInv'
  <1>0. BusInv /\ Types /\ InsightTypes /\ VersionsBehind /\ AloneIsNewest
    BY DEF TypeInv, VersionsInv
  <1>1. /\ data \in Nat /\ data' \in Nat /\ data' >= data
        /\ \A d \in Days : metrics[d] \in Nat /\ due[d] \in Nat
        /\ \A j \in Jobs : runner[j].stored \in Nat
        /\ \A w \in Workers : task[w].seen \in Nat
    BY <1>0, VersionsTyped, MetricsFrame
  <1>2. /\ \A d \in Days : metrics[d] <= data /\ due[d] <= data
        /\ \A j \in Jobs : runner[j].stored <= data
        /\ \A w \in Workers : Calculating(w) => task[w].seen <= data
    BY <1>0 DEF VersionsBehind
  \* A batch is of one of those calculating.
  <1>3. ASSUME NEW w \in Workers, UpsertMetricsDaily(w)
        PROVE  /\ Calculating(w) /\ task'[w].at # "upsert"
               /\ \A d \in Days : metrics'[d] \in {task[w].seen, metrics[d]}
    <2>1. /\ Calculating(w) /\ \E at \in {"ok", "error"} : task' = [task EXCEPT ![w].at = at]
          /\ metrics' = [d \in Days |-> IF d \in DaysOf(task[w].full) THEN task[w].seen ELSE metrics[d]]
      BY <1>3 DEF UpsertMetricsDaily
    <2>2. task'[w].at # "upsert"
      BY <2>1, <1>0, AtSet
    <2>3. QED
      BY <2>1, <2>2
  <1>4. \A d \in Days : metrics'[d] \in Nat /\ metrics'[d] <= data
    <2>1. CASE UNCHANGED metrics
      BY <2>1, <1>1, <1>2
    <2>2. ASSUME NEW w \in Workers, UpsertMetricsDaily(w)
          PROVE  \A d \in Days : metrics'[d] \in Nat /\ metrics'[d] <= data
      BY <2>2, <1>1, <1>2, <1>3
    <2>3. QED
      BY <2>1, <2>2, <1>0, MetricsFrame
  <1>5. (\A d \in Days : due'[d] <= data') /\ \A j \in Jobs : runner'[j].stored <= data'
    <2>1. CASE UNCHANGED <<runner, due>>
      BY <2>1, <1>1, <1>2
    <2>2. ASSUME NEW j \in Jobs, Persist(j)
          PROVE  UNCHANGED due /\ \A i \in Jobs : runner'[i].stored <= data'
      <3>1. UNCHANGED due /\ \E full : runner' = [runner EXCEPT ![j] = [at |-> "metrics", full |-> full, stored |-> data']]
        BY <2>2, Zenon DEF Persist
      <3>2. runner'[j].stored = data' /\ \A i \in Jobs : i # j => runner'[i] = runner[i]
        BY <3>1, <1>0 DEF Types
      <3>3. QED
        BY <3>1, <3>2, <1>1, <1>2
    <2>3. ASSUME NEW j \in Jobs, NEW at, Goto(j, at)
          PROVE  \A i \in Jobs : runner'[i].stored <= data'
      <3>1. \A i \in Jobs : runner'[i].stored = runner[i].stored
        BY <2>3, <1>0, GotoKeeps
      <3>2. QED
        BY <3>1, <1>1, <1>2
    <2>4. ASSUME NEW j \in Jobs, Completed(j)
          PROVE  \A d \in Days : due'[d] <= data'
      BY <2>4, <1>0, <1>1, <1>2, CompletedDue
    <2>5. CASE Restart /\ UNCHANGED due
      <3>1. runner' = [j \in Jobs |-> IF runner[j].at \in {"new", "done", "failed", "stopped"}
                                        THEN runner[j] ELSE [runner[j] EXCEPT !.at = "stopped"]]
        BY <2>5, Zenon DEF Restart
      <3>2. \A j \in Jobs : runner'[j].stored = runner[j].stored
        BY <3>1, <1>0 DEF Types, Runner
      <3>3. QED
        BY <2>5, <3>2, <1>1, <1>2
    <2>6. QED
      <3>1. UNCHANGED due => \A d \in Days : due'[d] <= data'
        BY <1>1, <1>2
      <3>2. ASSUME NEW j \in Jobs, Completed(j)
            PROVE  \E at : Goto(j, at)
        BY <3>2 DEF Completed
      <3>3. QED
        BY <2>1, <2>2, <2>3, <2>4, <2>5, <3>1, <3>2, <1>0, JobsFrame
  <1>6. CASE \E w \in Workers : BuildDailyMetrics(w)
    <2>1. PICK w \in Workers : BuildDailyMetrics(w)
      BY <1>6
    <2>2. UNCHANGED <<metrics, data>>
      BY <2>1, Zenon DEF BuildDailyMetrics, pipeVars
    <2>3. /\ task'[w].at = "upsert" /\ task'[w].seen = data
          /\ ~task'[w].shared => \A u \in Workers : ~Calculating(u)
          /\ \A v \in Workers : v # w =>
              /\ task'[v].at = task[v].at /\ task'[v].seen = task[v].seen
              /\ Calculating(v) => task'[v].shared
      BY <2>1, <1>0, BuildTask
    <2>4. VersionsBehind'
      BY <2>2, <2>3, <1>1, <1>2, <1>4, <1>5 DEF VersionsBehind, Calculating, TaskAt
    <2>5. AloneIsNewest'
      <3> SUFFICES ASSUME NEW v \in Workers, task'[v].at = "upsert", ~task'[v].shared
                   PROVE  /\ \A u \in Workers \ {v} : task'[u].at # "upsert"
                          /\ \A d \in Days : metrics'[d] <= task'[v].seen
        BY DEF AloneIsNewest, Calculating, TaskAt
      <3>1. v = w
        BY <2>3 DEF Calculating, TaskAt
      <3>2. QED
        BY <3>1, <2>2, <2>3, <1>2 DEF Calculating, TaskAt
    <2>6. QED
      BY <2>4, <2>5 DEF VersionsInv
  <1>7. CASE \A w \in Workers : ~BuildDailyMetrics(w)
    <2>1. \A v \in Workers : task'[v].at = "upsert" => Calculating(v) /\ task'[v] = task[v]
      BY <1>0, <1>7, CalculationsFrame DEF Calculating, TaskAt
    <2>2. VersionsBehind'
      BY <2>1, <1>1, <1>2, <1>4, <1>5 DEF VersionsBehind, Calculating, TaskAt
    <2>3. AloneIsNewest'
      <3> SUFFICES ASSUME NEW v \in Workers, task'[v].at = "upsert", ~task'[v].shared
                   PROVE  /\ \A u \in Workers \ {v} : task'[u].at # "upsert"
                          /\ \A d \in Days : metrics'[d] <= task'[v].seen
        BY DEF AloneIsNewest, Calculating, TaskAt
      <3>1. /\ Calculating(v) /\ task'[v] = task[v]
            /\ \A u \in Workers \ {v} : ~Calculating(u)
            /\ \A d \in Days : metrics[d] <= task[v].seen
        BY <2>1, <1>0 DEF AloneIsNewest
      <3>2. \A w \in Workers : ~UpsertMetricsDaily(w)
        BY <3>1, <1>3
      <3>3. UNCHANGED metrics
        BY <3>2, <1>0, MetricsFrame
      <3>4. QED
        BY <2>1, <3>1, <3>3
    <2>4. QED
      BY <2>2, <2>3 DEF VersionsInv
  <1>8. QED
    BY <1>6, <1>7

-----------------------------------------------------------------------------
(* Messages are counted by runs.                                              *)

LEMMA ToPublishFinite == \A b : IsFiniteSet(ToPublish(b)) /\ Cardinality(ToPublish(b)) \in Nat
  <1> SUFFICES ASSUME NEW b PROVE IsFiniteSet(ToPublish(b)) /\ Cardinality(ToPublish(b)) \in Nat
    OBVIOUS
  <1>1. ToPublish(b) \subseteq Jobs /\ IsFiniteSet(Jobs)
    BY PipelineAssumption DEF ToPublish
  <1>2. QED
    BY <1>1, FS_Subset, FS_CardinalityType

\* Fewer jobs have yet to publish.
LEMMA FewerToPublish ==
  ASSUME NEW b, NEW T, T \subseteq ToPublish(b)
  PROVE  IsFiniteSet(T) /\ Cardinality(T) \in Nat /\ Cardinality(T) <= Cardinality(ToPublish(b))
  BY ToPublishFinite, FS_Subset, FS_CardinalityType

LEMMA MessagesInit == Init => MessagesCounted
  <1> SUFFICES ASSUME Init, NEW b \in Buses PROVE Len(stream[b]) + Cardinality(ToPublish(b)) <= data
    BY DEF MessagesCounted
  <1>1. stream[b] = <<>> /\ data = 0 /\ ToPublish(b) = {}
    BY DEF Init, BusInit, ToPublish
  <1>2. Len(stream[b]) = 0
    BY <1>1
  <1>3. QED
    BY <1>1, <1>2, FS_EmptySet

LEMMA MessagesStep ==
  ASSUME TypeInv, TasksBelong, MessagesCounted, Step
  PROVE  MessagesCounted'
  <1>0. BusInv /\ Types /\ InsightTypes /\ data \in Nat /\ data' \in Nat /\ data' >= data
    BY VersionsTyped, MetricsFrame DEF TypeInv
  <1>1. /\ \A b \in Buses : Len(stream[b]) \in Nat /\ Cardinality(ToPublish(b)) \in Nat
        /\ \A b \in Buses : Len(stream[b]) + Cardinality(ToPublish(b)) <= data
    BY <1>0, ToPublishFinite DEF MessagesCounted, BusInv, BusShape
  \* Nothing is published, and no other job is to publish.
  <1>a. ASSUME \A b \in Buses : Len(stream'[b]) = Len(stream[b]) /\ ToPublish(b)' \subseteq ToPublish(b)
        PROVE  MessagesCounted'
    <2>1. \A b \in Buses : Cardinality(ToPublish(b)') \in Nat /\ Cardinality(ToPublish(b)') <= Cardinality(ToPublish(b))
      BY <1>a, FewerToPublish
    <2>2. QED
      BY <2>1, <1>a, <1>0, <1>1 DEF MessagesCounted
  \* A job publishes to a bus.
  <1>b. ASSUME NEW b \in Buses, NEW j \in Jobs, NEW f \in BOOLEAN, Stored(b, j, f), UNCHANGED <<queue, handler>>,
               \A c \in Buses : ToPublish(c)' \subseteq ToPublish(c),
               j \in ToPublish(b), j \notin ToPublish(b)'
        PROVE  MessagesCounted'
    <2>1. Len(stream'[b]) = Len(stream[b]) + 1 /\ \A c \in Buses : c # b => stream'[c] = stream[c]
      BY <1>b, <1>0, StoredKeeps
    <2>2. \A c \in Buses : Cardinality(ToPublish(c)') \in Nat /\ Cardinality(ToPublish(c)') <= Cardinality(ToPublish(c))
      BY <1>b, FewerToPublish
    <2>3. Cardinality(ToPublish(b)') + 1 <= Cardinality(ToPublish(b))
      <3>1. /\ ToPublish(b) \ {j} \in SUBSET ToPublish(b)
            /\ Cardinality(ToPublish(b) \ {j}) = Cardinality(ToPublish(b)) - 1
        BY <1>b, ToPublishFinite, FS_RemoveElement
      <3>2. ToPublish(b)' \subseteq ToPublish(b) \ {j} /\ IsFiniteSet(ToPublish(b) \ {j})
        BY <1>b, ToPublishFinite, FS_Subset
      <3>3. Cardinality(ToPublish(b)') <= Cardinality(ToPublish(b) \ {j})
        BY <3>2, FS_Subset
      <3>4. QED
        BY <3>1, <3>3, <2>2, <1>1
    <2>4. ASSUME NEW c \in Buses
          PROVE  Len(stream'[c]) + Cardinality(ToPublish(c)') <= data'
      <3>1. /\ Len(stream[c]) \in Nat /\ Cardinality(ToPublish(c)) \in Nat
            /\ Len(stream[c]) + Cardinality(ToPublish(c)) <= data
            /\ Cardinality(ToPublish(c)') \in Nat /\ Cardinality(ToPublish(c)') <= Cardinality(ToPublish(c))
        BY <2>2, <1>1
      <3>2. CASE c = b
        <4>1. Len(stream'[c]) = Len(stream[c]) + 1
          BY <3>2, <2>1
        <4>2. Cardinality(ToPublish(c)') + 1 <= Cardinality(ToPublish(c))
          BY <3>2, <2>3
        <4>3. QED
          BY <3>1, <4>1, <4>2, <1>0
      <3>3. CASE c # b
        <4>1. Len(stream'[c]) = Len(stream[c])
          BY <3>1, <3>3, <2>1
        <4>2. QED
          BY <3>1, <4>1, <1>0
      <3>4. QED
        BY <3>2, <3>3
    <2>5. QED
      BY <2>4 DEF MessagesCounted
  <1>2. ASSUME NEW j \in Jobs, Persist(j)
        PROVE  MessagesCounted'
    <2>1. /\ UNCHANGED busVars /\ data' = data + 1
          /\ \E full : runner' = [runner EXCEPT ![j] = [at |-> "metrics", full |-> full, stored |-> data']]
      BY <1>2, Zenon DEF Persist
    <2>2. \A i \in Jobs : i # j => runner'[i] = runner[i]
      BY <2>1, <1>0 DEF Types
    <2>3. ASSUME NEW b \in Buses
          PROVE  Cardinality(ToPublish(b)') \in Nat /\ Cardinality(ToPublish(b)') <= Cardinality(ToPublish(b)) + 1
      <3>1. ToPublish(b)' \subseteq ToPublish(b) \cup {j}
        BY <2>2 DEF ToPublish
      <3>2. /\ IsFiniteSet(ToPublish(b) \cup {j})
            /\ Cardinality(ToPublish(b) \cup {j}) = Cardinality(ToPublish(b)) \/ Cardinality(ToPublish(b) \cup {j}) = Cardinality(ToPublish(b)) + 1
        BY ToPublishFinite, FS_AddElement
      <3>3. Cardinality(ToPublish(b)') <= Cardinality(ToPublish(b) \cup {j}) /\ IsFiniteSet(ToPublish(b)')
        BY <3>1, <3>2, FS_Subset
      <3>4. Cardinality(ToPublish(b)') \in Nat /\ Cardinality(ToPublish(b)) \in Nat
        BY <3>3, ToPublishFinite, FS_CardinalityType
      <3>5. QED
        BY <3>2, <3>3, <3>4
    <2>4. QED
      BY <2>1, <2>3, <1>0, <1>1 DEF MessagesCounted, busVars
  <1>3. ASSUME NEW j \in Jobs, PublishMetrics(j)
        PROVE  MessagesCounted'
    <2>1. /\ runner[j].at = "metrics" /\ UNCHANGED <<queue, handler>>
          /\ UNCHANGED stream \/ Stored(METRICS, j, runner[j].full)
          /\ Goto(j, "insights") \/ Goto(j, "calculate")
      BY <1>3, Zenon DEF PublishMetrics, Dropped
    <2>2. /\ runner'[j].at \in {"insights", "calculate"} /\ \A i \in Jobs : i # j => runner'[i] = runner[i]
      BY <2>1, <1>0, GotoKeeps
    <2>3. \A b \in Buses : ToPublish(b)' \subseteq ToPublish(b)
      <3>1. \A b, i : i \in ToPublish(b)' => i \in ToPublish(b)
        BY <2>1, <2>2 DEF ToPublish
      <3>2. QED
        BY <3>1
    <2>4. j \in ToPublish(METRICS) /\ j \notin ToPublish(METRICS)'
      BY <2>1, <2>2, PipelineAssumption DEF ToPublish
    <2>5. PICK f \in BOOLEAN : f = runner[j].full
      BY <1>0 DEF Types, Runner
    <2>6. CASE UNCHANGED stream
      BY <2>3, <2>6, <1>a
    <2>7. CASE Stored(METRICS, j, f)
      BY <2>1, <2>3, <2>4, <2>7, <1>b, MetricsIsBus
    <2>8. QED
      BY <2>1, <2>5, <2>6, <2>7
  <1>4. ASSUME NEW j \in Jobs, PublishInsights(j)
        PROVE  MessagesCounted'
    <2>1. /\ runner[j].at = "insights" /\ UNCHANGED <<queue, handler>>
          /\ UNCHANGED stream \/ Stored(INSIGHTS, j, runner[j].full)
          /\ Goto(j, "done") \/ Goto(j, "failed") \/ Goto(j, "refresh")
      BY <1>4, Zenon DEF PublishInsights, Dropped, Completed
    <2>2. /\ runner'[j].at \in {"done", "failed", "refresh"} /\ \A i \in Jobs : i # j => runner'[i] = runner[i]
      BY <2>1, <1>0, GotoKeeps
    <2>3. \A b \in Buses : ToPublish(b)' \subseteq ToPublish(b)
      <3>1. \A b, i : i \in ToPublish(b)' => i \in ToPublish(b)
        BY <2>1, <2>2 DEF ToPublish
      <3>2. QED
        BY <3>1
    <2>4. j \in ToPublish(INSIGHTS) /\ j \notin ToPublish(INSIGHTS)' /\ INSIGHTS \in Buses
      BY <2>1, <2>2, PipelineAssumption DEF ToPublish, Buses
    <2>5. PICK f \in BOOLEAN : f = runner[j].full
      BY <1>0 DEF Types, Runner
    <2>6. CASE UNCHANGED stream
      BY <2>3, <2>6, <1>a
    <2>7. CASE Stored(INSIGHTS, j, f)
      BY <2>1, <2>3, <2>4, <2>7, <1>b
    <2>8. QED
      BY <2>1, <2>5, <2>6, <2>7
  <1>5. ASSUME NEW j \in Jobs, Returned(j)
        PROVE  MessagesCounted'
    <2>1. /\ UNCHANGED busVars /\ task[j].at # "idle"
          /\ \/ Goto(j, "failed") \/ Goto(j, "done")
             \/ runner[j].at = "calculate" /\ Goto(j, "insights")
      BY <1>5 DEF Returned, Completed
    <2>2. /\ runner'[j].at \in {"done", "failed"} \/ (runner[j].at = "calculate" /\ runner'[j].at = "insights")
          /\ \A i \in Jobs : i # j => runner'[i] = runner[i]
      BY <2>1, <1>0, GotoKeeps
    <2>3. \A b, i : i \in ToPublish(b)' => i \in ToPublish(b)
      BY <2>1, <2>2 DEF ToPublish
    <2>4. QED
      BY <2>1, <2>3, <1>a DEF busVars
  <1>6. ASSUME NEW b \in Buses, NEW i,
               \/ Consume(b) \/ Consumed(b) \/ (DeadLetter(b) /\ UNCHANGED pipeVars)
               \/ i \in 1 .. MaxMessages /\ ServerStep(b, i)
        PROVE  MessagesCounted'
    <2>1. UNCHANGED runner
      BY <1>6, Zenon DEF Consume, Consumed, ServerStep, pipeVars
    <2>2. \A c \in Buses : Len(stream'[c]) = Len(stream[c])
      <3>1. CASE Consume(b)
        BY <3>1, <1>0, TakeKeeps DEF Consume
      <3>2. CASE Consumed(b)
        <4>1. \E ok \in BOOLEAN : Finish(b, ok)
          BY <3>2 DEF Consumed, TaskAt
        <4>2. QED
          BY <4>1, <1>0, FinishKeeps DEF OnlyMessage
      <3>3. CASE DeadLetter(b)
        BY <3>3, <1>0, DeadLetterKeeps DEF OnlyMessage
      <3>4. CASE i \in 1 .. MaxMessages /\ Deliver(b, i)
        BY <3>4, <1>0, DeliverKeeps DEF OnlyMessage
      <3>5. CASE AckExpires(b, i)
        BY <3>5, <1>0, AckExpiresKeeps DEF OnlyMessage
      <3>6. QED
        BY <1>6, <3>1, <3>2, <3>3, <3>4, <3>5 DEF ServerStep
    <2>3. \A c \in Buses : ToPublish(c)' \subseteq ToPublish(c)
      BY <2>1 DEF ToPublish
    <2>4. QED
      BY <2>2, <2>3, <1>a
  <1>7. ASSUME UNCHANGED <<busVars, runner>>
        PROVE  MessagesCounted'
    BY <1>7, <1>a DEF ToPublish, busVars
  <1>8. ASSUME \/ \E w \in Workers : TaskStep(w)
               \/ \E status \in {"open", "reviewed", "dismissed"} : Decide(status)
               \/ Detect
        PROVE  MessagesCounted'
    <2>1. UNCHANGED <<busVars, runner>>
      BY <1>8, Zenon DEF TaskStep, BuildDailyMetrics, UpsertMetricsDaily, LoadInsights, ReopenInsight,
        KeepOpen, TaskFails, Decide, Detect, pipeVars
    <2>2. QED
      BY <2>1, <1>7
  <1>9. CASE Restart
    <2>1. /\ UNCHANGED stream
          /\ runner' = [j \in Jobs |-> IF runner[j].at \in {"new", "done", "failed", "stopped"}
                                         THEN runner[j] ELSE [runner[j] EXCEPT !.at = "stopped"]]
      BY <1>9, Zenon DEF Restart, ConsumersStop
    <2>2. \A j \in Jobs : runner'[j].at \in {"new", "done", "failed", "stopped"}
      BY <2>1, <1>0 DEF Types, Runner
    <2>3. \A b \in Buses : ToPublish(b)' \subseteq ToPublish(b)
      BY <2>2 DEF ToPublish
    <2>4. QED
      BY <2>1, <2>3, <1>a
  <1>10. ASSUME NEW b \in open, ConsumerStep(b) \/ \E i \in 1 .. MaxMessages : ServerStep(b, i)
         PROVE  MessagesCounted'
    <2>1. b \in Buses
      BY <1>0 DEF Types
    <2>2. QED
      BY <2>1, <1>6, <1>10, Zenon DEF ConsumerStep
  <1>11. ASSUME NEW b \in open, RunStep(b)
         PROVE  MessagesCounted'
    <2>1. UNCHANGED <<data, runner>>
          /\ (UNCHANGED stream \/ \E deleted \in BOOLEAN : Drain(b, deleted))
      BY <1>11, RunFrame DEF Stop
    <2>2. b \in Buses
      BY <1>0 DEF Types
    <2>3. \A c \in Buses : Len(stream'[c]) = Len(stream[c])
      BY <2>1, <2>2, <1>0, DrainKeeps
    <2>4. QED
      BY <2>1, <2>3 DEF MessagesCounted, ToPublish
  <1>12. QED
    BY <1>2, <1>3, <1>4, <1>5, <1>8, <1>9, <1>10, <1>11 DEF Step

-----------------------------------------------------------------------------
(* What will bring the metrics up to date.                                    *)

\* The parts of Carries: the message itself, its last delivery, and the work on it.
Waits(k, d) ==
  /\ k \in DOMAIN stream[METRICS] /\ d \in DaysOf(stream[METRICS][k].full)
  /\ stream[METRICS][k].state \notin {"acked", "lost"} /\ stream[METRICS][k].end = "none"
ToHandle(k) ==
  \/ stream[METRICS][k].delivered < MaxDeliver
  \/ \E q \in DOMAIN queue[METRICS] :
       queue[METRICS][q].msg = k /\ queue[METRICS][q].n = MaxDeliver
  \/ handler[METRICS].at = "work" /\ handler[METRICS].msg = k /\ handler[METRICS].n = MaxDeliver
UpToDate(k, v) ==
  handler[METRICS].at = "work" /\ handler[METRICS].msg = k =>
    /\ task[METRICS].at # "ok"
    /\ task[METRICS].at = "upsert" => task[METRICS].seen >= v

LEMMA CarriesParts == \A k, d, v : Carries(k, d, v) <=> Waits(k, d) /\ ToHandle(k) /\ UpToDate(k, v)
  BY DEF Carries, Waits, ToHandle, UpToDate

CoverAssumptions == TypeInv /\ TasksBelong /\ VersionsInv

\* Steps of others than the consumer of the metrics bus.
LEMMA CarriesKept ==
  ASSUME NEW k, NEW d, NEW v, Carries(k, d, v),
         k \in DOMAIN stream'[METRICS], stream'[METRICS][k] = stream[METRICS][k],
         queue'[METRICS] = queue[METRICS], handler'[METRICS] = handler[METRICS],
         task'[METRICS].at = task[METRICS].at, task'[METRICS].seen = task[METRICS].seen
  PROVE  Carries(k, d, v)'
  BY DEF Carries

\* What is covered stays covered, case by case.
LEMMA PublishCovers ==
  ASSUME TypeInv, NEW j \in Jobs, PublishMetrics(j) \/ PublishInsights(j), NEW k, NEW d, NEW v, Carries(k, d, v)
  PROVE  Carries(k, d, v)'
  <1>1. PICK f \in BOOLEAN : f = runner[j].full
    BY DEF TypeInv, Types, Runner
  <1>2. /\ UNCHANGED <<queue, handler, task>>
        /\ UNCHANGED stream \/ Stored(METRICS, j, runner[j].full) \/ Stored(INSIGHTS, j, runner[j].full)
    BY Zenon DEF PublishMetrics, PublishInsights, Dropped
  <1>3. UNCHANGED stream \/ \E b \in Buses : Stored(b, j, f)
    BY <1>1, <1>2 DEF Stored, Buses
  <1>4. k \in DOMAIN stream[METRICS]
    BY DEF Carries
  <1>5. k \in DOMAIN stream'[METRICS] /\ stream'[METRICS][k] = stream[METRICS][k]
    <2>1. CASE UNCHANGED stream
      BY <2>1, <1>4
    <2>2. ASSUME NEW b \in Buses, Stored(b, j, f)
          PROVE  k \in DOMAIN stream'[METRICS] /\ stream'[METRICS][k] = stream[METRICS][k]
      BY <2>2, <1>2, <1>4, StoredKeeps, MetricsIsBus DEF TypeInv
    <2>3. QED
      BY <1>3, <2>1, <2>2
  <1>6. QED
    BY <1>2, <1>5, CarriesKept

LEMMA ConsumeCovers ==
  ASSUME CoverAssumptions, NEW b \in Buses, Consume(b), NEW k, NEW d, NEW v, Carries(k, d, v)
  PROVE  Carries(k, d, v)'
  <1>1. Take(b) /\ UNCHANGED task
    BY Zenon DEF Consume
  <1>2. /\ UNCHANGED stream
        /\ handler[b].at = "idle" /\ handler'[b].at = "work"
        /\ \A c \in Buses : c # b => handler'[c] = handler[c] /\ queue'[c] = queue[c]
        /\ \A q \in DOMAIN queue[b] :
              \/ queue[b][q].msg = handler'[b].msg /\ queue[b][q].n = handler'[b].n
              \/ q - 1 \in DOMAIN queue'[b] /\ queue'[b][q - 1] = queue[b][q]
    BY <1>1, TakeKeeps DEF CoverAssumptions, TypeInv
  <1>3. CASE b = METRICS
    <2>1. task[METRICS].at = "idle"
      BY <1>2, <1>3 DEF CoverAssumptions, TasksBelong
    <2>2. Waits(k, d) /\ ToHandle(k)
      BY CarriesParts
    <2>3. Waits(k, d)'
      BY <2>2, <1>2 DEF Waits
    <2>4. ToHandle(k)'
      <3>1. CASE stream[METRICS][k].delivered < MaxDeliver
        BY <3>1, <1>2 DEF ToHandle
      <3>2. CASE \E q \in DOMAIN queue[METRICS] : queue[METRICS][q].msg = k /\ queue[METRICS][q].n = MaxDeliver
        BY <3>2, <1>2, <1>3 DEF ToHandle
      <3>3. QED
        BY <2>2, <3>1, <3>2, <1>2, <1>3 DEF ToHandle
    <2>5. UpToDate(k, v)'
      BY <2>1, <1>1 DEF UpToDate
    <2>6. QED
      BY <2>3, <2>4, <2>5 DEF Carries, Waits, ToHandle, UpToDate
  <1>4. CASE b # METRICS
    <2>1. k \in DOMAIN stream[METRICS]
      BY DEF Carries
    <2>2. QED
      BY <2>1, <1>1, <1>2, <1>4, CarriesKept, MetricsIsBus
  <1>5. QED
    BY <1>3, <1>4

\* The work on another message, and that on a message of the other bus.
LEMMA OtherMessage ==
  ASSUME BusInv, NEW b \in Buses, OnlyMessage(b, handler[b].msg), queue' = queue,
         \A c \in Buses : c # b => handler'[c] = handler[c],
         handler[b].at # "idle", handler'[b].at # "work",
         \A c \in Buses : c # b => task'[c] = task[c],
         NEW k, NEW d, NEW v, Carries(k, d, v), b # METRICS \/ k # handler[METRICS].msg
  PROVE  Carries(k, d, v)'
  <1>1. k \in DOMAIN stream[METRICS]
    BY DEF Carries
  <1>2. stream'[METRICS][k] = stream[METRICS][k] /\ k \in DOMAIN stream'[METRICS]
    BY <1>1, MetricsIsBus DEF OnlyMessage
  <1>3. CASE b = METRICS
    BY <1>2, <1>3 DEF Carries
  <1>4. CASE b # METRICS
    BY <1>2, <1>4, CarriesKept, MetricsIsBus
  <1>5. QED
    BY <1>3, <1>4

LEMMA ConsumedCovers ==
  ASSUME CoverAssumptions, NEW b \in Buses, Consumed(b), NEW k, NEW d, NEW v, Carries(k, d, v)
  PROVE  Carries(k, d, v)' \/ d \in behind'
  <1>0. BusInv /\ Types /\ b \in Workers /\ \A c \in Buses : c \in Workers
    BY DEF CoverAssumptions, TypeInv, Workers
  <1>1. PICK ok \in BOOLEAN : /\ ok = TaskAt(b, "ok") /\ Finish(b, ok) /\ task[b].at \in {"ok", "error"} /\ TaskSet(b, NoTask)
                              /\ behind' = IF TaskAt(b, "error") /\ b = METRICS /\ ShouldDeadLetter(handler[b].n)
                                             THEN behind \cup DaysOf(Full(b)) ELSE behind
    BY DEF Consumed, TaskSet, TaskAt
  <1>2. \A w \in Workers : w # b => task'[w] = task[w]
    BY <1>0, <1>1, NoTaskTyped, TaskSetTyped
  <1>3. /\ OnlyMessage(b, handler[b].msg)
        /\ handler[b].at = "work" /\ handler'[b].at \in {"idle", "failed"} /\ queue' = queue
        /\ \A c \in Buses : c # b => handler'[c] = handler[c]
        /\ stream'[b][handler[b].msg].delivered = stream[b][handler[b].msg].delivered
        /\ ~ok /\ stream[b][handler[b].msg].state \notin {"acked", "lost"} =>
             stream'[b][handler[b].msg].state \notin {"acked", "lost"}
        /\ ~ok => stream'[b][handler[b].msg].end = stream[b][handler[b].msg].end
        /\ ShouldDeadLetter(handler[b].n) \/ handler[b].n # MaxDeliver
    BY <1>0, <1>1, FinishKeeps
  <1>4. CASE b # METRICS \/ k # handler[METRICS].msg
    <2>1. \A c \in Buses : c # b => task'[c] = task[c]
      BY <1>0, <1>2
    <2>2. QED
      BY <2>1, <1>0, <1>3, <1>4, OtherMessage
  <1>5. CASE b = METRICS /\ k = handler[METRICS].msg
    <2>1. Waits(k, d) /\ ToHandle(k) /\ task[METRICS].at # "ok"
      BY <1>3, <1>5, CarriesParts DEF UpToDate
    <2>2. ~ok /\ TaskAt(b, "error")
      BY <2>1, <1>1, <1>5 DEF TaskAt
    <2>3. CASE ShouldDeadLetter(handler[b].n)
      <3>1. Full(b) = stream[METRICS][k].full
        BY <1>0, <1>5 DEF Full
      <3>2. d \in DaysOf(Full(b))
        BY <2>1, <3>1 DEF Waits
      <3>3. QED
        BY <1>1, <1>5, <2>2, <2>3, <3>2
    <2>4. CASE ~ShouldDeadLetter(handler[b].n)
      <3>1. /\ stream'[METRICS][k].state \notin {"acked", "lost"} /\ stream'[METRICS][k].end = "none"
            /\ stream'[METRICS][k].delivered = stream[METRICS][k].delivered
        BY <1>3, <1>5, <2>1, <2>2 DEF Waits
      <3>2. k \in DOMAIN stream'[METRICS] /\ stream'[METRICS][k].full = stream[METRICS][k].full
        BY <1>3, <1>5, <2>1 DEF OnlyMessage, Waits
      <3>3. handler[METRICS].n # MaxDeliver
        BY <1>3, <1>5, <2>4
      <3>4. Waits(k, d)'
        BY <2>1, <3>1, <3>2 DEF Waits
      <3>5. ToHandle(k)'
        BY <2>1, <3>1, <3>3, <1>3 DEF ToHandle
      <3>6. UpToDate(k, v)'
        BY <1>3, <1>5 DEF UpToDate
      <3>7. QED
        BY <3>4, <3>5, <3>6 DEF Carries, Waits, ToHandle, UpToDate
    <2>5. QED
      BY <2>3, <2>4
  <1>6. QED
    BY <1>4, <1>5

\* The message whose last delivery has failed is behind already.
LEMMA DeadLetterCovers ==
  ASSUME BusInv, UNCHANGED task, NEW b \in Buses, DeadLetter(b), NEW k, NEW d, NEW v, Carries(k, d, v)
  PROVE  Carries(k, d, v)'
  <1>1. /\ OnlyMessage(b, handler[b].msg)
        /\ handler[b].at = "failed" /\ handler'[b].at = "idle" /\ queue' = queue
        /\ \A c \in Buses : c # b => handler'[c] = handler[c]
    BY DeadLetterKeeps
  <1>2. CASE b # METRICS \/ k # handler[METRICS].msg
    BY <1>1, <1>2, OtherMessage
  <1>3. CASE b = METRICS /\ k = handler[METRICS].msg
    <2>1. handler[METRICS].n = MaxDeliver /\ Made(METRICS, handler[METRICS])
      BY <1>1, <1>3 DEF BusInv, FailedWasLast, HandsMade
    <2>2. stream[METRICS][k] \in Message
      BY <1>3, <2>1 DEF Made, BusInv, BusShape
    <2>3. ~(stream[METRICS][k].delivered < MaxDeliver)
      BY <1>3, <2>1, <2>2, MessageTyped, BusAssumption DEF Made
    <2>4. \A q \in DOMAIN queue[METRICS] : ~(queue[METRICS][q].msg = k /\ queue[METRICS][q].n = MaxDeliver)
      BY <1>1, <1>3, <2>1 DEF BusInv, HandsOnce, Same
    <2>5. ToHandle(k)
      BY CarriesParts
    <2>6. QED
      BY <1>1, <1>3, <2>3, <2>4, <2>5 DEF ToHandle
  <1>4. QED
    BY <1>2, <1>3

LEMMA ServerCovers ==
  ASSUME BusInv, UNCHANGED task, NEW b \in Buses, NEW i \in 1 .. MaxMessages, Deliver(b, i) \/ AckExpires(b, i),
         NEW k, NEW d, NEW v, Carries(k, d, v)
  PROVE  Carries(k, d, v)'
  <1>1. /\ k \in DOMAIN stream[METRICS] /\ Waits(k, d) /\ ToHandle(k) /\ UpToDate(k, v)
    BY CarriesParts DEF Waits
  <1>2. OnlyMessage(b, i) /\ UNCHANGED handler
    BY DeliverKeeps, AckExpiresKeeps DEF Deliver, AckExpires
  <1>3. UpToDate(k, v)'
    BY <1>1, <1>2 DEF UpToDate
  <1>4. k \in DOMAIN stream'[METRICS] /\ stream'[METRICS][k].full = stream[METRICS][k].full
        /\ (b # METRICS \/ k # i => stream'[METRICS][k] = stream[METRICS][k])
    BY <1>1, <1>2, MetricsIsBus DEF OnlyMessage
  <1>5. CASE Deliver(b, i)
    <2>1. /\ stream[b][i].delivered < MaxDeliver /\ stream[b][i].delivered \in Nat
          /\ stream'[b][i].state = "out" /\ stream'[b][i].delivered = stream[b][i].delivered + 1
          /\ stream'[b][i].end = stream[b][i].end
          /\ Len(queue[b]) + 1 \in DOMAIN queue'[b]
          /\ queue'[b][Len(queue[b]) + 1] = [msg |-> i, n |-> stream[b][i].delivered + 1]
          /\ \A c \in Buses : \A q \in DOMAIN queue[c] :
               q \in DOMAIN queue'[c] /\ queue'[c][q] = queue[c][q]
      BY <1>5, DeliverKeeps
    <2>2. Waits(k, d)'
      BY <1>1, <1>4, <2>1 DEF Waits
    <2>3. ToHandle(k)'
      <3>1. CASE b = METRICS /\ k = i
        <4>1. CASE stream[b][i].delivered + 1 < MaxDeliver
          BY <3>1, <4>1, <2>1 DEF ToHandle
        <4>2. CASE ~(stream[b][i].delivered + 1 < MaxDeliver)
          <5>1. stream[b][i].delivered + 1 = MaxDeliver
            BY <4>2, <2>1, BusAssumption
          <5>2. QED
            BY <5>1, <3>1, <2>1 DEF ToHandle
        <4>3. QED
          BY <4>1, <4>2
      <3>2. CASE b # METRICS \/ k # i
        BY <3>2, <1>1, <1>2, <1>4, <2>1, MetricsIsBus DEF ToHandle
      <3>3. QED
        BY <3>1, <3>2
    <2>4. QED
      BY <1>3, <2>2, <2>3 DEF Carries, Waits, ToHandle, UpToDate
  <1>6. CASE AckExpires(b, i)
    <2>0. UNCHANGED queue
      BY <1>6 DEF AckExpires
    <2>1. /\ stream'[b][i].delivered = stream[b][i].delivered /\ stream'[b][i].state = "ready"
          /\ stream'[b][i].end = stream[b][i].end
      BY <1>6, AckExpiresKeeps
    <2>2. Waits(k, d)'
      BY <1>1, <1>4, <2>0, <2>1 DEF Waits
    <2>3. ToHandle(k)'
      <3>1. stream'[METRICS][k].delivered = stream[METRICS][k].delivered
        BY <1>4, <2>1
      <3>2. QED
        BY <1>1, <1>2, <2>0, <3>1 DEF ToHandle
    <2>4. QED
      BY <1>3, <2>2, <2>3 DEF Carries, Waits, ToHandle, UpToDate
  <1>7. QED
    BY <1>5, <1>6

\* A restart leaves behind what it takes out of hand.
LEMMA RestartCovers ==
  ASSUME BusInv, Restart, NEW k, NEW d, NEW v, Carries(k, d, v)
  PROVE  Carries(k, d, v)' \/ d \in behind'
  <1>1. /\ UNCHANGED stream /\ handler' = [b \in Buses |-> Idle]
        /\ behind' = behind \cup DaysLost({i \in DOMAIN stream[METRICS] :
                                Exhausted(METRICS, i) /\ InHand(METRICS, i)})
    BY Zenon DEF Restart, ConsumersStop
  <1>2. handler'[METRICS].at = "idle"
    BY <1>1, MetricsIsBus DEF Idle
  <1>3. Waits(k, d) /\ ToHandle(k)
    BY CarriesParts
  <1>4. CASE stream[METRICS][k].delivered < MaxDeliver
    BY <1>1, <1>2, <1>3, <1>4 DEF Carries, Waits
  <1>5. CASE ~(stream[METRICS][k].delivered < MaxDeliver)
    <2>1. stream[METRICS][k] \in Message
      BY <1>3, MetricsIsBus DEF Waits, BusInv, BusShape
    <2>2. Exhausted(METRICS, k)
      BY <1>5, <2>1, MessageTyped, BusAssumption DEF Exhausted
    <2>3. InHand(METRICS, k)
      BY <1>3, <1>5 DEF ToHandle, InHand, Queued
    <2>4. d \in DaysOf(stream[METRICS][k].full) /\ k \in DOMAIN stream[METRICS]
      BY <1>3 DEF Waits
    <2>5. QED
      BY <1>1, <2>2, <2>3, <2>4 DEF DaysLost
  <1>6. QED
    BY <1>4, <1>5

\* So does a stop, with what is lost with the durable consumer.
LEMMA StopCovers ==
  ASSUME BusInv, NEW b \in Buses, NEW deleted \in BOOLEAN, Stop(b, deleted), NEW k, NEW d, NEW v, Carries(k, d, v)
  PROVE  Carries(k, d, v)' \/ d \in behind'
  <1>0. Drain(b, deleted) /\ UNCHANGED <<handler, task>>
    BY DrainKeeps DEF Stop
  <1>1. /\ \A c \in Buses : c # b => queue'[c] = queue[c] /\ stream'[c] = stream[c]
        /\ DOMAIN stream'[METRICS] = DOMAIN stream[METRICS]
        /\ \A i \in DOMAIN stream[METRICS] :
             /\ stream'[METRICS][i].full = stream[METRICS][i].full /\ stream'[METRICS][i].end = stream[METRICS][i].end
             /\ stream'[METRICS][i].delivered = stream[METRICS][i].delivered
             /\ stream'[METRICS][i].state = stream[METRICS][i].state \/ (deleted /\ stream[METRICS][i].state # "acked")
    BY <1>0, DrainKeeps, MetricsIsBus
  <1>2. Waits(k, d) /\ ToHandle(k) /\ UpToDate(k, v) /\ k \in DOMAIN stream[METRICS]
    BY CarriesParts DEF Waits
  <1>3. CASE b # METRICS
    BY <1>0, <1>1, <1>2, <1>3, CarriesKept, MetricsIsBus
  <1>4. CASE b = METRICS
    <2> DEFINE Lost(i) ==
                 \/ deleted /\ stream[METRICS][i].state # "acked" /\ stream[METRICS][i].end = "none"
                 \/ Exhausted(METRICS, i) /\ Queued(METRICS, i)
    <2>1. behind' = behind \cup DaysLost({i \in DOMAIN stream[METRICS] : Lost(i)})
      BY <1>4 DEF Stop
    <2>2. CASE Lost(k)
      BY <2>1, <2>2, <1>2 DEF DaysLost, Waits
    <2>3. CASE ~Lost(k)
      <3>1. stream'[METRICS][k].state = stream[METRICS][k].state
        BY <2>3, <1>1, <1>2 DEF Waits
      <3>2. Waits(k, d)'
        BY <3>1, <1>1, <1>2 DEF Waits
      <3>3. ToHandle(k)'
        <4>1. CASE stream[METRICS][k].delivered < MaxDeliver
          BY <4>1, <1>1, <1>2 DEF ToHandle
        <4>2. CASE ~(stream[METRICS][k].delivered < MaxDeliver)
          <5>1. stream[METRICS][k] \in Message
            BY <1>2, MetricsIsBus DEF BusInv, BusShape
          <5>2. Exhausted(METRICS, k)
            BY <4>2, <5>1, MessageTyped, BusAssumption DEF Exhausted
          <5>3. ~Queued(METRICS, k)
            BY <5>2, <2>3
          <5>4. handler[METRICS].at = "work" /\ handler[METRICS].msg = k /\ handler[METRICS].n = MaxDeliver
            BY <4>2, <5>3, <1>2 DEF ToHandle, Queued
          <5>5. QED
            BY <5>4, <1>0 DEF ToHandle
        <4>3. QED
          BY <4>1, <4>2
      <3>4. UpToDate(k, v)'
        BY <1>0, <1>2 DEF UpToDate
      <3>5. QED
        BY <3>2, <3>3, <3>4 DEF Carries, Waits, ToHandle, UpToDate
    <2>4. QED
      BY <2>2, <2>3
  <1>5. QED
    BY <1>3, <1>4

-----------------------------------------------------------------------------
(* Types, with the length of the streams.                                     *)

LEMMA TasksAlways == Spec => [](TasksBelong /\ VersionsInv)
  <1>1. Init => TasksBelong /\ VersionsInv
    BY TasksInit, VersionsInit
  <1>2. TypeInv /\ (TasksBelong /\ VersionsInv) /\ [Next]_vars => (TasksBelong /\ VersionsInv)'
    <2>1. CASE UNCHANGED vars
      BY <2>1 DEF TasksBelong, VersionsInv, VersionsBehind, AloneIsNewest, Calculating, TaskAt, vars
    <2>2. QED
      BY <2>1, TasksStep, VersionsStep DEF Next, VersionsInv
  <1>3. QED
    BY <1>1, <1>2, TypeInvAlways, PTL DEF Spec

LEMMA MessagesAlways == Spec => []MessagesCounted
  <1>1. TypeInv /\ TasksBelong /\ MessagesCounted /\ [Next]_vars => MessagesCounted'
    <2>1. CASE UNCHANGED vars
      BY <2>1 DEF MessagesCounted, ToPublish, vars
    <2>2. QED
      BY <2>1, MessagesStep DEF Next
  <1>2. QED
    BY <1>1, MessagesInit, TypeInvAlways, TasksAlways, PTL DEF Spec

\* Only Run and the end of the process change the durable consumers and the subscriptions.
LEMMA ConsumerStepFrame ==
  ASSUME Types, Step
  PROVE  UNCHANGED consumer \/ Restart \/ \E b \in Buses : RunStep(b)
  <1>1. ASSUME NEW j \in Jobs, Persist(j) \/ PublishMetrics(j) \/ PublishInsights(j) \/ Returned(j)
        PROVE  UNCHANGED consumer
    BY <1>1, Zenon DEF Persist, PublishMetrics, PublishInsights, Returned, busVars
  <1>2. ASSUME NEW b, NEW i, ConsumerStep(b) \/ ServerStep(b, i)
        PROVE  UNCHANGED consumer
    BY <1>2, Zenon DEF ConsumerStep, ServerStep, Consume, Take, Consumed, Finish, Answer, DeadLetter,
      Deliver, AckExpires
  <1>3. ASSUME NEW w \in Workers, TaskStep(w)
        PROVE  UNCHANGED consumer
    BY <1>3, Zenon DEF TaskStep, BuildDailyMetrics, UpsertMetricsDaily, LoadInsights, ReopenInsight,
      KeepOpen, TaskFails, busVars
  <1>4. ASSUME (\E status \in {"open", "reviewed", "dismissed"} : Decide(status)) \/ Detect
        PROVE  UNCHANGED consumer
    BY <1>4, Zenon DEF Decide, Detect, busVars
  <1>5. \A b \in open : b \in Buses
    BY DEF Types
  <1>6. QED
    BY <1>1, <1>2, <1>3, <1>4, <1>5, Zenon DEF Step

LEMMA ConsumerAlways == Spec => [](consumer \in [Buses -> Consumer])
  <1>1. Init => consumer \in [Buses -> Consumer]
    BY DEF Init, BusInit, Consumer
  <1>2. ASSUME TypeInv, consumer \in [Buses -> Consumer], Step
        PROVE  consumer' \in [Buses -> Consumer]
    <2>1. ASSUME NEW b \in Buses, RunStep(b)
          PROVE  consumer' \in [Buses -> Consumer]
      <3>1. PICK old \in Consumer : old = consumer[b]
        BY <1>2
      <3>2. \E durable \in {"none", "left", "made"}, sub \in {"on", "failed", "drained"} :
              consumer' = [consumer EXCEPT ![b] = [durable |-> durable, sub |-> sub]]
        BY <2>1, <3>1 DEF RunStep, Subscribe, SubscribeFails, Stop, Drain, Consumer
      <3>3. QED
        BY <3>2, <1>2 DEF Consumer
    <2>2. CASE Restart
      BY <2>2 DEF Restart, ConsumersStop, Consumer
    <2>3. QED
      BY <1>2, <2>1, <2>2, ConsumerStepFrame DEF TypeInv
  <1>3. TypeInv /\ consumer \in [Buses -> Consumer] /\ [Next]_vars => (consumer \in [Buses -> Consumer])'
    BY <1>2 DEF Next, vars
  <1>4. QED
    BY <1>1, <1>3, TypeInvAlways, PTL DEF Spec

\* The types of the run: one calculation or refresh at a time by each worker, and no more
\* messages in a stream than runs, so that a delivery names a message.
THEOREM TypeCorrect == Spec => []TypeOK
  <1>1. ASSUME TypeInv, TasksBelong, MessagesCounted, consumer \in [Buses -> Consumer]
        PROVE  TypeOK
    <2>1. ASSUME NEW b \in Buses
          PROVE  Len(stream[b]) <= MaxMessages
      <3>1. Len(stream[b]) + Cardinality(ToPublish(b)) <= data
        BY <1>1 DEF MessagesCounted
      <3>2. /\ Len(stream[b]) \in Nat /\ Cardinality(ToPublish(b)) \in Nat
            /\ data \in Nat /\ data <= MaxRuns /\ MaxRuns \in Nat
        BY <1>1, ToPublishFinite, BusAssumption DEF TypeInv, Types, BusInv, BusShape
      <3>3. QED
        BY <3>1, <3>2 DEF MaxMessages
    <2>2. /\ \A b \in Buses : stream[b] \in Seq(Message)
          /\ \A b \in Buses : queue[b] \in Seq(Delivery)
          /\ \A b \in Buses : handler[b].at \in {"idle", "work", "failed"}
      BY <1>1 DEF TypeInv, BusInv, BusShape, Handler
    <2>3. BusTypeOK
      BY <1>1, <2>1, <2>2 DEF BusTypeOK, TypeInv, Types
    <2>4. \A w \in Buses : task[w].at # "idle" => handler[w].at = "work"
      BY <1>1 DEF TasksBelong
    <2>5. QED
      BY <1>1, <2>3, <2>4 DEF TypeOK, TypeInv, Types, InsightTypes
  <1>2. QED
    BY <1>1, TypeInvAlways, TasksAlways, MessagesAlways, ConsumerAlways, PTL

-----------------------------------------------------------------------------
(* What is covered stays covered.                                             *)

LEMMA StillCovered ==
  ASSUME NEW d \in Days, NEW v, Covered(d, v),
         d \in behind => d \in behind', metrics'[d] = metrics[d],
         \A k \in Nat : Carries(k, d, v) => Carries(k, d, v)' \/ d \in behind'
  PROVE  Covered(d, v)'
  <1>1. CASE \E k \in Nat : Carries(k, d, v)
    <2>1. PICK k \in Nat : Carries(k, d, v)
      BY <1>1
    <2>2. CASE Carries(k, d, v)'
      BY <2>2 DEF Covered
    <2>3. QED
      BY <2>1, <2>2 DEF Covered
  <1>2. CASE ~\E k \in Nat : Carries(k, d, v)
    BY <1>2 DEF Covered
  <1>3. QED
    BY <1>1, <1>2

\* A calculation for a message sees the data of now.
LEMMA BuildCovers ==
  ASSUME CoverAssumptions, NEW w \in Workers, BuildDailyMetrics(w),
         NEW k, NEW d, NEW v \in Nat, v <= data, Carries(k, d, v)
  PROVE  Carries(k, d, v)'
  <1>1. UNCHANGED busVars
    BY Zenon DEF BuildDailyMetrics
  <1>2. /\ task'[w].at = "upsert" /\ task'[w].seen = data
        /\ \A u \in Workers : u # w => task'[u].at = task[u].at /\ task'[u].seen = task[u].seen
    BY BuildTask DEF CoverAssumptions, TypeInv
  <1>3. CASE w = METRICS
    BY <1>1, <1>2, <1>3 DEF Carries, busVars
  <1>4. CASE w # METRICS
    <2>1. k \in DOMAIN stream[METRICS]
      BY DEF Carries
    <2>2. QED
      BY <2>1, <1>1, <1>2, <1>4, CarriesKept, MetricsIsBus DEF busVars
  <1>5. QED
    BY <1>3, <1>4

\* One that fails is repeated, or was the last.
LEMMA WorkCovers ==
  ASSUME CoverAssumptions, NEW w \in Workers, LoadInsights(w) \/ ReopenInsight(w) \/ KeepOpen(w) \/ TaskFails(w),
         NEW k, NEW d, NEW v, Carries(k, d, v)
  PROVE  Carries(k, d, v)'
  <1>0. Types /\ InsightTypes /\ TasksBelong
    BY DEF CoverAssumptions, TypeInv
  <1>1. UNCHANGED busVars /\ k \in DOMAIN stream[METRICS]
    BY Zenon DEF LoadInsights, ReopenInsight, KeepOpen, TaskFails, Carries
  <1>2. \A u \in Workers : u # w => task'[u] = task[u]
    <2>1. CASE KeepOpen(w)
      BY <2>1, <1>0, KeepOpenRow, AtSet
    <2>2. QED
      BY <2>1, <1>0, LoadTask, ReopenTask, FailTask
  <1>3. CASE w # METRICS
    BY <1>1, <1>2, <1>3, CarriesKept, MetricsIsBus DEF busVars
  <1>4. CASE w = METRICS
    <2>1. ASSUME ~TaskFails(w)
          PROVE  FALSE
      <3>1. task[w].at \in {"reopen", "open"} \/ LoadInsights(w)
        BY <2>1, Zenon DEF ReopenInsight, KeepOpen, TaskAt
      <3>2. QED
        BY <3>1, <1>0, <1>4, InsightWorker
    <2>2. task'[METRICS].at = "error"
      BY <2>1, <1>0, <1>4, FailTask, MetricsIsBus
    <2>3. QED
      BY <2>2, <1>1 DEF Carries, busVars
  <1>5. QED
    BY <1>3, <1>4

\* A batch: of those under way together none is trusted, one by itself is the newest.
LEMMA WriteCovers ==
  ASSUME CoverAssumptions, NEW w \in Workers, UpsertMetricsDaily(w),
         NEW d \in Days, NEW v \in Nat, v <= data, Covered(d, v)
  PROVE  Covered(d, v)'
  <1>0. Types /\ TasksBelong /\ AloneIsNewest
    BY DEF CoverAssumptions, TypeInv, VersionsInv
  <1>1. /\ Calculating(w) /\ \E at \in {"ok", "error"} : task' = [task EXCEPT ![w].at = at]
        /\ metrics' = [e \in Days |-> IF e \in DaysOf(task[w].full) THEN task[w].seen ELSE metrics[e]]
        /\ behind' = IF task[w].shared THEN behind \cup DaysOf(task[w].full)
                     ELSE IF task[w].seen = data THEN behind \ DaysOf(task[w].full) ELSE behind
        /\ UNCHANGED busVars
    BY DEF UpsertMetricsDaily
  <1>2. task'[w].at \in {"ok", "error"} /\ \A u \in Workers : u # w => task'[u] = task[u]
    BY <1>0, <1>1, AtSet
  <1>3. task[w].seen \in Nat /\ metrics[d] \in Nat /\ data \in Nat
    BY <1>0, VersionsTyped
  <1>4. CASE d \in DaysOf(task[w].full)
    <2>1. CASE task[w].shared
      BY <2>1, <1>1, <1>4 DEF Covered
    <2>2. CASE ~task[w].shared /\ task[w].seen = data
      BY <2>2, <1>1, <1>3, <1>4 DEF Covered
    <2>3. CASE ~task[w].shared /\ task[w].seen # data
      <3>1. metrics[d] <= task[w].seen /\ behind' = behind /\ metrics'[d] = task[w].seen
        BY <2>3, <1>0, <1>1, <1>4 DEF AloneIsNewest
      <3>2. CASE d \in behind \/ metrics[d] >= v
        BY <3>1, <3>2, <1>3 DEF Covered
      <3>3. ASSUME NEW k \in Nat, Carries(k, d, v)
            PROVE  Covered(d, v)'
        <4>1. CASE w = METRICS /\ handler[METRICS].at = "work" /\ handler[METRICS].msg = k
          <5>1. task[METRICS].seen >= v
            BY <4>1, <3>3, <1>1 DEF Carries, Calculating, TaskAt
          <5>2. QED
            BY <5>1, <4>1, <3>1 DEF Covered
        <4>2. CASE w = METRICS /\ ~(handler[METRICS].at = "work" /\ handler[METRICS].msg = k)
          <5>1. Carries(k, d, v)'
            BY <4>2, <3>3, <1>1 DEF Carries, busVars
          <5>2. QED
            BY <5>1 DEF Covered
        <4>3. CASE w # METRICS
          <5>1. Carries(k, d, v)'
            BY <4>3, <3>3, <1>1, <1>2, MetricsIsBus DEF Carries, busVars
          <5>2. QED
            BY <5>1 DEF Covered
        <4>4. QED
          BY <4>1, <4>2, <4>3
      <3>4. QED
        BY <3>2, <3>3 DEF Covered
    <2>4. QED
      BY <2>1, <2>2, <2>3
  <1>5. CASE d \notin DaysOf(task[w].full)
    <2>1. (d \in behind => d \in behind') /\ metrics'[d] = metrics[d]
      BY <1>1, <1>5
    <2>2. ASSUME NEW k \in Nat, Carries(k, d, v)
          PROVE  Carries(k, d, v)'
      <3>1. CASE w # METRICS
        BY <3>1, <2>2, <1>1, <1>2, MetricsIsBus DEF Carries, busVars
      <3>2. CASE w = METRICS
        <4>1. ~(handler[METRICS].at = "work" /\ handler[METRICS].msg = k)
          BY <3>2, <2>2, <1>0, <1>1, <1>5 DEF Carries, TasksBelong, Calculating, TaskAt
        <4>2. QED
          BY <4>1, <2>2, <1>1 DEF Carries, busVars
      <3>3. QED
        BY <3>1, <3>2
    <2>3. QED
      BY <2>1, <2>2, StillCovered
  <1>6. QED
    BY <1>4, <1>5

LEMMA CoveredStays ==
  ASSUME CoverAssumptions, Step, NEW d \in Days, NEW v \in Nat, v <= data, Covered(d, v)
  PROVE  Covered(d, v)'
  <1>0. TypeInv /\ BusInv /\ Types /\ InsightTypes /\ open \subseteq Buses
    BY DEF CoverAssumptions, TypeInv, Types
  <1>1. ASSUME UNCHANGED <<busVars, metrics, behind>>, task'[METRICS] = task[METRICS]
        PROVE  Covered(d, v)'
    <2>1. ASSUME NEW k \in Nat, Carries(k, d, v)
          PROVE  Carries(k, d, v)'
      <3>1. k \in DOMAIN stream[METRICS]
        BY <2>1 DEF Carries
      <3>2. QED
        BY <3>1, <2>1, <1>1, CarriesKept DEF busVars
    <2>2. QED
      BY <2>1, <1>1, StillCovered
  <1>2. ASSUME NEW j \in Jobs, Persist(j) \/ Returned(j)
        PROVE  Covered(d, v)'
    <2>1. UNCHANGED <<busVars, metrics, behind>> /\ (UNCHANGED task \/ TaskSet(j, NoTask))
      BY <1>2, Zenon DEF Persist, Returned, TaskSet
    <2>2. j \in Workers /\ j # METRICS
      BY MetricsIsBus DEF Workers
    <2>3. task'[METRICS] = task[METRICS]
      BY <2>1, <2>2, <1>0, TaskSetTyped, NoTaskTyped, MetricsIsBus
    <2>4. QED
      BY <2>1, <2>3, <1>1
  <1>3. ASSUME NEW j \in Jobs, PublishMetrics(j) \/ PublishInsights(j)
        PROVE  Covered(d, v)'
    <2>1. UNCHANGED metrics /\ (behind' = behind \/ behind' = behind \cup DaysOf(runner[j].full))
      BY <1>3, Zenon DEF PublishMetrics, PublishInsights, Unconsumed
    <2>2. \A k \in Nat : Carries(k, d, v) => Carries(k, d, v)'
      BY <1>0, <1>3, PublishCovers
    <2>3. QED
      BY <2>1, <2>2, StillCovered
  <1>4. ASSUME NEW b \in Buses, Consume(b)
        PROVE  Covered(d, v)'
    <2>1. UNCHANGED <<metrics, behind>>
      BY <1>4, Zenon DEF Consume, pipeVars
    <2>2. \A k \in Nat : Carries(k, d, v) => Carries(k, d, v)'
      BY <1>4, ConsumeCovers
    <2>3. QED
      BY <2>1, <2>2, StillCovered
  <1>5. ASSUME NEW b \in Buses, Consumed(b)
        PROVE  Covered(d, v)'
    <2>1. UNCHANGED metrics /\ (behind' = behind \/ behind' = behind \cup DaysOf(Full(b)))
      BY <1>5, Zenon DEF Consumed
    <2>2. \A k \in Nat : Carries(k, d, v) => Carries(k, d, v)' \/ d \in behind'
      BY <1>5, ConsumedCovers
    <2>3. QED
      BY <2>1, <2>2, StillCovered
  <1>6. ASSUME NEW b \in Buses, DeadLetter(b), UNCHANGED <<pipeVars, task>>
        PROVE  Covered(d, v)'
    <2>1. UNCHANGED <<metrics, behind>>
      BY <1>6, Zenon DEF pipeVars
    <2>2. \A k \in Nat : Carries(k, d, v) => Carries(k, d, v)'
      BY <1>0, <1>6, DeadLetterCovers
    <2>3. QED
      BY <2>1, <2>2, StillCovered
  <1>7. ASSUME NEW b \in Buses, NEW i \in 1 .. MaxMessages, ServerStep(b, i)
        PROVE  Covered(d, v)'
    <2>1. UNCHANGED <<metrics, behind, task>> /\ (Deliver(b, i) \/ AckExpires(b, i))
      BY <1>7, Zenon DEF ServerStep, pipeVars
    <2>2. \A k \in Nat : Carries(k, d, v) => Carries(k, d, v)'
      BY <1>0, <2>1, ServerCovers
    <2>3. QED
      BY <2>1, <2>2, StillCovered
  <1>8. ASSUME NEW w \in Workers, TaskStep(w)
        PROVE  Covered(d, v)'
    <2>1. CASE UpsertMetricsDaily(w)
      BY <2>1, WriteCovers
    <2>2. CASE BuildDailyMetrics(w)
      <3>1. UNCHANGED <<metrics, behind>>
        BY <2>2, Zenon DEF BuildDailyMetrics, pipeVars
      <3>2. \A k \in Nat : Carries(k, d, v) => Carries(k, d, v)'
        BY <2>2, BuildCovers
      <3>3. QED
        BY <3>1, <3>2, StillCovered
    <2>3. CASE LoadInsights(w) \/ ReopenInsight(w) \/ KeepOpen(w) \/ TaskFails(w)
      <3>1. UNCHANGED <<metrics, behind>>
        BY <2>3, Zenon DEF LoadInsights, ReopenInsight, KeepOpen, TaskFails, pipeVars
      <3>2. \A k \in Nat : Carries(k, d, v) => Carries(k, d, v)'
        BY <2>3, WorkCovers
      <3>3. QED
        BY <3>1, <3>2, StillCovered
    <2>4. QED
      BY <1>8, <2>1, <2>2, <2>3 DEF TaskStep
  <1>9. ASSUME (\E status \in {"open", "reviewed", "dismissed"} : Decide(status)) \/ Detect
        PROVE  Covered(d, v)'
    <2>1. UNCHANGED <<busVars, metrics, behind, task>>
      BY <1>9, Zenon DEF Decide, Detect, pipeVars
    <2>2. QED
      BY <2>1, <1>1
  <1>10. CASE Restart
    <2>1. UNCHANGED metrics /\ (d \in behind => d \in behind')
      BY <1>10, Zenon DEF Restart
    <2>2. \A k \in Nat : Carries(k, d, v) => Carries(k, d, v)' \/ d \in behind'
      BY <1>0, <1>10, RestartCovers
    <2>3. QED
      BY <2>1, <2>2, StillCovered
  <1>11. ASSUME NEW b \in open, ConsumerStep(b) \/ \E i \in 1 .. MaxMessages : ServerStep(b, i)
         PROVE  Covered(d, v)'
    <2>1. b \in Buses
      BY <1>0
    <2>2. Consume(b) \/ Consumed(b) \/ (DeadLetter(b) /\ UNCHANGED <<pipeVars, task>>)
          \/ \E i \in 1 .. MaxMessages : ServerStep(b, i)
      BY <1>11, Zenon DEF ConsumerStep
    <2>3. QED
      BY <2>1, <2>2, <1>4, <1>5, <1>6, <1>7
  <1>12. ASSUME NEW b \in open, RunStep(b)
         PROVE  Covered(d, v)'
    <2>1. b \in Buses /\ UNCHANGED <<handler, metrics, task>>
      BY <1>0, <1>12, RunFrame
    <2>2. CASE UNCHANGED <<stream, queue, behind>>
      <3>1. \A k \in Nat : Carries(k, d, v) => Carries(k, d, v)'
        BY <2>1, <2>2 DEF Carries
      <3>2. QED
        BY <2>1, <2>2, <3>1, StillCovered
    <2>3. ASSUME NEW deleted \in BOOLEAN, Stop(b, deleted)
          PROVE  Covered(d, v)'
      <3>1. d \in behind => d \in behind'
        BY <2>3 DEF Stop
      <3>2. \A k \in Nat : Carries(k, d, v) => Carries(k, d, v)' \/ d \in behind'
        BY <2>1, <2>3, <1>0, StopCovers
      <3>3. QED
        BY <2>1, <3>1, <3>2, StillCovered
    <2>4. QED
      BY <2>2, <2>3, <1>12, RunFrame
  <1>13. QED
    BY <1>2, <1>3, <1>8, <1>9, <1>10, <1>11, <1>12, Zenon DEF Step

-----------------------------------------------------------------------------
(* What is stored is covered as soon as it is published or calculated.        *)

\* A batch for a job in line, and the event of a job.
CalculatesInLine(j) == UpsertMetricsDaily(j) /\ runner[j].at = "calculate"
Publishes(j) == PublishMetrics(j) /\ Goto(j, "insights")

LEMMA CalculatedFrame ==
  ASSUME CoverAssumptions, Step
  PROVE  \A j \in Jobs : Calculated(j)' =>
           /\ Calculated(j) \/ Publishes(j) \/ CalculatesInLine(j)
           /\ runner'[j].full = runner[j].full /\ runner'[j].stored = runner[j].stored
  <1>0. TypeInv /\ BusInv /\ Types /\ InsightTypes /\ TasksBelong /\ open \subseteq Buses
    BY DEF CoverAssumptions, TypeInv, Types
  <1>a. \A j \in Jobs : j \in Workers /\ j \notin Buses
    BY PipelineAssumption DEF Workers
  <1>b. \A b \in Buses : b \in Workers
    BY DEF Workers
  <1> DEFINE P(i) == Calculated(i)' =>
               /\ Calculated(i) \/ Publishes(i) \/ CalculatesInLine(i)
               /\ runner'[i].full = runner[i].full /\ runner'[i].stored = runner[i].stored
  <1>1. ASSUME NEW i \in Jobs, runner'[i] = runner[i], task'[i] = task[i]
        PROVE  P(i)
    BY <1>1 DEF Calculated
  <1>2. ASSUME NEW j \in Jobs, Persist(j), NEW i \in Jobs
        PROVE  P(i)
    <2>1. UNCHANGED task /\ \E full : runner' = [runner EXCEPT ![j] = [at |-> "metrics", full |-> full, stored |-> data']]
      BY <1>2, Zenon DEF Persist
    <2>2. runner'[j].at = "metrics" /\ (i # j => runner'[i] = runner[i])
      BY <2>1, <1>0 DEF Types
    <2>3. CASE i = j
      BY <2>2, <2>3 DEF Calculated
    <2>4. CASE i # j
      BY <2>1, <2>2, <2>4, <1>1
    <2>5. QED
      BY <2>3, <2>4
  <1>3. ASSUME NEW j \in Jobs, PublishMetrics(j), NEW i \in Jobs
        PROVE  P(i)
    <2>1. UNCHANGED task /\ runner[j].at = "metrics" /\ (Goto(j, "insights") \/ Goto(j, "calculate"))
      BY <1>3, Zenon DEF PublishMetrics
    <2>2. task[j].at = "idle"
      BY <2>1, <1>0 DEF TasksBelong
    <2>3. CASE i # j
      BY <2>1, <2>3, <1>0, <1>1, GotoKeeps
    <2>4. CASE i = j /\ Goto(j, "insights")
      BY <2>4, <1>0, <1>3, GotoKeeps DEF Publishes
    <2>5. CASE i = j /\ Goto(j, "calculate")
      BY <2>1, <2>2, <2>5, <1>0, GotoKeeps DEF Calculated
    <2>6. QED
      BY <2>1, <2>3, <2>4, <2>5
  <1>4. ASSUME NEW j \in Jobs, PublishInsights(j), NEW i \in Jobs
        PROVE  P(i)
    <2>1. UNCHANGED task /\ runner[j].at = "insights" /\ \E at : Goto(j, at)
      BY <1>4, Zenon DEF PublishInsights, Completed
    <2>2. CASE i # j
      BY <2>1, <2>2, <1>0, <1>1, GotoKeeps
    <2>3. CASE i = j
      BY <2>1, <2>3, <1>0, GotoKeeps DEF Calculated
    <2>4. QED
      BY <2>2, <2>3
  <1>5. ASSUME NEW j \in Jobs, Returned(j), NEW i \in Jobs
        PROVE  P(i)
    <2>1. /\ task[j].at \in {"ok", "error"} /\ TaskSet(j, NoTask)
          /\ \/ TaskAt(j, "error") /\ Goto(j, "failed")
             \/ ~TaskAt(j, "error") /\ (Goto(j, "insights") \/ Goto(j, "done"))
      BY <1>5 DEF Returned, TaskSet, Completed
    <2>2. \A w \in Workers : w # j => task'[w] = task[w]
      BY <2>1, <1>0, <1>a, TaskSetTyped, NoTaskTyped
    <2>3. CASE i # j
      BY <2>1, <2>2, <2>3, <1>0, <1>a, <1>1, GotoKeeps
    <2>4. CASE i = j
      <3>1. runner[j].at \in {"calculate", "refresh"}
        BY <2>1, <1>0 DEF TasksBelong
      <3>2. CASE Goto(j, "failed") \/ Goto(j, "done")
        BY <3>2, <2>4, <1>0, GotoKeeps DEF Calculated
      <3>3. CASE ~TaskAt(j, "error") /\ Goto(j, "insights")
        BY <3>1, <3>3, <2>1, <2>4, <1>0, GotoKeeps DEF Calculated, TaskAt
      <3>4. QED
        BY <2>1, <3>2, <3>3
    <2>5. QED
      BY <2>3, <2>4
  <1>6. ASSUME NEW b \in open, RunStep(b) \/ ConsumerStep(b) \/ \E i \in 1 .. MaxMessages : ServerStep(b, i), NEW i \in Jobs
        PROVE  P(i)
    <2>1. UNCHANGED runner /\ (UNCHANGED task \/ TaskSet(b, NoTask))
      BY <1>6, RunFrame, Zenon DEF ConsumerStep, ServerStep, Consume, Consumed, TaskSet, pipeVars
    <2>2. b \in Workers /\ i \in Workers /\ i # b
      BY <1>0, <1>a, <1>b
    <2>3. QED
      BY <2>1, <2>2, <1>0, <1>1, TaskSetTyped, NoTaskTyped
  <1>7. ASSUME NEW w \in Workers, TaskStep(w), NEW i \in Jobs
        PROVE  P(i)
    <2>0. UNCHANGED runner
      BY <1>7, Zenon DEF TaskStep, BuildDailyMetrics, UpsertMetricsDaily, LoadInsights, ReopenInsight,
        KeepOpen, TaskFails, pipeVars
    <2>1. CASE i # w
      <3>1. task'[i].at = task[i].at
        <4>1. CASE BuildDailyMetrics(w)
          BY <4>1, <2>1, <1>0, <1>a, BuildTask
        <4>2. CASE UpsertMetricsDaily(w) \/ KeepOpen(w)
          <5>1. \E at \in {"ok", "error"} : task' = [task EXCEPT ![w].at = at]
            BY <4>2 DEF UpsertMetricsDaily, KeepOpen
          <5>2. QED
            BY <5>1, <2>1, <1>0, <1>a, AtSet
        <4>3. CASE LoadInsights(w) \/ ReopenInsight(w) \/ TaskFails(w)
          BY <4>3, <2>1, <1>0, <1>a, LoadTask, ReopenTask, FailTask
        <4>4. QED
          BY <4>1, <4>2, <4>3, <1>7 DEF TaskStep
      <3>2. QED
        BY <3>1, <2>0 DEF Calculated
    <2>2. CASE i = w /\ runner[i].at = "calculate"
      <3>1. CASE BuildDailyMetrics(w)
        BY <3>1, <2>0, <2>2, <1>0, BuildTask DEF Calculated
      <3>2. CASE UpsertMetricsDaily(w)
        BY <3>2, <2>0, <2>2 DEF CalculatesInLine
      <3>3. CASE LoadInsights(w) \/ ReopenInsight(w) \/ KeepOpen(w)
        <4>1. task[w].at \in {"reopen", "open"} \/ LoadInsights(w)
          BY <3>3, Zenon DEF ReopenInsight, KeepOpen, TaskAt
        <4>2. QED
          BY <4>1, <2>2, <1>0, InsightWorker
      <3>4. CASE TaskFails(w)
        BY <3>4, <2>0, <2>2, <1>0, FailTask, PipelineAssumption DEF Calculated
      <3>5. QED
        BY <3>1, <3>2, <3>3, <3>4, <1>7 DEF TaskStep
    <2>3. CASE runner[i].at # "calculate"
      BY <2>0, <2>3 DEF Calculated
    <2>4. QED
      BY <2>1, <2>2, <2>3
  <1>8. ASSUME (\E status \in {"open", "reviewed", "dismissed"} : Decide(status)) \/ Detect, NEW i \in Jobs
        PROVE  P(i)
    <2>1. UNCHANGED <<runner, task>>
      BY <1>8, Zenon DEF Decide, Detect, pipeVars
    <2>2. QED
      BY <2>1, <1>1
  <1>9. ASSUME Restart, NEW i \in Jobs
        PROVE  P(i)
    <2>1. runner' = [j \in Jobs |-> IF runner[j].at \in {"new", "done", "failed", "stopped"}
                                      THEN runner[j] ELSE [runner[j] EXCEPT !.at = "stopped"]]
      BY <1>9, Zenon DEF Restart
    <2>2. runner'[i].at \in {"new", "done", "failed", "stopped"}
      BY <2>1, <1>0 DEF Types, Runner
    <2>3. QED
      BY <2>2 DEF Calculated
  <1>10. QED
    BY <1>2, <1>3, <1>4, <1>5, <1>6, <1>7, <1>8, <1>9 DEF Step

\* Only what is calculated becomes due.
LEMMA DueFrame ==
  ASSUME CoverAssumptions, Step, NEW d \in Days
  PROVE  \/ due'[d] = due[d]
         \/ \E j \in Jobs : Calculated(j) /\ d \in DaysOf(runner[j].full) /\ due'[d] = runner[j].stored
  <1>0. Types /\ TasksBelong
    BY DEF CoverAssumptions, TypeInv
  <1>1. ASSUME NEW j \in Jobs, Completed(j), PublishInsights(j) \/ Returned(j)
        PROVE  Calculated(j)
    <2>1. CASE PublishInsights(j)
      BY <2>1, Zenon DEF PublishInsights, Calculated
    <2>2. CASE Returned(j)
      <3>1. task[j].at \in {"ok", "error"}
            /\ ((TaskAt(j, "error") /\ Goto(j, "failed"))
                \/ ~TaskAt(j, "error"))
        BY <2>2 DEF Returned
      <3>2. Goto(j, "done")
        BY <1>1 DEF Completed
      <3>3. task[j].at = "ok"
        BY <3>1, <3>2, <1>0, GotoKeeps DEF TaskAt
      <3>4. QED
        BY <3>3, <1>0 DEF TasksBelong, Calculated
    <2>3. QED
      BY <1>1, <2>1, <2>2
  <1>2. ASSUME NEW j \in Jobs, Persist(j)
        PROVE  UNCHANGED due
    BY <1>2, Zenon DEF Persist
  <1>3. UNCHANGED due \/ \E j \in Jobs : (PublishInsights(j) \/ Returned(j)) /\ Completed(j)
    BY <1>0, <1>2, JobsFrame
  <1>4. QED
    BY <1>0, <1>1, <1>3, CompletedDue

\* The event of a job carries what it has stored, or leaves its days behind.
LEMMA EventCovers ==
  ASSUME CoverAssumptions, NEW j \in Jobs, Publishes(j), NEW d \in DaysOf(runner[j].full), NEW v
  PROVE  Covered(d, v)'
  <1>0. BusInv /\ Types
    BY DEF CoverAssumptions, TypeInv
  <1>1. PICK f \in BOOLEAN : f = runner[j].full
    BY <1>0 DEF Types, Runner
  <1>2. \/ Stored(METRICS, j, f) /\ consumer[METRICS].durable # "none"
        \/ behind' = behind \cup DaysOf(f)
    <2>1. ASSUME Goto(j, "calculate")
          PROVE  FALSE
      BY <2>1, <1>0, GotoKeeps DEF Publishes
    <2>2. QED
      BY <2>1, <1>1, Zenon DEF Publishes, PublishMetrics, Unconsumed
  <1>3. CASE behind' = behind \cup DaysOf(f)
    BY <1>1, <1>3 DEF Covered
  <1>4. CASE Stored(METRICS, j, f) /\ consumer[METRICS].durable # "none"
    <2>1. UNCHANGED <<queue, handler>>
      BY Zenon DEF Publishes, PublishMetrics
    <2>2. PICK k : k = Len(stream[METRICS]) + 1
      OBVIOUS
    <2>3. /\ k \in DOMAIN stream'[METRICS]
          /\ stream'[METRICS][k] = [job |-> j, full |-> f, state |-> "ready", delivered |-> 0, end |-> "none"]
      BY <2>1, <2>2, <1>0, <1>4, StoredKeeps, MetricsIsBus
    <2>4. k \in Nat /\ k \notin DOMAIN stream[METRICS]
      BY <2>2, <1>0, MetricsIsBus DEF BusInv, BusShape
    <2>5. ~(handler'[METRICS].at = "work" /\ handler'[METRICS].msg = k)
      BY <2>1, <2>4, <1>0, MetricsIsBus DEF BusInv, HandsMade, Made
    <2>6. 0 < MaxDeliver
      BY BusAssumption
    <2>7. Carries(k, d, v)'
      BY <2>3, <2>5, <2>6, <1>1 DEF Carries
    <2>8. QED
      BY <2>4, <2>7 DEF Covered
  <1>5. QED
    BY <1>2, <1>3, <1>4

LEMMA InLineCovers ==
  ASSUME CoverAssumptions, NEW j \in Jobs, CalculatesInLine(j), NEW d \in Days, d \in DaysOf(runner[j].full)
  PROVE  Covered(d, runner[j].stored)'
  <1>0. Types /\ TasksBelong
    BY DEF CoverAssumptions, TypeInv
  <1>1. /\ Calculating(j) /\ UNCHANGED runner
        /\ metrics' = [e \in Days |-> IF e \in DaysOf(task[j].full) THEN task[j].seen ELSE metrics[e]]
    BY Zenon DEF CalculatesInLine, UpsertMetricsDaily
  <1>2. task[j].full = runner[j].full /\ task[j].seen >= runner[j].stored
    BY <1>0, <1>1 DEF TasksBelong, CalculatesInLine, Calculating, TaskAt
  <1>3. metrics'[d] >= runner'[j].stored
    BY <1>1, <1>2
  <1>4. QED
    BY <1>1, <1>3 DEF Covered

LEMMA CoverInit == Init => CoverInv
  <1> SUFFICES ASSUME Init PROVE CoverInv
    OBVIOUS
  <1>1. \A d \in Days : metrics[d] >= due[d]
    BY DEF Init
  <1>2. \A j \in Jobs : runner[j].at = "new"
    BY DEF Init
  <1>3. QED
    BY <1>1, <1>2 DEF CoverInv, Covered, Calculated

LEMMA CoverStep ==
  ASSUME CoverAssumptions, CoverInv, Step
  PROVE  CoverInv'
  <1>0. Types
    BY DEF CoverAssumptions, TypeInv
  <1>1. /\ \A d \in Days : due[d] \in Nat /\ due[d] <= data
        /\ \A j \in Jobs : runner[j].stored \in Nat /\ runner[j].stored <= data
    BY <1>0, VersionsTyped DEF CoverAssumptions, VersionsInv, VersionsBehind
  <1>2. ASSUME NEW j \in Jobs, Calculated(j), NEW d \in Days, d \in DaysOf(runner[j].full),
               NEW n, n = runner[j].stored
        PROVE  Covered(d, n)'
    <2>1. Covered(d, n) /\ n \in Nat /\ n <= data
      BY <1>1, <1>2 DEF CoverInv
    <2>2. QED
      BY <2>1, CoveredStays
  <1>3. ASSUME NEW d \in Days
        PROVE  Covered(d, due[d])'
    <2>1. PICK n : n = due'[d]
      OBVIOUS
    <2>2. CASE n = due[d]
      <3>1. Covered(d, n) /\ n \in Nat /\ n <= data
        BY <2>2, <1>1 DEF CoverInv
      <3>2. Covered(d, n)'
        BY <3>1, CoveredStays
      <3>3. QED
        BY <2>1, <3>2 DEF Covered
    <2>3. ASSUME NEW j \in Jobs, Calculated(j), d \in DaysOf(runner[j].full), n = runner[j].stored
          PROVE  Covered(d, due[d])'
      <3>1. Covered(d, n)'
        BY <2>3, <1>2
      <3>2. QED
        BY <2>1, <3>1 DEF Covered
    <2>4. QED
      BY <2>1, <2>2, <2>3, DueFrame
  <1>4. ASSUME NEW j \in Jobs, Calculated(j)', NEW d \in DaysOf(runner'[j].full)
        PROVE  Covered(d, runner[j].stored)'
    <2>1. /\ Calculated(j) \/ Publishes(j) \/ CalculatesInLine(j)
          /\ runner'[j].full = runner[j].full /\ runner'[j].stored = runner[j].stored
      BY <1>4, CalculatedFrame
    <2>2. d \in DaysOf(runner[j].full) /\ d \in Days
      BY <2>1, DaysOfDays
    <2>3. PICK n : n = runner[j].stored
      OBVIOUS
    <2>4. CASE Calculated(j)
      <3>1. Covered(d, n)'
        BY <2>2, <2>3, <2>4, <1>2
      <3>2. QED
        BY <2>1, <2>3, <3>1 DEF Covered
    <2>5. CASE Publishes(j)
      <3>1. Covered(d, n)'
        BY <2>2, <2>5, EventCovers
      <3>2. QED
        BY <2>1, <2>3, <3>1 DEF Covered
    <2>6. CASE CalculatesInLine(j)
      BY <2>2, <2>6, InLineCovers
    <2>7. QED
      BY <2>1, <2>4, <2>5, <2>6
  <1>5. QED
    BY <1>3, <1>4, Zenon DEF CoverInv

\* The metrics of what completed jobs stored: once nothing is under way and no message
\* will be delivered any more, every day that no known loss excuses is up to date.
THEOREM MetricsCovered == Spec => []MetricsCoverSync
  <1>1. TypeInv /\ (TasksBelong /\ VersionsInv) /\ CoverInv /\ [Next]_vars => CoverInv'
    <2>1. CASE UNCHANGED vars
      <3>1. \A d \in Days : \A v : Covered(d, v)' <=> Covered(d, v)
        BY <2>1 DEF Covered, Carries, vars
      <3>2. UNCHANGED <<due, runner, task>>
        BY <2>1 DEF vars
      <3>3. QED
        BY <3>1, <3>2, DaysOfDays DEF CoverInv, Calculated
    <2>2. QED
      BY <2>1, CoverStep DEF Next, CoverAssumptions
  <1>2. TypeInv /\ CoverInv => MetricsCoverSync
    <2> SUFFICES ASSUME TypeInv, CoverInv, Quiet, NEW d \in Days \ behind
                 PROVE  metrics[d] >= due[d]
      BY DEF MetricsCoverSync
    <2>1. ASSUME NEW k \in Nat, Carries(k, d, due[d])
          PROVE  FALSE
      <3>1. Waits(k, d) /\ ToHandle(k)
        BY <2>1, CarriesParts
      <3>2. k \in DOMAIN stream[METRICS] /\ stream[METRICS][k] \in Message
        BY <3>1, MetricsIsBus DEF Waits, TypeInv, BusInv, BusShape
      <3>3. Exhausted(METRICS, k) /\ ~InHand(METRICS, k)
        BY <3>1, <3>2, MetricsIsBus DEF Quiet, Settled, Waits
      <3>4. stream[METRICS][k].delivered = MaxDeliver
        BY <3>3 DEF Exhausted
      <3>5. ~(stream[METRICS][k].delivered < MaxDeliver)
        BY <3>4, BusAssumption
      <3>6. QED
        BY <3>1, <3>3, <3>5 DEF ToHandle, InHand, Queued
    <2>2. Covered(d, due[d])
      BY DEF CoverInv
    <2>3. QED
      BY <2>1, <2>2 DEF Covered
  <1>3. QED
    BY <1>1, <1>2, CoverInit, TypeInvAlways, TasksAlways, PTL DEF Spec
=============================================================================
