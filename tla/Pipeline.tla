------------------------------- MODULE Pipeline -------------------------------
(***************************************************************************)
(* What a sync sets off (app, syncjob's CompositePublisher): the daily       *)
(* metrics of the repository are calculated (metrics) and its insights       *)
(* refreshed (insights), by the consumer of a bus (EventBus), or in line when *)
(* the bus could not be opened, or, for metrics, could not be published to.  *)
(*                                                                           *)
(* Data are a version, which each sync raises. One insight, of one kind,     *)
(* stands for all: each has a row of its own.                                *)
(***************************************************************************)
EXTENDS EventBus, FiniteSetsExt

CONSTANTS
  Reader,    \* a GET of the insights, which refreshes what it lists
  MaxOpen,   \* bound: buses open at once
  MaxEvents, \* bound: decisions of users and changes of the finding
  MaxAll     \* bound: those, runs and faults together

ASSUME PipelineAssumption ==
  /\ METRICS # INSIGHTS /\ Jobs \subseteq Nat /\ IsFiniteSet(Jobs)
  /\ Buses \cap Jobs = {} /\ Reader \notin Buses \cup Jobs
  /\ MaxOpen \in Nat /\ MaxEvents \in Nat /\ MaxAll \in Nat

VARIABLES
  open,     \* the buses that could be opened when the process started
  runner,   \* the sync job runs, from what they stored to Complete
  data,     \* the version of the pull requests, reviews, deployments of the repository
  metrics,  \* per day: the version of data its metrics_daily was calculated from
  due,      \* history: per day, the version the completed jobs stored
  behind,   \* history: days for which a known loss excuses old metrics
  task,     \* the calculations and refreshes under way, by who does them
  finding,  \* what the rules find in the data: when detected, and whether severe
  rules,    \* autoReopen: onReviewed and onDismissed
  row,      \* insight_statuses
  now,      \* the clock
  verdict,  \* history: the last review or dismissal, and when
  severeAt, \* history: the last date of a finding severe enough to reopen
  events,   \* what is left of MaxEvents
  raced     \* history: a refresh had read the row when that verdict came

pipeVars == <<runner, data, metrics, due, behind>>
insightVars == <<finding, row, now, verdict, severeAt, events, raced>>
vars == <<stream, queue, handler, consumer, budget, open, runner, data, metrics, due,
          behind, task, finding, rules, row, now, verdict, severeAt, events, raced>>

\* An incremental sync covers the days since its cutoff.
Days == {"old", "new"}
DaysOf(full) == IF full THEN Days ELSE {"new"}
DaysLost(lost) == UNION {DaysOf(stream[METRICS][i].full) : i \in lost}
Versions == [Days -> 0 .. MaxRuns]
Clock == 0 .. MaxEvents + 1
Workers == Buses \cup Jobs \cup {Reader}

\* Bound: each of the two kinds is reopened in one of the cases.
Rules == {[reviewed |-> b, dismissed |-> ~b] : b \in BOOLEAN}
\* 0 is no date.
NoRow == [status |-> "none", reviewed |-> 0, dismissed |-> 0, reopened |-> 0]
StatusRow == [status : {"none", "open", "reviewed", "dismissed"},
              reviewed : Clock, dismissed : Clock, reopened : Clock]
Finding == [at : Clock, severe : BOOLEAN]

Runner == [at : {"new", "metrics", "calculate", "insights", "refresh", "done", "failed",
                 "stopped"},
           full : BOOLEAN, stored : 0 .. MaxRuns]
\* shared: history, another calculation was under way at some time of this one.
Task == [at : {"idle", "upsert", "reopen", "open", "ok", "error"}, full : BOOLEAN,
         seen : 0 .. MaxRuns, shared : BOOLEAN, row : StatusRow, found : Finding]
NoTask == [at |-> "idle", full |-> FALSE, seen |-> 0, shared |-> FALSE,
           row |-> NoRow, found |-> [at |-> 0, severe |-> FALSE]]

\* Types, with one calculation or refresh at a time by each worker.
TypeOK ==
  /\ BusTypeOK
  /\ open \subseteq Buses
  /\ runner \in [Jobs -> Runner]
  /\ data \in 0 .. MaxRuns /\ metrics \in Versions /\ due \in Versions
  /\ behind \subseteq Days
  /\ task \in [Workers -> Task]
  /\ finding \in Finding /\ rules \in Rules
  /\ row \in StatusRow /\ now \in Clock /\ severeAt \in Clock
  /\ verdict \in [kind : {"none", "reviewed", "dismissed"}, at : Clock]
  /\ raced \in BOOLEAN /\ events \in 0 .. MaxEvents
  /\ \A w \in Buses : task[w].at # "idle" => handler[w].at = "work"

Init ==
  /\ BusInit
  /\ open \in {o \in SUBSET Buses : Cardinality(o) <= MaxOpen}
  /\ runner = [j \in Jobs |-> [at |-> "new", full |-> FALSE, stored |-> 0]]
  /\ data = 0 /\ metrics = [d \in Days |-> 0] /\ due = metrics
  /\ behind = {}
  /\ task = [w \in Workers |-> NoTask]
  /\ finding = [at |-> 0, severe |-> FALSE]
  /\ rules \in Rules
  /\ row = NoRow /\ now = 1 /\ severeAt = 0
  /\ verdict = [kind |-> "none", at |-> 0]
  /\ raced = FALSE /\ events = MaxEvents

TaskAt(w, at) == task[w].at = at
\* Bound: only while the metrics bus is not open, whose consumer and messages have no
\* variable in common with the insights.
Event ==
  /\ METRICS \notin open
  /\ events > 0 /\ events' = events - 1
Bounded == MaxRuns - budget'.runs + MaxFaults - budget'.faults + MaxEvents - events' <= MaxAll

-----------------------------------------------------------------------------
(* Sync jobs, from the moment their pages are stored (SyncJobs, SyncPages).  *)

\* A job runs, or runs again after a failure. What it stores may belong to any day,
\* an old pull request that was merged now for example. There is no cutoff before
\* the first one has completed.
Persist(j) ==
  /\ runner[j].at \in {"new", "failed"}
  /\ \A k \in Jobs : k < j => runner[k].at # "new"
  /\ budget.runs > 0 /\ budget' = [budget EXCEPT !.runs = @ - 1]
  /\ data' = data + 1
  /\ \E full \in IF \E k \in Jobs : runner[k].at = "done" THEN BOOLEAN ELSE {TRUE} :
       runner' = [runner EXCEPT ![j] = [at |-> "metrics", full |-> full, stored |-> data']]
  /\ UNCHANGED <<busVars, open, metrics, due, behind, task, rules, insightVars>>

Goto(j, at) == runner' = [runner EXCEPT ![j].at = at]

\* What a job that completes has stored is due in the metrics of the days it covers.
Completed(j) ==
  /\ Goto(j, "done")
  /\ due' = [d \in Days |-> IF d \in DaysOf(runner[j].full)
                              THEN Max({due[d], runner[j].stored}) ELSE due[d]]

Unconsumed(j) == IF consumer[METRICS].durable = "none" THEN behind \cup DaysOf(runner[j].full)
                 ELSE behind

\* A mutated publisher without the calculation in line.
PublishMetricsOnly(j) ==
  /\ runner[j].at = "metrics"
  /\ \/ /\ METRICS \in open /\ Stored(METRICS, j, runner[j].full) /\ UNCHANGED budget
        /\ behind' = Unconsumed(j)
     \/ METRICS \in open /\ Spend /\ UNCHANGED <<stream, behind>>
     \/ METRICS \notin open /\ UNCHANGED <<stream, budget, behind>>
  /\ Goto(j, "insights")
  /\ UNCHANGED <<queue, handler, consumer, open, data, metrics, due, task, rules, insightVars>>

\* metricsbus.Publisher: an event that could not be published, or for which there is
\* no bus, is calculated in line. An error says nothing of what JetStream stored. An event
\* that is dropped as a duplicate of a run before, or that no durable consumer is there
\* for, leaves its days behind.
PublishMetrics(j) ==
  /\ runner[j].at = "metrics"
  /\ \/ /\ METRICS \in open
        /\ \/ /\ Stored(METRICS, j, runner[j].full)
              /\ behind' = Unconsumed(j)
           \/ Dropped(METRICS, j) /\ behind' = behind \cup DaysOf(runner[j].full)
        /\ Goto(j, "insights")
        /\ UNCHANGED budget
     \/ /\ METRICS \in open /\ Spend
        /\ UNCHANGED stream \/ Stored(METRICS, j, runner[j].full)
        /\ Goto(j, "calculate")
        /\ UNCHANGED behind
     \/ /\ METRICS \notin open
        /\ Goto(j, "calculate")
        /\ UNCHANGED <<stream, budget, behind>>
  /\ UNCHANGED <<queue, handler, consumer, open, data, metrics, due, task, rules, insightVars>>

\* insightbus.Publisher has no calculation in line: its error fails the job, whose
\* metrics are published or calculated already.
PublishInsights(j) ==
  /\ runner[j].at = "insights"
  /\ \/ /\ INSIGHTS \in open
        /\ Stored(INSIGHTS, j, runner[j].full) \/ Dropped(INSIGHTS, j)
        /\ Completed(j)
        /\ UNCHANGED budget
     \/ /\ INSIGHTS \in open /\ Spend
        /\ UNCHANGED stream \/ Stored(INSIGHTS, j, runner[j].full)
        /\ Goto(j, "failed")
        /\ UNCHANGED due
     \/ /\ INSIGHTS \notin open   \* inlineInsightPublisher
        /\ Goto(j, "refresh")
        /\ UNCHANGED <<stream, due, budget>>
  /\ UNCHANGED <<queue, handler, consumer, open, data, metrics, behind, task, rules, insightVars>>

\* The call in line has returned.
Returned(j) ==
  /\ task[j].at \in {"ok", "error"}
  /\ task' = [task EXCEPT ![j] = NoTask]
  /\ IF TaskAt(j, "error") THEN Goto(j, "failed") /\ UNCHANGED due
     ELSE IF runner[j].at = "calculate" THEN Goto(j, "insights") /\ UNCHANGED due
     ELSE Completed(j)
  /\ UNCHANGED <<busVars, budget, open, data, metrics, behind, rules, insightVars>>

-----------------------------------------------------------------------------
(* The consumers.                                                            *)

Full(w) == IF w \in Buses THEN stream[w][handler[w].msg].full
           ELSE IF w \in Jobs THEN runner[w].full ELSE TRUE

Consume(b) == Take(b) /\ UNCHANGED <<open, pipeVars, task, rules, insightVars>>

\* The calculation or refresh of handleMessage has returned. A message whose last
\* delivery fails leaves its days behind: it becomes a dead letter, or is lost.
Consumed(b) ==
  /\ task[b].at \in {"ok", "error"}
  /\ Finish(b, TaskAt(b, "ok"))
  /\ task' = [task EXCEPT ![b] = NoTask]
  /\ behind' = IF TaskAt(b, "error") /\ b = METRICS /\ ShouldDeadLetter(handler[b].n)
                 THEN behind \cup DaysOf(Full(b)) ELSE behind
  /\ UNCHANGED <<open, runner, data, metrics, due, rules, insightVars>>

-----------------------------------------------------------------------------
(* metrics: CalculateRepositoryMetrics.                                      *)

Calculating(w) == TaskAt(w, "upsert")

\* buildDailyMetrics, by a consumer or in line. Its four queries are one here: a
\* sync that stores something between them calculates again.
BuildDailyMetrics(w) ==
  /\ TaskAt(w, "idle")
  /\ \/ w = METRICS /\ handler[w].at = "work"
     \/ w \in Jobs /\ runner[w].at = "calculate"
  /\ task' = [v \in Workers |->
       IF v = w THEN [NoTask EXCEPT !.at = "upsert", !.full = Full(w), !.seen = data,
                                    !.shared = \E u \in Workers : Calculating(u)]
       ELSE IF Calculating(v) THEN [task[v] EXCEPT !.shared = TRUE] ELSE task[v]]
  /\ UNCHANGED <<busVars, budget, open, pipeVars, rules, insightVars>>

\* One batch for all days, an implicit transaction. ClickHouse follows, and may fail.
\* Of two calculations at once the one that read first may write last.
UpsertMetricsDaily(w) ==
  LET ds == DaysOf(task[w].full) IN
  /\ Calculating(w)
  /\ metrics' = [d \in Days |-> IF d \in ds THEN task[w].seen ELSE metrics[d]]
  /\ behind' = IF task[w].shared THEN behind \cup ds
               ELSE IF task[w].seen = data THEN behind \ ds ELSE behind
  /\ \/ task' = [task EXCEPT ![w].at = "ok"] /\ UNCHANGED budget
     \/ task' = [task EXCEPT ![w].at = "error"] /\ Spend
  /\ UNCHANGED <<busVars, open, runner, data, due, rules, insightVars>>

-----------------------------------------------------------------------------
(* insights: RefreshRepository, and the same refresh behind List and Get.    *)

\* A mutated cutoff that looks at reviews only.
LatestTimeReviewed(r) == r.reviewed

LatestTime(r) == Max({r.reviewed, r.dismissed, r.reopened})

ShouldReopen(r, f) ==
  /\ r.status \in {"reviewed", "dismissed"} /\ rules[r.status]
  /\ f.severe
  /\ f.at > LatestTime(r)

\* loadInsights: the rules find something, and the row of its key is read.
LoadInsights(w) ==
  /\ TaskAt(w, "idle")
  /\ \/ w = INSIGHTS /\ handler[w].at = "work"
     \/ w \in Jobs /\ runner[w].at = "refresh"
     \/ w = Reader /\ finding.at > 0 /\ ShouldReopen(row, finding) \* else it writes nothing
  /\ task' = [task EXCEPT ![w] =
       [NoTask EXCEPT !.row = row, !.found = finding,
          !.at = IF finding.at = 0 THEN "ok"
                 ELSE IF ShouldReopen(row, finding) THEN "reopen"
                 ELSE IF row.status \in {"none", "open"} THEN "open" ELSE "ok"]]
  /\ UNCHANGED <<busVars, budget, open, pipeVars, rules, insightVars>>

\* ON CONFLICT DO UPDATE of the status and every date.
UpsertStatus(status, reviewed, dismissed, reopened) ==
  row' = [status |-> status, reviewed |-> reviewed, dismissed |-> dismissed,
          reopened |-> reopened]

\* In loadInsights.
ReopenInsight(w) ==
  /\ TaskAt(w, "reopen")
  /\ UpsertStatus("open", task[w].row.reviewed, 0, now)
  /\ task' = [task EXCEPT ![w] = IF w = Reader THEN NoTask ELSE [@ EXCEPT !.at = "open", !.row = row']]
  /\ UNCHANGED <<busVars, budget, open, pipeVars, rules, finding, now, verdict, severeAt,
                 events, raced>>

\* In RefreshRepository, with the dates it has read.
KeepOpen(w) ==
  /\ TaskAt(w, "open")
  /\ UpsertStatus("open", task[w].row.reviewed, 0, task[w].row.reopened)
  /\ task' = [task EXCEPT ![w].at = "ok"]
  /\ UNCHANGED <<busVars, budget, open, pipeVars, rules, finding, now, verdict, severeAt,
                 events, raced>>

\* Review, Dismiss and Reopen: one date, the others are lost.
Decide(status) ==
  LET Date(of) == IF status = of THEN now ELSE 0 IN
  /\ Event
  /\ UpsertStatus(status, Date("reviewed"), Date("dismissed"), Date("open"))
  /\ verdict' = IF status = "open" THEN [kind |-> "none", at |-> 0]
                ELSE [kind |-> status, at |-> now]
  /\ raced' = \E w \in Workers : task[w].at \in {"reopen", "open"}
  /\ UNCHANGED <<busVars, budget, open, pipeVars, task, rules, finding, now, severeAt>>

\* The data change what the rules find: nothing, or something detected earlier or now.
Detect ==
  /\ Event
  /\ \E f \in [at : 0 .. now + 1, severe : BOOLEAN] :
       /\ f # finding /\ (f.at = 0 => ~f.severe)
       /\ finding' = f /\ now' = Max({now, f.at})
       /\ severeAt' = IF f.severe THEN Max({severeAt, f.at}) ELSE severeAt
  /\ UNCHANGED <<busVars, budget, open, pipeVars, task, rules, row, verdict, raced>>

-----------------------------------------------------------------------------
(* Faults, and the whole.                                                    *)

\* A query of a calculation or refresh fails before it has written anything more.
TaskFails(w) ==
  /\ task[w].at \in {"upsert", "reopen", "open"}
  /\ Spend
  /\ task' = [task EXCEPT ![w] = IF w = Reader THEN NoTask ELSE [@ EXCEPT !.at = "error"]]
  /\ UNCHANGED <<busVars, open, pipeVars, rules, insightVars>>

\* A mutated stop that a handler outlives.
RestartKeepsTasks ==
  /\ ConsumersStop
  /\ UNCHANGED <<open, runner, data, metrics, due, behind, task, rules, insightVars>>

\* The process ends, after a signal or without one, and starts again with the buses it had:
\* jobs under way stay running for ever (SyncJobs), and the last delivery of a message that
\* was in hand is lost.
Restart ==
  /\ ConsumersStop
  /\ runner' = [j \in Jobs |-> IF runner[j].at \in {"new", "done", "failed", "stopped"}
                                 THEN runner[j] ELSE [runner[j] EXCEPT !.at = "stopped"]]
  /\ task' = [w \in Workers |-> NoTask]
  /\ behind' = behind \cup DaysLost({i \in DOMAIN stream[METRICS] :
                               Exhausted(METRICS, i) /\ InHand(METRICS, i)})
  /\ UNCHANGED <<open, data, metrics, due, rules, insightVars>>

\* A signal to stop. Run drains; requests, their runs of jobs included, and the message the
\* handler is at go on until the process ends. Days are left behind by messages that are lost
\* with the durable consumer and never were handled, or whose last delivery was queued.
Stop(b, deleted) ==
  /\ Drain(b, deleted)
  /\ behind' = IF b # METRICS THEN behind
               ELSE behind \cup DaysLost({i \in DOMAIN stream[b] :
                      \/ deleted /\ stream[b][i].state # "acked" /\ stream[b][i].end = "none"
                      \/ Exhausted(b, i) /\ Queued(b, i)})
  /\ UNCHANGED <<open, runner, data, metrics, due, task, rules, insightVars>>

TaskStep(w) ==
  \/ BuildDailyMetrics(w) \/ UpsertMetricsDaily(w)
  \/ LoadInsights(w) \/ ReopenInsight(w) \/ KeepOpen(w) \/ TaskFails(w)

\* handleMessage of a bus.
ConsumerStep(b) ==
  \/ Consume(b) \/ Consumed(b)
  \/ DeadLetter(b) /\ UNCHANGED <<open, pipeVars, task, rules, insightVars>>

\* JetStream.
ServerStep(b, i) ==
  (Deliver(b, i) \/ AckExpires(b, i)) /\ UNCHANGED <<open, pipeVars, task, rules, insightVars>>

\* Run, from its start to its end.
RunStep(b) ==
  \/ (Subscribe(b) \/ SubscribeFails(b)) /\ UNCHANGED <<open, pipeVars, task, rules, insightVars>>
  \/ \E deleted \in BOOLEAN : Stop(b, deleted)

Step ==
  \/ \E j \in Jobs : Persist(j) \/ PublishMetrics(j) \/ PublishInsights(j) \/ Returned(j)
  \/ \E b \in open :
       \/ RunStep(b) \/ ConsumerStep(b)
       \/ \E i \in 1 .. MaxMessages : ServerStep(b, i)
  \/ \E w \in Workers : TaskStep(w)
  \/ \E status \in {"open", "reviewed", "dismissed"} : Decide(status)
  \/ Detect \/ Restart

Next == Step /\ Bounded

Spec == Init /\ [][Next]_vars

\* JetStream delivers to a subscription, and a handler's calls end: its context has no
\* deadline, those of the database clients do. Run subscribes at the start, or fails to. A
\* process that was told to stop ends (ShutdownTimeout), and is started again.
Fairness ==
  /\ \A b \in Buses :
       /\ WF_vars(b \in open /\ (ConsumerStep(b) \/ TaskStep(b)))
       /\ WF_vars(b \in open /\ \E i \in 1 .. MaxMessages : ServerStep(b, i))
       /\ WF_vars(b \in open /\ Subscribe(b) /\ UNCHANGED <<open, pipeVars, task, rules, insightVars>>)
  /\ WF_vars(Stopping /\ Restart)

FairSpec == Spec /\ Fairness
-----------------------------------------------------------------------------
\* Nothing under way, and no message that JetStream would still deliver.
Quiet ==
  /\ \A j \in Jobs : runner[j].at \in {"new", "done", "failed", "stopped"}
  /\ \A b \in Buses : handler[b].at = "idle"
  /\ \A b \in Buses : \A i \in DOMAIN stream[b] : Settled(b, i)

\* When everything has settled, metrics_daily was calculated from what the completed
\* jobs stored for the days they cover, however the events came, failed and were
\* repeated; but for days whose last event was dropped as a duplicate, was lost without a
\* durable consumer, ended as a dead letter, or was calculated beside another one.
MetricsCoverSync == Quiet => \A d \in Days \ behind : metrics[d] >= due[d]

\* insights/service.go:329: an insight a user has reviewed or dismissed is open again
\* only if the rules reopen it, for something severe detected after that decision,
\* unless a refresh had read the row before it.
VerdictHolds ==
  row.status = "open" /\ verdict.kind # "none" /\ ~raced =>
    rules[verdict.kind] /\ severeAt > verdict.at
=============================================================================
