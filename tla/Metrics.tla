-------------------------------- MODULE Metrics --------------------------------
(***************************************************************************)
(* The metrics of one repository (metrics): metrics_daily is calculated from *)
(* what is stored of its pull requests, reviews and deployments, one         *)
(* statement for each, and answers are put together from the rows of a range *)
(* of days. What is stored may change between any two statements.            *)
(***************************************************************************)
EXTENDS Integers, TLC, FiniteSetsExt, Functions

CONSTANTS
  LastDay,      \* the last of the days
  PerDay,       \* instants of a UTC day
  FirstWeekday, \* the weekday of day 0, Monday being 0
  NewMonth,     \* the day a second month begins
  Scale,        \* unit of averages and shares, a multiple of every count of pull requests
  PullRequests, People, Bots, Sizes,
  Environments, Deployments,   \* names of environments, as they are spelled
  LowerCase,     \* of each environment, its name in lower case, with no space around it
  EnvironmentOf, \* bound: the environment of each deployment
  MaxCalculations, MaxChanges  \* bounds

ASSUME MetricsAssumption ==
  /\ LastDay \in Nat /\ PerDay \in Nat \ {0} /\ FirstWeekday \in 0 .. 6 /\ NewMonth \in Nat
  /\ Scale \in Nat \ {0} /\ Bots \subseteq People /\ Sizes \subseteq Nat
  /\ IsFiniteSet(PullRequests) /\ IsFiniteSet(People) /\ IsFiniteSet(Environments)
  /\ IsFiniteSet(Deployments) /\ IsFiniteSet(Sizes)
  /\ Sizes # {} /\ Bots # {} /\ People \ Bots # {}
  /\ DOMAIN LowerCase = Environments /\ EnvironmentOf \in [Deployments -> Environments]
  /\ "all" \notin Environments   \* that is, no environment is asked for
  /\ Cardinality(People) <= Scale /\ \A n \in 1 .. Cardinality(PullRequests) : Scale % n = 0
  /\ MaxCalculations \in Nat /\ MaxChanges \in Nat

VARIABLES
  prs,         \* pull_requests, of those stored
  reviews,     \* pull_request_reviews, at most one by each person of each
  deployments, \* deployments, of those stored
  rows,        \* metrics_daily, of the days calculated
  calculation, \* CalculateRepositoryMetrics under way
  fresh,       \* history: the days whose row was read after all they are made of
  left         \* what is left of MaxCalculations and MaxChanges

rawVars == <<prs, reviews, deployments>>
metricsVars == <<prs, reviews, deployments, rows, calculation, fresh, left>>

-----------------------------------------------------------------------------
(* Days and ranges.                                                          *)

None == -1
Time == 0 .. PerDay * (LastDay + 1) - 1
Days == 0 .. LastDay
Day(t) == IF t = None THEN None ELSE t \div PerDay

\* normalizeBounds: whole days, both included.
Bounds == {b \in {from .. to : from, to \in Days} : b # {}}

\* Monday to Friday; public holidays count.
BusinessDay(d) == (FirstWeekday + d) % 7 < 5
DayCount(b, dayType) == IF dayType = "business" THEN Quantify(b, BusinessDay) ELSE Cardinality(b)

Intervals == {"day", "week", "month"}
IntervalLabel(d, interval) ==
  CASE interval = "week"  -> (FirstWeekday + d) \div 7
    [] interval = "month" -> IF d < NewMonth THEN 0 ELSE 1
    [] OTHER              -> d

\* An average or share of nothing is 0.
Ratio(a, n) == IF n = 0 THEN 0 ELSE (Scale * a) \div n
Average(S, f(_)) == Ratio(SumFunction([x \in S |-> f(x)]), Cardinality(S))

-----------------------------------------------------------------------------
(* What is stored.                                                           *)

PullRequest == [created : Time, merged : Time \cup {None}, draft : BOOLEAN,
                size : Sizes, author : People, file : {"a", "b"}]
Review == [pr : PullRequests, by : People, requested : Time \cup {None}, first : Time]
Deployment == [env : Environments, status : {"success", "failed", "pending"}, at : Time]

Ready(p) == p \in DOMAIN prs /\ ~prs[p].draft
CreatedIn(b) == {p \in DOMAIN prs : Ready(p) /\ Day(prs[p].created) \in b}
MergedIn(b) == {p \in DOMAIN prs : Ready(p) /\ Day(prs[p].merged) \in b}
DeployedIn(b) == {d \in DOMAIN deployments : Day(deployments[d].at) \in b}
OfStatus(D, s) == {d \in D : deployments[d].status = s}

\* A person: no name of a bot.
Human(r) == r.by \notin Bots
Reviewed(p) == \E r \in reviews : r.pr = p /\ Human(r)
\* A review that was asked for, and not before there was a pull request. Only seeded
\* rows have the time it was asked at: neither a sync nor an event stores it.
Samples(P) == {r \in reviews :
  r.pr \in P /\ Human(r) /\ r.requested # None
  /\ r.first >= r.requested /\ r.requested >= prs[r.pr].created}

SizeOf(p) == prs[p].size
CycleOf(p) == prs[p].merged - prs[p].created
WaitOf(r) == r.first - r.requested

-----------------------------------------------------------------------------
(* CalculateRepositoryMetrics.                                               *)

ZeroRow == [created |-> 0, reviewed |-> 0, size |-> 0, merged |-> 0, cycle |-> 0,
            samples |-> 0, wait |-> 0, success |-> 0, failed |-> 0, coverage |-> 0,
            failureRate |-> 0]
Idle == [at |-> "idle", bounds |-> {}, rows |-> <<>>, changed |-> {}]

CalculationAt(at) == calculation.at = at
\* A statement adds what it found to the row of each day, and the next one follows.
Aggregate(found, next) ==
  calculation' = [calculation EXCEPT !.rows = found, !.at = next]
RowOf(d) == calculation.rows[d]

Calculate ==
  /\ CalculationAt("idle") /\ left.calculations > 0
  /\ left' = [left EXCEPT !.calculations = @ - 1]
  /\ \E b \in Bounds :
       /\ LastDay \in b   \* up to now, when the sync completed
       /\ rows = <<>> => b = Days   \* bound: the first sync has no cutoff
       /\ calculation' = [at |-> "size", bounds |-> b, rows |-> [d \in b |-> ZeroRow], changed |-> {}]
  /\ UNCHANGED <<rawVars, rows, fresh>>

AggregatePRSizeByDay ==
  /\ CalculationAt("size")
  /\ Aggregate([d \in calculation.bounds |->
       LET P == CreatedIn({d})
       IN [RowOf(d) EXCEPT !.created = Cardinality(P), !.reviewed = Quantify(P, Reviewed),
                           !.size = Average(P, SizeOf)]], "cycle")
  /\ UNCHANGED <<rawVars, rows, fresh, left>>

AggregatePRCycleByDay ==
  /\ CalculationAt("cycle")
  /\ Aggregate([d \in calculation.bounds |->
       LET P == {p \in MergedIn({d}) : prs[p].merged >= prs[p].created}
       IN [RowOf(d) EXCEPT !.merged = Cardinality(P), !.cycle = Average(P, CycleOf)]], "review")
  /\ UNCHANGED <<rawVars, rows, fresh, left>>

\* A mutated statement that groups the samples by the day of the review.
AggregateReviewMetricsByReview ==
  /\ CalculationAt("review")
  /\ Aggregate([d \in calculation.bounds |->
       LET R == {r \in Samples(CreatedIn(Days)) : Day(r.first) = d}
       IN [RowOf(d) EXCEPT !.samples = Cardinality(R), !.wait = Average(R, WaitOf)]], "deployments")
  /\ UNCHANGED <<rawVars, rows, fresh, left>>

\* The samples of a day are those of the pull requests created then.
AggregateReviewMetricsByDay ==
  /\ CalculationAt("review")
  /\ Aggregate([d \in calculation.bounds |->
       LET R == Samples(CreatedIn({d}))
       IN [RowOf(d) EXCEPT !.samples = Cardinality(R), !.wait = Average(R, WaitOf)]], "deployments")
  /\ UNCHANGED <<rawVars, rows, fresh, left>>

AggregateDeploymentsByDay ==
  /\ CalculationAt("deployments")
  /\ Aggregate([d \in calculation.bounds |->
       LET D == DeployedIn({d})
           success == Cardinality(OfStatus(D, "success"))
           failed == Cardinality(OfStatus(D, "failed"))
       IN [RowOf(d) EXCEPT !.success = success, !.failed = failed,
                           !.failureRate = Ratio(failed, success + failed),
                           !.coverage = Ratio(RowOf(d).reviewed, RowOf(d).created)]], "analytics")
  /\ UNCHANGED <<rawVars, rows, fresh, left>>

\* ClickHouse has its copies of what is stored before metrics_daily, and no answer is
\* read from there. Where it fails, nothing is calculated.
SyncAnalyticsRawData ==
  /\ CalculationAt("analytics")
  /\ calculation' \in {[calculation EXCEPT !.at = "upsert"], Idle}
  /\ UNCHANGED <<rawVars, rows, fresh, left>>

\* One batch, hence one transaction, of all the days.
UpsertMetricsDaily ==
  /\ CalculationAt("upsert")
  /\ rows' = [d \in DOMAIN calculation.rows \cup DOMAIN rows |->
                IF d \in DOMAIN calculation.rows THEN calculation.rows[d] ELSE rows[d]]
  /\ fresh' = (fresh \cup calculation.bounds) \ calculation.changed
  /\ calculation' = Idle
  /\ UNCHANGED <<rawVars, left>>

-----------------------------------------------------------------------------
(* What is stored changes, and with it the days it counts in.                *)

Changed(days) ==
  /\ left.changes > 0 /\ left' = [left EXCEPT !.changes = @ - 1]
  /\ fresh' = fresh \ days
  /\ calculation' = [calculation EXCEPT
       !.changed = IF CalculationAt("idle") THEN {} ELSE @ \cup days]
  /\ UNCHANGED rows

\* A pull request is ready for review, changes its size, or is merged.
ChangePullRequest(p) ==
  /\ p \in DOMAIN prs
  /\ \E draft \in BOOLEAN, size \in Sizes, merged \in Time \cup {None} :
       /\ prs[p].merged = None \/ merged = prs[p].merged
       /\ merged # None => merged >= prs[p].created
       /\ prs' = [prs EXCEPT ![p].draft = draft, ![p].size = size, ![p].merged = merged]
  /\ prs' # prs
  /\ Changed({Day(prs[p].created), Day(prs'[p].merged)})
  /\ UNCHANGED <<reviews, deployments>>

\* A review counts in the day its pull request was created, whenever it is made: an
\* incremental sync, which calculates the days since its cutoff, leaves that day as
\* it is when the pull request is older.
AddReview(p) ==
  /\ p \in DOMAIN prs
  /\ \E u \in People :
       /\ \A r \in reviews : r.pr = p => r.by # u
       /\ reviews' = reviews \cup {[pr |-> p, by |-> u, requested |-> None, first |-> Max(Time)]}
  /\ Changed({Day(prs[p].created)})
  /\ UNCHANGED <<prs, deployments>>

ChangeDeployment(d) ==
  /\ d \in DOMAIN deployments
  /\ \E s \in {"success", "failed", "pending"} \ {deployments[d].status} :
       deployments' = [deployments EXCEPT ![d].status = s]
  /\ Changed({Day(deployments[d].at)})
  /\ UNCHANGED <<prs, reviews>>

-----------------------------------------------------------------------------
(* Answers, from the rows of a range.                                        *)

ListMetricsDaily(b) == Restrict(rows, b \cap DOMAIN rows)
Total(R, count) == SumFunction([d \in DOMAIN R |-> R[d][count]])

\* A mutated average, of the averages of the days.
AverageOfAverages(R, value, count) ==
  LET some == {d \in DOMAIN R : R[d][count] > 0}
  IN IF some = {} THEN 0
     ELSE SumFunction([d \in some |-> R[d][value]]) \div Cardinality(some)

\* An average of a range weighs that of each day by the number of its samples.
WeightedAverage(R, value, count) ==
  LET n == Total(R, count)
  IN IF n = 0 THEN 0
     ELSE SumFunction([d \in DOMAIN R |-> R[d][value] * R[d][count]]) \div n

\* The rows, if any, of each week or month of the range.
GroupByInterval(b, interval, R) ==
  [label \in {IntervalLabel(d, interval) : d \in b} |->
     Restrict(R, {d \in DOMAIN R : IntervalLabel(d, interval) = label})]

DataCoverage(b, R) ==
  [requested |-> Cardinality(b), available |-> Cardinality(DOMAIN R),
   partial |-> Cardinality(DOMAIN R) < Cardinality(b)]

AggregateSummary(b, dayType, R) ==
  [cycle       |-> WeightedAverage(R, "cycle", "merged"),
   wait        |-> WeightedAverage(R, "wait", "samples"),
   frequency   |-> Ratio(Total(R, "success"), DayCount(b, dayType)),
   failureRate |-> Ratio(Total(R, "failed"), Total(R, "success") + Total(R, "failed")),
   coverage    |-> Ratio(Total(R, "reviewed"), Total(R, "created")),
   data        |-> DataCoverage(b, R)]

AggregatePullRequestMetrics(b, interval, R) ==
  LET G == GroupByInterval(b, interval, R) IN
  [cycle |-> WeightedAverage(R, "cycle", "merged"),
   size  |-> WeightedAverage(R, "size", "created"),
   trend |-> [l \in DOMAIN G |-> WeightedAverage(G[l], "cycle", "merged")],
   data  |-> DataCoverage(b, R)]

AggregateReviewMetrics(b, interval, R) ==
  LET G == GroupByInterval(b, interval, R) IN
  [wait     |-> WeightedAverage(R, "wait", "samples"),
   coverage |-> Ratio(Total(R, "reviewed"), Total(R, "created")),
   trend    |-> [l \in DOMAIN G |-> WeightedAverage(G[l], "wait", "samples")],
   data     |-> DataCoverage(b, R)]

AggregateDeploymentMetrics(b, interval, dayType, R) ==
  LET G == GroupByInterval(b, interval, R) IN
  [count       |-> Total(R, "success"),
   frequency   |-> Ratio(Total(R, "success"), DayCount(b, dayType)),
   failureRate |-> Ratio(Total(R, "failed"), Total(R, "success") + Total(R, "failed")),
   trend       |-> [l \in DOMAIN G |-> Total(G[l], "success")],
   data        |-> DataCoverage(b, R)]

\* Of one environment, however it is spelled: the deployments themselves, with a row for
\* every day.
ListDeployments(b, env) ==
  {d \in DeployedIn(b) : LowerCase[deployments[d].env] = LowerCase[env]}
DeploymentMetricsFromRaw(b, interval, dayType, D) ==
  LET of(d, s) == Cardinality({x \in OfStatus(D, s) : Day(deployments[x].at) = d})
  IN AggregateDeploymentMetrics(b, interval, dayType,
       [d \in b |-> [ZeroRow EXCEPT !.success = of(d, "success"), !.failed = of(d, "failed")]])

GetDashboardSummary(b, dayType) == AggregateSummary(b, dayType, ListMetricsDaily(b))
GetPullRequestMetrics(b, interval) == AggregatePullRequestMetrics(b, interval, ListMetricsDaily(b))
GetReviewMetrics(b, interval) == AggregateReviewMetrics(b, interval, ListMetricsDaily(b))
GetDeploymentMetrics(b, interval, dayType, env) ==
  IF env \in Environments
    THEN DeploymentMetricsFromRaw(b, interval, dayType, ListDeployments(b, env))
    ELSE AggregateDeploymentMetrics(b, interval, dayType, ListMetricsDaily(b))

-----------------------------------------------------------------------------
(* Answers, from what is stored.                                             *)

\* GetHotspots: the files of the pull requests that were not done before the range,
\* drafts included. A file stands for those a pull request changes, a size for its
\* score, of commits, additions and deletions.
ListFileChanges(b) == {p \in DOMAIN prs :
  /\ Day(prs[p].created) <= Max(b)
  /\ prs[p].merged = None \/ Day(prs[p].merged) >= Min(b) \/ Day(prs[p].created) >= Min(b)}
AggregateHotspots(P) ==
  [f \in {prs[p].file : p \in P} |-> SumFunction([p \in {q \in P : prs[q].file = f} |-> SizeOf(p)])]

\* GetWorkloadDistribution: who wrote and who reviewed, bots left out.
Shares(count) == [u \in DOMAIN count |-> Ratio(count[u], SumFunction(count))]
ListContributors(b) ==
  LET by(u) == {p \in CreatedIn(b) : prs[p].author = u}
  IN [u \in {v \in People \ Bots : by(v) # {}} |-> Cardinality(by(u))]
ListReviewers(b) ==
  LET by(u) == {r \in reviews : r.pr \in CreatedIn(b) /\ r.by = u}
  IN [u \in {v \in People \ Bots : by(v) # {}} |-> Cardinality(by(u))]
WorkloadDistribution(b) ==
  LET top(count) == Max({0} \cup Range(Shares(count)))
  IN [pullRequests |-> SumFunction(ListContributors(b)), reviews |-> SumFunction(ListReviewers(b)),
      contributor |-> top(ListContributors(b)), reviewer |-> top(ListReviewers(b))]

-----------------------------------------------------------------------------

\* Bound: the first pull request varies, the others are the same in all. Only a seeded
\* review was asked for.
MetricsInit ==
  /\ \E created \in Time, merged \in Time \cup {None} :
       /\ merged # None => merged >= created
       /\ prs = [p \in PullRequests |->
                   IF p = 1 THEN [created |-> created, merged |-> merged, draft |-> FALSE,
                                  size |-> Min(Sizes), author |-> CHOOSE u \in Bots : TRUE,
                                  file |-> "a"]
                   ELSE [created |-> 0, merged |-> 1, draft |-> FALSE, size |-> Max(Sizes),
                         author |-> CHOOSE u \in People \ Bots : TRUE, file |-> "a"]]
  /\ reviews \in SUBSET {[pr |-> 1, by |-> CHOOSE u \in People \ Bots : TRUE,
                          requested |-> LastDay - 1, first |-> LastDay],
                         [pr |-> 2, by |-> CHOOSE u \in Bots : TRUE,
                          requested |-> None, first |-> 0]}
  /\ deployments = [d \in Deployments |->
       [env |-> EnvironmentOf[d], status |-> IF d = 1 THEN "success" ELSE "failed", at |-> d - 1]]
  /\ rows = <<>> /\ calculation = Idle /\ fresh = {}
  /\ left = [calculations |-> MaxCalculations, changes |-> MaxChanges]

MetricsNext ==
  \/ Calculate
  \/ AggregatePRSizeByDay \/ AggregatePRCycleByDay
  \/ AggregateReviewMetricsByDay \/ AggregateDeploymentsByDay
  \/ SyncAnalyticsRawData \/ UpsertMetricsDaily
  \/ \E p \in PullRequests : ChangePullRequest(p) \/ AddReview(p)
  \/ \E d \in Deployments : ChangeDeployment(d)

-----------------------------------------------------------------------------

\* A day that was calculated after all it is made of has the row a calculation of that
\* day alone, from what is stored now, would give it: no statement of
\* buildDailyMetrics looks at another day, and what changes meanwhile changes no other.
RowsAreRaw ==
  \A d \in fresh :
    LET P == {p \in DOMAIN prs : ~prs[p].draft}
        C == {p \in P : Day(prs[p].created) = d}
        M == {p \in P : Day(prs[p].merged) = d}
        R == {r \in reviews : r.pr \in C /\ r.by \notin Bots}
        D(s) == Cardinality({x \in DOMAIN deployments :
                  Day(deployments[x].at) = d /\ deployments[x].status = s})
    IN /\ d \in DOMAIN rows
       /\ rows[d].created = Cardinality(C)
       /\ rows[d].reviewed = Cardinality({r.pr : r \in R})
       /\ rows[d].merged = Cardinality(M)
       /\ rows[d].samples = Cardinality({r \in R : r.requested >= prs[r.pr].created})
       /\ rows[d].success = D("success") /\ rows[d].failed = D("failed")

\* The environments, each under one name of whatever case, and a spelling of each.
Names == {LowerCase[e] : e \in Environments}
Spelled(name) == CHOOSE e \in Environments : LowerCase[e] = name

\* docs/04: no average of averages. When all days of a range are fresh, its answers are
\* those of the pull requests, reviews and deployments of the range, whatever days they
\* are spread over, and so is every week or month of a trend; the environments, each
\* asked for in one of its spellings, add up to the answer for all of them; and the answers read from what is stored count no
\* fewer reviews and changes, and no more authors' pull requests, than the rows.
AnswersAreRaw ==
  CalculationAt("idle") =>
  \A b \in {x \in Bounds : x \subseteq fresh}, i \in Intervals, t \in {"calendar", "business"} :
    LET S == GetDashboardSummary(b, t)
        P == GetPullRequestMetrics(b, i)
        R == GetReviewMetrics(b, i)
        D == GetDeploymentMetrics(b, i, t, "all")
        E == [name \in Names |-> GetDeploymentMetrics(b, i, t, Spelled(name))]
        W == WorkloadDistribution(b)
        rowsOf == ListMetricsDaily(b)
        in(label) == {d \in b : IntervalLabel(d, i) = label}
        waits(B) == Average(Samples(CreatedIn(B)), WaitOf)
    IN /\ S.cycle = Average(MergedIn(b), CycleOf) /\ P.cycle = S.cycle
       /\ P.size = Average(CreatedIn(b), SizeOf)
       /\ \A l \in DOMAIN P.trend : P.trend[l] = Average(MergedIn(in(l)), CycleOf)
       /\ S.wait = waits(b) /\ R.wait = S.wait
       /\ \A l \in DOMAIN R.trend : R.trend[l] = waits(in(l))
       /\ S.coverage = R.coverage
       /\ D.count = SumFunction(D.trend)
       /\ D.count = SumFunction([name \in Names |-> E[name].count])
       /\ \A l \in DOMAIN D.trend :
            D.trend[l] = SumFunction([name \in Names |-> E[name].trend[l]])
       /\ D.failureRate = S.failureRate /\ D.frequency = S.frequency
       /\ t = "business" => S.frequency >= GetDashboardSummary(b, "calendar").frequency
                            \/ DayCount(b, t) = 0
       /\ ~S.data.partial
       /\ W.pullRequests <= Total(rowsOf, "created") /\ W.reviews >= Total(rowsOf, "reviewed")
       /\ (W.reviewer > 0) = (S.coverage > 0)
       /\ SumFunction(AggregateHotspots(ListFileChanges(b)))
            >= SumFunction([p \in CreatedIn(b) \cup MergedIn(b) |-> SizeOf(p)])
=============================================================================
