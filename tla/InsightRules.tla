------------------------------ MODULE InsightRules ------------------------------
(***************************************************************************)
(* What the insights of a repository are (insights): six rules, each a       *)
(* statement of its own over what Metrics says is stored, and the removal of *)
(* duplicates. When they are refreshed and reopened is the matter of         *)
(* Pipeline, what the thresholds may be that of Settings.                    *)
(***************************************************************************)
EXTENDS Metrics, SequencesExt

CONSTANT
  Rules        \* the rule configurations that are tried

\* Thresholds and the number of hotspots are numbers, and no count may be less than
\* nothing (normalizeRuleConfig).
ASSUME InsightRulesAssumption ==
  /\ Rules # {}
  /\ \A R \in Rules : /\ {R.slow.at, R.concentration.at} \subseteq Int
                      /\ {R.hotspot.top, R.failure.least, R.bottleneck.least} \subseteq Nat \ {0}

VARIABLES
  config,  \* the rules of the organization
  shown    \* the insights of the last answer, and the days it was about

insightVars == <<config, shown>>

Fingerprint(i) == <<i.type, i.entity>>
Rank(i) == CASE i.severity = "high" -> 3 [] i.severity = "medium" -> 2

\* value: the evidence the rule compares with its thresholds, at: detectedAt.
Insight(type, entity, value, high, at) ==
  [type |-> type, entity |-> entity, value |-> value, at |-> at,
   severity |-> IF high THEN "high" ELSE "medium"]
Enabled(type) == type \in config.enabled

\* One size stands for the files and for the changed lines.
ListLargePullRequests(b) ==
  LET R == config.large
  IN {Insight("large", p, prs[p].size, prs[p].size >= R.high, prs[p].created) :
        p \in {q \in CreatedIn(b) : Enabled("large") /\ prs[q].size >= R.at}}

\* A mutated rule that takes the longest of the waits.
ListSlowestReviews(b) ==
  LET R == config.slow
      asked(p) == {r \in reviews : r.pr = p /\ Human(r) /\ r.requested # None}
      request(p) == Min({r.requested : r \in asked(p)})
      response(p) == Min({r.first : r \in asked(p)})
      slow == {p \in DOMAIN prs :
        /\ Enabled("slow") /\ Day(prs[p].created) \in b /\ asked(p) # {}
        /\ Max({WaitOf(r) : r \in asked(p)}) >= R.at}
  IN {Insight("slow", p, response(p) - request(p), response(p) - request(p) >= R.high, response(p)) :
        p \in slow}

\* Drafts too. A wait is that of the quickest of the reviewers who were asked, yet what
\* is reported is the time from the first request to the first response.
ListSlowReviews(b) ==
  LET R == config.slow
      asked(p) == {r \in reviews : r.pr = p /\ Human(r) /\ r.requested # None}
      request(p) == Min({r.requested : r \in asked(p)})
      response(p) == Min({r.first : r \in asked(p)})
      slow == {p \in DOMAIN prs :
        /\ Enabled("slow") /\ Day(prs[p].created) \in b /\ asked(p) # {}
        /\ Min({WaitOf(r) : r \in asked(p)}) >= R.at}
  IN {Insight("slow", p, response(p) - request(p), response(p) - request(p) >= R.high, response(p)) :
        p \in slow}

\* The files above the threshold; of more than the limit, any of the highest scores.
HotFiles(b) ==
  LET P == {p \in DOMAIN prs : Day(prs[p].created) \in b}
      score == AggregateHotspots(P)
  IN RestrictValues(score, LAMBDA s : Enabled("hotspot") /\ s >= config.hotspot.at)
TopFiles(b) ==
  LET score == HotFiles(b)
  IN {T \in SUBSET DOMAIN score :
        /\ Cardinality(T) = Min({config.hotspot.top, Cardinality(DOMAIN score)})
        /\ \A f \in T, g \in DOMAIN score \ T : score[f] >= score[g]}
ListHotspots(b, top) ==
  LET score == HotFiles(b)
      of(f) == {p \in DOMAIN prs : Day(prs[p].created) \in b /\ prs[p].file = f}
  IN {Insight("hotspot", f, score[f], score[f] >= config.hotspot.high,
              Max({prs[p].created : p \in of(f)})) : f \in top}

\* By environment as it is spelled, other than for the answers of Metrics. Every
\* deployment counts, those that are neither successful nor failed too.
DeploymentsOf(b, e) == {d \in DeployedIn(b) : deployments[d].env = e}
ListDeploymentFailureTrends(b) ==
  LET R == config.failure
      rate(e) == Ratio(Cardinality(OfStatus(DeploymentsOf(b, e), "failed")),
                       Cardinality(DeploymentsOf(b, e)))
  IN {Insight("failure", LowerCase[e], rate(e), rate(e) >= R.high,
              Max({deployments[d].at : d \in DeploymentsOf(b, e)})) :
        e \in {x \in Environments :
          /\ Enabled("failure") /\ Cardinality(DeploymentsOf(b, x)) >= R.least
          /\ rate(x) >= R.at}}

\* Drafts too.
ListReviewConcentration(b) ==
  LET R == config.concentration
      all == {r \in reviews : Human(r) /\ Day(prs[r.pr].created) \in b}
      by(u) == {r \in all : r.by = u}
      share(u) == Ratio(Cardinality(by(u)), Cardinality(all))
  IN {Insight("concentration", u, share(u), share(u) >= R.high, Max({r.first : r \in by(u)})) :
        u \in {v \in People : /\ Enabled("concentration") /\ by(v) # {}
                               /\ Cardinality(by(v)) >= R.least /\ share(v) >= R.at}}

\* One insight, for the average cycle or for the pull requests that stay open; the
\* smallest count of merges is not asked for when any is stale.
ListBottlenecks(b) ==
  LET R == config.bottleneck
      merged == {p \in CreatedIn(b) : prs[p].merged # None}
      stale == Cardinality({p \in CreatedIn(b) : prs[p].merged = None
                              /\ prs[p].created < PerDay * (LastDay + 1 - R.age)})
      cycle == Average(merged, CycleOf)
      times == {prs[p].created : p \in CreatedIn(b)} \cup {prs[p].merged : p \in merged}
  IN IF \/ ~Enabled("bottleneck")
        \/ Cardinality(merged) < R.least /\ stale = 0
        \/ cycle < R.at /\ stale < R.stale
       THEN {}
       ELSE {Insight("bottleneck", "summary", cycle, cycle >= R.high \/ stale >= R.highStale, Max(times))}

\* Some order of the insights.
InARow(S) == FoldSet(LAMBDA i, s : Append(s, i), <<>>, S)

GenerateRepositoryInsights(b, top) ==
  ListBottlenecks(b) \cup ListLargePullRequests(b) \cup ListSlowReviews(b)
    \cup ListHotspots(b, top) \cup ListDeploymentFailureTrends(b) \cup ListReviewConcentration(b)

\* A mutated choice of the later one.
ShouldReplaceInsightLater(existing, candidate) == candidate.at > existing.at

\* Of two with one fingerprint, the more severe stays, then the later.
ShouldReplaceInsight(existing, candidate) ==
  \/ Rank(candidate) > Rank(existing)
  \/ Rank(candidate) = Rank(existing) /\ candidate.at > existing.at
Keep(seen, i) ==
  IF Fingerprint(i) \in DOMAIN seen /\ ~ShouldReplaceInsight(seen[Fingerprint(i)], i) THEN seen
  ELSE [f \in DOMAIN seen \cup {Fingerprint(i)} |-> IF f = Fingerprint(i) THEN i ELSE seen[f]]
DeduplicateInsights(items) ==
  IF config.deduplicate THEN Range(FoldLeft(Keep, <<>>, items)) ELSE Range(items)

-----------------------------------------------------------------------------

\* Init: pull requests, one of them open, with reviews that were asked for, as seeded;
\* deployments of environments in whatever spelling, the first of which is given and failed.
InsightsInit ==
  LET persons == People \ Bots
  IN
  /\ prs = [p \in PullRequests |->
       [created |-> 0, merged |-> IF p = 1 THEN None ELSE LastDay, draft |-> FALSE,
        size |-> IF p = 1 THEN Min(Sizes) ELSE Max(Sizes), author |-> CHOOSE u \in persons : TRUE,
        file |-> IF p = 1 THEN "a" ELSE "b"]]
  /\ \E asked \in [persons -> SUBSET {wait \in Time \X Time : wait[1] <= wait[2]}] :
       /\ \A u \in persons : Cardinality(asked[u]) <= 1
       /\ reviews = {[pr |-> 2, by |-> u, requested |-> CHOOSE q \in Time : \E f \in Time : <<q, f>> \in asked[u],
                      first |-> CHOOSE f \in Time : \E q \in Time : <<q, f>> \in asked[u]] :
                       u \in {v \in persons : asked[v] # {}}}
  /\ deployments \in {f \in [Deployments -> Deployment] :
       f[1].status = "failed" /\ f[1].env = EnvironmentOf[1] /\ \A d \in Deployments : f[d].at = d - 1}
  /\ config \in Rules
  /\ shown = [bounds |-> {}, insights |-> {}]

\* loadInsights. Bound: one answer, and the candidates are in one order or its reverse,
\* which puts any two of them in both orders.
LoadInsights ==
  /\ shown.bounds = {}
  /\ \E b \in Bounds : \E top \in TopFiles(b) :
       LET candidates == InARow(GenerateRepositoryInsights(b, top))
       IN \E items \in {candidates, Reverse(candidates)} :
            shown' = [bounds |-> b, insights |-> DeduplicateInsights(items)]
  /\ UNCHANGED <<metricsVars, config>>

-----------------------------------------------------------------------------

\* When duplicates are removed, an entity has one insight of a type, the worst of those
\* that were found of it whatever the order, and none is lost. They are the same row of
\* insight_statuses: a user decides about what he was shown.
WorstOfEachEntity ==
  config.deduplicate /\ shown.bounds # {} =>
    LET same(i) == {j \in shown.insights : Fingerprint(j) = Fingerprint(i)}
    IN \A top \in TopFiles(shown.bounds) :
         \A i \in GenerateRepositoryInsights(shown.bounds, top) :
           \/ i.type = "hotspot"
           \/ /\ Cardinality(same(i)) = 1
              /\ \A j \in same(i) : Rank(j) > Rank(i) \/ (Rank(j) = Rank(i) /\ j.at >= i.at)

\* What an insight reports reaches the threshold of its rule, also where the statement
\* compares one thing and the insight reports another: a slow review was waited for as
\* long as the rule asks, and at most one person has most of the reviews.
ReportedReachesThreshold ==
  /\ \A i \in shown.insights : i.type # "bottleneck" => i.value >= config[i.type].at
  /\ 2 * config.concentration.at > Scale =>
       Cardinality({i \in shown.insights : i.type = "concentration"}) <= 1
  /\ Cardinality({i \in shown.insights : i.type = "hotspot"}) <= config.hotspot.top
=============================================================================
