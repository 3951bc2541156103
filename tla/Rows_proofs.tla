----------------------------- MODULE Rows_proofs -----------------------------
(****************************************************************************)
(* Proofs of what the run of Calculations checks of rows that are put       *)
(* together while what they are made of changes, and of what is read from   *)
(* them: the metrics of a day, for any pull requests, reviews, deployments  *)
(* and calculations; the insights found in them; and a pull request, its    *)
(* reviews and its timeline, for any number of versions and snapshots.      *)
(****************************************************************************)
EXTENDS Calculations, Folds_proofs

(***************************************************************************)
(* Metrics.                                                                  *)
(***************************************************************************)

-----------------------------------------------------------------------------
(* The inductive invariant.                                                   *)

\* What is stored: a pull request is merged after it was created, and a review that was
\* asked for came after it was asked for; one was.
IsStored(p) ==
  /\ p = [created |-> p.created, merged |-> p.merged, draft |-> p.draft, size |-> p.size,
          author |-> p.author, file |-> p.file]
  /\ p.created \in Nat /\ p.merged \in Int /\ p.size \in Nat
  /\ p.merged # None => p.merged >= p.created

RawTypes ==
  /\ prs = [p \in PullRequests |-> prs[p]] /\ \A p \in DOMAIN prs : IsStored(prs[p])
  /\ deployments = [d \in Deployments |-> deployments[d]]
  /\ \A d \in DOMAIN deployments : deployments[d] = [env |-> deployments[d].env,
       status |-> deployments[d].status, at |-> deployments[d].at]
  /\ \A d \in DOMAIN deployments : deployments[d].env \in Environments
  /\ IsFiniteSet(reviews)
  /\ \A r \in reviews : /\ r.requested \in Int /\ r.by \in People
                        /\ r.requested # None => r.first \in Int /\ r.first >= r.requested
  /\ \A r, s \in reviews : r.requested # None /\ s.requested # None => r = s

IsRow(w) ==
  w = [created |-> w.created, reviewed |-> w.reviewed, size |-> w.size, merged |-> w.merged,
       cycle |-> w.cycle, samples |-> w.samples, wait |-> w.wait, success |-> w.success,
       failed |-> w.failed, coverage |-> w.coverage, failureRate |-> w.failureRate]

\* What the statements find of a day.
DoneIn(d) == {p \in MergedIn({d}) : prs[p].merged >= prs[p].created}
SizesIn(d) == [p \in CreatedIn({d}) |-> prs[p].size]
CyclesIn(d) == [p \in DoneIn(d) |-> prs[p].merged - prs[p].created]
WaitsIn(d) == [r \in Samples(CreatedIn({d})) |-> r.first - r.requested]
Found(d) ==
  [created |-> Cardinality(CreatedIn({d})),
   reviewed |-> Cardinality({p \in CreatedIn({d}) : Reviewed(p)}),
   size |-> Ratio(SumFunction(SizesIn(d)), Cardinality(CreatedIn({d}))),
   merged |-> Cardinality(DoneIn(d)),
   cycle |-> Ratio(SumFunction(CyclesIn(d)), Cardinality(DoneIn(d))),
   samples |-> Cardinality(Samples(CreatedIn({d}))),
   wait |-> Ratio(SumFunction(WaitsIn(d)), Cardinality(Samples(CreatedIn({d})))),
   success |-> Cardinality(OfStatus(DeployedIn({d}), "success")),
   failed |-> Cardinality(OfStatus(DeployedIn({d}), "failed"))]

\* How far a calculation has come.
Afterwards(at) ==
  CASE at = "size"        -> {}
    [] at = "cycle"       -> {"size"}
    [] at = "review"      -> {"size", "cycle"}
    [] at = "deployments" -> {"size", "cycle", "review"}
    [] OTHER              -> {"size", "cycle", "review", "deployments"}

RowIs(w, f, done) ==
  /\ IsRow(w)
  /\ "size" \in done => w.created = f.created /\ w.reviewed = f.reviewed /\ w.size = f.size
  /\ "cycle" \in done => w.merged = f.merged /\ w.cycle = f.cycle
  /\ "review" \in done => w.samples = f.samples /\ w.wait = f.wait
  /\ "deployments" \in done => w.success = f.success /\ w.failed = f.failed

\* A calculation under way has found what is stored now, but of the days that changed.
Calculating ==
  /\ calculation = [at |-> calculation.at, bounds |-> calculation.bounds,
                    rows |-> calculation.rows, changed |-> calculation.changed]
  /\ calculation.at \in {"idle", "size", "cycle", "review", "deployments", "analytics", "upsert"}
  /\ CalculationAt("idle") => calculation.bounds = {}
  /\ calculation.bounds \subseteq Days /\ DOMAIN calculation.rows = calculation.bounds
  /\ \A d \in calculation.bounds : IsRow(calculation.rows[d])
  /\ \A d \in calculation.bounds \ calculation.changed :
       RowIs(calculation.rows[d], Found(d), Afterwards(calculation.at))

\* And so have the rows of the days that are fresh.
Everything == {"size", "cycle", "review", "deployments"}
Calculated ==
  /\ fresh \subseteq DOMAIN rows /\ DOMAIN rows \subseteq Days
  /\ \A d \in fresh : RowIs(rows[d], Found(d), Everything)

MetricInv ==
  IF part = "metrics" THEN RawTypes /\ Calculating /\ Calculated ELSE fresh = {}

-----------------------------------------------------------------------------
(* The statements.                                                            *)

\* A statement that finds what is stored of each of the days, and leaves of their rows
\* what those before it found.
LEMMA StatementKeeps ==
  ASSUME RawTypes, Calculating, Calculated, NEW found, NEW next,
         ~CalculationAt("idle"), next \in {"cycle", "review", "deployments", "analytics"},
         UNCHANGED <<rawVars, rows, fresh>>, Aggregate(found, next),
         DOMAIN found = calculation.bounds,
         \A d \in calculation.bounds : IsRow(found[d]),
         \A d \in calculation.bounds \ calculation.changed :
           RowIs(calculation.rows[d], Found(d), Afterwards(calculation.at))
             => RowIs(found[d], Found(d), Afterwards(next))
  PROVE  RawTypes' /\ Calculating' /\ Calculated'
  <1>1. /\ prs' = prs /\ reviews' = reviews /\ deployments' = deployments
        /\ rows' = rows /\ fresh' = fresh
    BY DEF rawVars
  <1>2. \A d : Found(d)' = Found(d)
    BY <1>1 DEF Found, CreatedIn, MergedIn, DeployedIn, OfStatus, Ready, Reviewed, Samples, Human,
       DoneIn, SizesIn, CyclesIn, WaitsIn
  <1>3. /\ calculation' = [at |-> next, bounds |-> calculation.bounds, rows |-> found,
                           changed |-> calculation.changed]
    BY DEF Aggregate, Calculating
  <1>4. Calculating'
    <2>1. calculation'.at # "idle"
      BY <1>3
    <2>2. \A d \in calculation.bounds \ calculation.changed : RowIs(found[d], Found(d)', Afterwards(next))
      BY <1>2 DEF Calculating
    <2>3. QED
      BY <1>3, <2>1, <2>2 DEF Calculating, CalculationAt
  <1>5. RawTypes' /\ Calculated'
    BY <1>1, <1>2 DEF RawTypes, Calculated
  <1>6. QED
    BY <1>4, <1>5

\* A statement sets its own columns of a row.
SizeColumns(w, a, b, c) == [w EXCEPT !.created = a, !.reviewed = b, !.size = c]
CycleColumns(w, a, b) == [w EXCEPT !.merged = a, !.cycle = b]
ReviewColumns(w, a, b) == [w EXCEPT !.samples = a, !.wait = b]
DeploymentColumns(w, a, b, c, e) == [w EXCEPT !.success = a, !.failed = b, !.failureRate = c, !.coverage = e]

LEMMA SizeColumnsSet ==
  ASSUME NEW w, NEW a, NEW b, NEW c, IsRow(w)
  PROVE  LET x == SizeColumns(w, a, b, c)
         IN IsRow(x) /\ x.created = a /\ x.reviewed = b /\ x.merged = w.merged
            /\ x.samples = w.samples /\ x.success = w.success /\ x.failed = w.failed
            /\ x.size = c /\ x.cycle = w.cycle /\ x.wait = w.wait
  <1>1. ASSUME NEW x, x = SizeColumns(w, a, b, c)
        PROVE  IsRow(x) /\ x.created = a /\ x.reviewed = b /\ x.merged = w.merged
               /\ x.samples = w.samples /\ x.success = w.success /\ x.failed = w.failed
            /\ x.size = c /\ x.cycle = w.cycle /\ x.wait = w.wait
    <2>1. x = [created |-> a, reviewed |-> b, size |-> c, merged |-> w.merged, cycle |-> w.cycle,
               samples |-> w.samples, wait |-> w.wait, success |-> w.success, failed |-> w.failed,
               coverage |-> w.coverage, failureRate |-> w.failureRate]
      BY <1>1 DEF IsRow, SizeColumns
    <2>2. QED
      BY <2>1 DEF IsRow
  <1>2. QED
    BY <1>1

LEMMA CycleColumnsSet ==
  ASSUME NEW w, NEW a, NEW b, IsRow(w)
  PROVE  LET x == CycleColumns(w, a, b)
         IN IsRow(x) /\ x.created = w.created /\ x.reviewed = w.reviewed /\ x.merged = a
            /\ x.samples = w.samples /\ x.success = w.success /\ x.failed = w.failed
            /\ x.size = w.size /\ x.cycle = b /\ x.wait = w.wait
  <1>1. ASSUME NEW x, x = CycleColumns(w, a, b)
        PROVE  IsRow(x) /\ x.created = w.created /\ x.reviewed = w.reviewed /\ x.merged = a
               /\ x.samples = w.samples /\ x.success = w.success /\ x.failed = w.failed
            /\ x.size = w.size /\ x.cycle = b /\ x.wait = w.wait
    <2>1. x = [created |-> w.created, reviewed |-> w.reviewed, size |-> w.size, merged |-> a, cycle |-> b,
               samples |-> w.samples, wait |-> w.wait, success |-> w.success, failed |-> w.failed,
               coverage |-> w.coverage, failureRate |-> w.failureRate]
      BY <1>1 DEF IsRow, CycleColumns
    <2>2. QED
      BY <2>1 DEF IsRow
  <1>2. QED
    BY <1>1

LEMMA ReviewColumnsSet ==
  ASSUME NEW w, NEW a, NEW b, IsRow(w)
  PROVE  LET x == ReviewColumns(w, a, b)
         IN IsRow(x) /\ x.created = w.created /\ x.reviewed = w.reviewed /\ x.merged = w.merged
            /\ x.samples = a /\ x.success = w.success /\ x.failed = w.failed
            /\ x.size = w.size /\ x.cycle = w.cycle /\ x.wait = b
  <1>1. ASSUME NEW x, x = ReviewColumns(w, a, b)
        PROVE  IsRow(x) /\ x.created = w.created /\ x.reviewed = w.reviewed /\ x.merged = w.merged
               /\ x.samples = a /\ x.success = w.success /\ x.failed = w.failed
            /\ x.size = w.size /\ x.cycle = w.cycle /\ x.wait = b
    <2>1. x = [created |-> w.created, reviewed |-> w.reviewed, size |-> w.size, merged |-> w.merged, cycle |-> w.cycle,
               samples |-> a, wait |-> b, success |-> w.success, failed |-> w.failed,
               coverage |-> w.coverage, failureRate |-> w.failureRate]
      BY <1>1 DEF IsRow, ReviewColumns
    <2>2. QED
      BY <2>1 DEF IsRow
  <1>2. QED
    BY <1>1

LEMMA DeploymentColumnsSet ==
  ASSUME NEW w, NEW a, NEW b, NEW c, NEW e, IsRow(w)
  PROVE  LET x == DeploymentColumns(w, a, b, c, e)
         IN IsRow(x) /\ x.created = w.created /\ x.reviewed = w.reviewed /\ x.merged = w.merged
            /\ x.samples = w.samples /\ x.success = a /\ x.failed = b
            /\ x.size = w.size /\ x.cycle = w.cycle /\ x.wait = w.wait
  <1>1. ASSUME NEW x, x = DeploymentColumns(w, a, b, c, e)
        PROVE  IsRow(x) /\ x.created = w.created /\ x.reviewed = w.reviewed /\ x.merged = w.merged
               /\ x.samples = w.samples /\ x.success = a /\ x.failed = b
            /\ x.size = w.size /\ x.cycle = w.cycle /\ x.wait = w.wait
    <2>1. x = [created |-> w.created, reviewed |-> w.reviewed, size |-> w.size, merged |-> w.merged, cycle |-> w.cycle,
               samples |-> w.samples, wait |-> w.wait, success |-> a, failed |-> b,
               coverage |-> e, failureRate |-> c]
      BY <1>1 DEF IsRow, DeploymentColumns
    <2>2. QED
      BY <2>1 DEF IsRow
  <1>2. QED
    BY <1>1

LEMMA AggregateSizes ==
  ASSUME RawTypes, Calculating, Calculated, AggregatePRSizeByDay
  PROVE  RawTypes' /\ Calculating' /\ Calculated'
  <1> DEFINE rowOf(d) == calculation.rows[d]
             P(d) == CreatedIn({d})
             size(d) == Average(P(d), SizeOf)
             with(d) == SizeColumns(rowOf(d), Cardinality(P(d)), Cardinality({p \in P(d) : Reviewed(p)}), size(d))
             found == [d \in calculation.bounds |-> with(d)]
  <1>1. Aggregate(found, "cycle")
    BY DEF AggregatePRSizeByDay, RowOf, SizeColumns, Quantify
  <1>2. \A d : /\ Found(d).created = Cardinality(P(d))
              /\ Found(d).reviewed = Cardinality({p \in P(d) : Reviewed(p)})
              /\ Found(d).size = size(d)
    BY DEF Found, SizesIn, Average, SizeOf
  <1> HIDE DEF P, size
  <1>3. ASSUME NEW d \in calculation.bounds
        PROVE  /\ IsRow(with(d))
               /\ RowIs(with(d), Found(d), {"size"})
    <2>1. IsRow(rowOf(d))
      BY DEF Calculating
    <2>2. /\ IsRow(with(d)) /\ with(d).created = Cardinality(P(d))
          /\ with(d).reviewed = Cardinality({p \in P(d) : Reviewed(p)}) /\ with(d).size = size(d)
      BY <2>1, SizeColumnsSet
    <2>3. QED
      BY <1>2, <2>2 DEF RowIs
  <1> HIDE DEF with
  <1>4. \A d \in calculation.bounds : found[d] = with(d)
    OBVIOUS
  <1>5. DOMAIN found = calculation.bounds
    OBVIOUS
  <1> HIDE DEF found
  <1>6. Afterwards("cycle") = {"size"} /\ ~CalculationAt("idle")
    BY DEF Afterwards, AggregatePRSizeByDay, CalculationAt
  <1>7. UNCHANGED <<rawVars, rows, fresh>>
    BY DEF AggregatePRSizeByDay
  <1>8. QED
    BY <1>1, <1>3, <1>4, <1>5, <1>6, <1>7, StatementKeeps

LEMMA AggregateCycles ==
  ASSUME RawTypes, Calculating, Calculated, AggregatePRCycleByDay
  PROVE  RawTypes' /\ Calculating' /\ Calculated'
  <1> DEFINE rowOf(d) == calculation.rows[d]
             P(d) == DoneIn(d)
             cycle(d) == Average(P(d), CycleOf)
             with(d) == CycleColumns(rowOf(d), Cardinality(P(d)), cycle(d))
             found == [d \in calculation.bounds |-> with(d)]
  <1>1. Aggregate(found, "review")
    BY DEF AggregatePRCycleByDay, RowOf, CycleColumns, DoneIn
  <1>2. \A d : Found(d).merged = Cardinality(P(d)) /\ Found(d).cycle = cycle(d)
    BY DEF Found, CyclesIn, Average, CycleOf
  <1> HIDE DEF P, cycle
  <1>3. ASSUME NEW d \in calculation.bounds
        PROVE  /\ IsRow(with(d))
               /\ RowIs(rowOf(d), Found(d), {"size"}) => RowIs(with(d), Found(d), {"size", "cycle"})
    <2>1. IsRow(rowOf(d))
      BY DEF Calculating
    <2>2. /\ IsRow(with(d)) /\ with(d).merged = Cardinality(P(d))
          /\ with(d).created = rowOf(d).created /\ with(d).reviewed = rowOf(d).reviewed
          /\ with(d).cycle = cycle(d) /\ with(d).size = rowOf(d).size
      BY <2>1, CycleColumnsSet
    <2>3. QED
      BY <1>2, <2>2 DEF RowIs
  <1> HIDE DEF with
  <1>4. \A d \in calculation.bounds : found[d] = with(d)
    OBVIOUS
  <1>5. DOMAIN found = calculation.bounds
    OBVIOUS
  <1> HIDE DEF found
  <1>6. /\ Afterwards(calculation.at) = {"size"} /\ Afterwards("review") = {"size", "cycle"}
        /\ ~CalculationAt("idle")
    BY DEF Afterwards, AggregatePRCycleByDay, CalculationAt
  <1>7. UNCHANGED <<rawVars, rows, fresh>>
    BY DEF AggregatePRCycleByDay
  <1>8. QED
    BY <1>1, <1>3, <1>4, <1>5, <1>6, <1>7, StatementKeeps

LEMMA AggregateReviews ==
  ASSUME RawTypes, Calculating, Calculated, AggregateReviewMetricsByDay
  PROVE  RawTypes' /\ Calculating' /\ Calculated'
  <1> DEFINE rowOf(d) == calculation.rows[d]
             R(d) == Samples(CreatedIn({d}))
             wait(d) == Average(R(d), WaitOf)
             with(d) == ReviewColumns(rowOf(d), Cardinality(R(d)), wait(d))
             found == [d \in calculation.bounds |-> with(d)]
  <1>1. Aggregate(found, "deployments")
    BY DEF AggregateReviewMetricsByDay, RowOf, ReviewColumns
  <1>2. \A d : Found(d).samples = Cardinality(R(d)) /\ Found(d).wait = wait(d)
    BY DEF Found, WaitsIn, Average, WaitOf
  <1> HIDE DEF R, wait
  <1>3. ASSUME NEW d \in calculation.bounds
        PROVE  /\ IsRow(with(d))
               /\ RowIs(rowOf(d), Found(d), {"size", "cycle"})
                    => RowIs(with(d), Found(d), {"size", "cycle", "review"})
    <2>1. IsRow(rowOf(d))
      BY DEF Calculating
    <2>2. /\ IsRow(with(d)) /\ with(d).samples = Cardinality(R(d)) /\ with(d).merged = rowOf(d).merged
          /\ with(d).created = rowOf(d).created /\ with(d).reviewed = rowOf(d).reviewed
          /\ with(d).wait = wait(d) /\ with(d).size = rowOf(d).size /\ with(d).cycle = rowOf(d).cycle
      BY <2>1, ReviewColumnsSet
    <2>3. QED
      BY <1>2, <2>2 DEF RowIs
  <1> HIDE DEF with
  <1>4. \A d \in calculation.bounds : found[d] = with(d)
    OBVIOUS
  <1>5. DOMAIN found = calculation.bounds
    OBVIOUS
  <1> HIDE DEF found
  <1>6. /\ Afterwards(calculation.at) = {"size", "cycle"}
        /\ Afterwards("deployments") = {"size", "cycle", "review"} /\ ~CalculationAt("idle")
    BY DEF Afterwards, AggregateReviewMetricsByDay, CalculationAt
  <1>7. UNCHANGED <<rawVars, rows, fresh>>
    BY DEF AggregateReviewMetricsByDay
  <1>8. QED
    BY <1>1, <1>3, <1>4, <1>5, <1>6, <1>7, StatementKeeps

LEMMA AggregateDeployments ==
  ASSUME RawTypes, Calculating, Calculated, AggregateDeploymentsByDay
  PROVE  RawTypes' /\ Calculating' /\ Calculated'
  <1> DEFINE rowOf(d) == calculation.rows[d]
             of(d, s) == Cardinality(OfStatus(DeployedIn({d}), s))
             rate(d) == Ratio(of(d, "failed"), of(d, "success") + of(d, "failed"))
             coverage(d) == Ratio(rowOf(d).reviewed, rowOf(d).created)
             with(d) == DeploymentColumns(rowOf(d), of(d, "success"), of(d, "failed"), rate(d), coverage(d))
             found == [d \in calculation.bounds |-> with(d)]
  <1>1. Aggregate(found, "analytics")
    BY DEF AggregateDeploymentsByDay, RowOf, DeploymentColumns
  <1>2. \A d : Found(d).success = of(d, "success") /\ Found(d).failed = of(d, "failed")
    BY DEF Found
  <1> HIDE DEF of, rate, coverage
  <1>3. ASSUME NEW d \in calculation.bounds
        PROVE  /\ IsRow(with(d))
               /\ RowIs(rowOf(d), Found(d), {"size", "cycle", "review"})
                    => RowIs(with(d), Found(d), Everything)
    <2>1. IsRow(rowOf(d))
      BY DEF Calculating
    <2>2. /\ IsRow(with(d)) /\ with(d).success = of(d, "success") /\ with(d).failed = of(d, "failed")
          /\ with(d).samples = rowOf(d).samples /\ with(d).merged = rowOf(d).merged
          /\ with(d).created = rowOf(d).created /\ with(d).reviewed = rowOf(d).reviewed
          /\ with(d).size = rowOf(d).size /\ with(d).cycle = rowOf(d).cycle
          /\ with(d).wait = rowOf(d).wait
      BY <2>1, DeploymentColumnsSet
    <2>3. QED
      BY <1>2, <2>2 DEF RowIs, Everything
  <1> HIDE DEF with
  <1>4. \A d \in calculation.bounds : found[d] = with(d)
    OBVIOUS
  <1>5. DOMAIN found = calculation.bounds
    OBVIOUS
  <1> HIDE DEF found
  <1>6. /\ Afterwards(calculation.at) = {"size", "cycle", "review"}
        /\ Afterwards("analytics") = Everything /\ ~CalculationAt("idle")
    BY DEF Afterwards, Everything, AggregateDeploymentsByDay, CalculationAt
  <1>7. UNCHANGED <<rawVars, rows, fresh>>
    BY DEF AggregateDeploymentsByDay
  <1>8. QED
    BY <1>1, <1>3, <1>4, <1>5, <1>6, <1>7, StatementKeeps

-----------------------------------------------------------------------------
(* A calculation begins and ends.                                             *)

\* Where nothing that is stored changes, what is found of a day stays.
LEMMA FoundStays ==
  UNCHANGED rawVars => (RawTypes => RawTypes') /\ \A d : Found(d)' = Found(d)
  BY DEF rawVars, RawTypes, Found, CreatedIn, MergedIn, DeployedIn, OfStatus, Ready, Reviewed,
     Samples, Human, DoneIn, SizesIn, CyclesIn, WaitsIn

LEMMA IdleCalculates ==
  ASSUME calculation' = Idle
  PROVE  Calculating'
  BY DEF Calculating, Idle, CalculationAt

LEMMA CalculateKeeps ==
  ASSUME RawTypes, Calculating, Calculated, Calculate
  PROVE  RawTypes' /\ Calculating' /\ Calculated'
  <1>1. PICK b \in Bounds : calculation' = [at |-> "size", bounds |-> b, rows |-> [d \in b |-> ZeroRow],
                                            changed |-> {}]
    BY DEF Calculate
  <1>2. b \subseteq Days
    <2>1. PICK from \in Days, to \in Days : b = from .. to
      BY DEF Bounds
    <2>2. QED
      BY <2>1, MetricsAssumption DEF Days
  <1>3. IsRow(ZeroRow)
    BY DEF IsRow, ZeroRow
  <1>4. \A d \in b : RowIs([e \in b |-> ZeroRow][d], Found(d)', Afterwards("size"))
    BY <1>3 DEF RowIs, Afterwards
  <1>5. Calculating'
    <2>1. \A d \in b : IsRow([e \in b |-> ZeroRow][d])
      BY <1>3
    <2>2. QED
      BY <1>1, <1>2, <1>4, <2>1 DEF Calculating, CalculationAt
  <1>6. UNCHANGED <<rawVars, rows, fresh>>
    BY DEF Calculate
  <1>7. RawTypes' /\ Calculated'
    BY <1>6, FoundStays DEF Calculated
  <1>8. QED
    BY <1>5, <1>7

LEMMA SyncKeeps ==
  ASSUME RawTypes, Calculating, Calculated, SyncAnalyticsRawData
  PROVE  RawTypes' /\ Calculating' /\ Calculated'
  <1>1. UNCHANGED <<rawVars, rows, fresh>> /\ calculation.at = "analytics"
    BY DEF SyncAnalyticsRawData, CalculationAt
  <1>2. RawTypes' /\ Calculated'
    BY <1>1, FoundStays DEF Calculated
  <1>3. CASE calculation' = [calculation EXCEPT !.at = "upsert"]
    <2>1. calculation' = [at |-> "upsert", bounds |-> calculation.bounds, rows |-> calculation.rows,
                          changed |-> calculation.changed]
      BY <1>3 DEF Calculating
    <2>2. Afterwards("upsert") = Afterwards("analytics")
      BY DEF Afterwards
    <2>3. \A d : Found(d)' = Found(d)
      BY <1>1, FoundStays
    <2>4. \A d \in calculation.bounds \ calculation.changed :
            RowIs(calculation.rows[d], Found(d)', Afterwards("upsert"))
      BY <1>1, <2>2, <2>3 DEF Calculating
    <2>5. Calculating'
      BY <2>1, <2>4 DEF Calculating, CalculationAt
    <2>6. QED
      BY <1>2, <2>5
  <1>4. CASE calculation' = Idle
    BY <1>2, <1>4, IdleCalculates
  <1>5. QED
    BY <1>2, <1>3, <1>4 DEF SyncAnalyticsRawData

LEMMA UpsertKeeps ==
  ASSUME RawTypes, Calculating, Calculated, UpsertMetricsDaily
  PROVE  RawTypes' /\ Calculating' /\ Calculated'
  <1> DEFINE new == calculation.rows  found == calculation.bounds \ calculation.changed
  <1>1. /\ rows' = [d \in DOMAIN new \cup DOMAIN rows |-> IF d \in DOMAIN new THEN new[d] ELSE rows[d]]
        /\ fresh' \subseteq fresh \cup found
        /\ \A d \in fresh' : d \in calculation.bounds => d \in found
        /\ calculation' = Idle /\ UNCHANGED rawVars /\ calculation.at = "upsert"
    BY DEF UpsertMetricsDaily, CalculationAt
  <1>2. RawTypes' /\ \A d : Found(d)' = Found(d)
    BY <1>1, FoundStays
  <1>3. DOMAIN new = calculation.bounds /\ \A d \in found : RowIs(new[d], Found(d), Everything)
    BY <1>1 DEF Calculating, Afterwards, Everything
  <1>4. DOMAIN rows' \subseteq Days /\ fresh' \subseteq DOMAIN rows'
    BY <1>1, <1>3 DEF Calculating, Calculated
  <1>5. ASSUME NEW d \in fresh'
        PROVE  RowIs(rows'[d], Found(d)', Everything)
    <2>1. CASE d \in calculation.bounds
      BY <1>1, <1>2, <1>3, <2>1
    <2>2. CASE d \notin calculation.bounds
      BY <1>1, <1>2, <1>3, <2>2 DEF Calculated
    <2>3. QED
      BY <2>1, <2>2
  <1>6. Calculated'
    BY <1>4, <1>5 DEF Calculated, Everything
  <1>7. QED
    BY <1>1, <1>2, <1>6, IdleCalculates

-----------------------------------------------------------------------------
(* What is stored changes.                                                    *)

\* A change touches the days it names, and what is found of the others stays.
LEMMA ChangedKeeps ==
  ASSUME Calculating, Calculated, NEW days, Changed(days),
         \A d \in Days \ days : Found(d)' = Found(d)
  PROVE  Calculating' /\ Calculated'
  <1>1. /\ rows' = rows /\ fresh' = fresh \ days
        /\ calculation' = [at |-> calculation.at, bounds |-> calculation.bounds,
             rows |-> calculation.rows,
             changed |-> IF CalculationAt("idle") THEN {} ELSE calculation.changed \cup days]
    BY DEF Changed, Calculating
  <1>2. Calculated'
    BY <1>1 DEF Calculated
  <1>3. \A d \in calculation.bounds \ calculation'.changed :
          RowIs(calculation.rows[d], Found(d)', Afterwards(calculation.at))
    <2>1. CASE CalculationAt("idle")
      BY <2>1 DEF Calculating
    <2>2. CASE ~CalculationAt("idle")
      <3>1. calculation'.changed = calculation.changed \cup days
        BY <1>1, <2>2
      <3>2. QED
        BY <3>1 DEF Calculating
    <2>3. QED
      BY <2>1, <2>2
  <1>4. Calculating'
    <2> DEFINE changed == calculation'.changed
    <2>1. calculation' = [at |-> calculation.at, bounds |-> calculation.bounds,
                          rows |-> calculation.rows, changed |-> changed]
      BY <1>1
    <2>2. \A d \in calculation.bounds \ changed :
            RowIs(calculation.rows[d], Found(d)', Afterwards(calculation.at))
      BY <1>3
    <2> HIDE DEF changed
    <2>3. QED
      BY <2>1, <2>2 DEF Calculating, CalculationAt
  <1>5. QED
    BY <1>2, <1>4

LEMMA NoDay == None \notin Days /\ \A t : t = None => Day(t) = None
  BY DEF None, Days, Day

Edited(w, draft, size, merged) == [w EXCEPT !.draft = draft, !.size = size, !.merged = merged]
LEMMA EditedIs ==
  ASSUME NEW w, IsStored(w), NEW draft, NEW size, NEW merged
  PROVE  Edited(w, draft, size, merged) =
           [created |-> w.created, merged |-> merged, draft |-> draft, size |-> size,
            author |-> w.author, file |-> w.file]
  <1>1. ASSUME NEW x, x = Edited(w, draft, size, merged)
        PROVE  x = [created |-> w.created, merged |-> merged, draft |-> draft, size |-> size,
                    author |-> w.author, file |-> w.file]
    BY <1>1 DEF IsStored, Edited
  <1>2. QED
    BY <1>1

LEMMA PullRequestChanges ==
  ASSUME RawTypes, Calculating, Calculated, NEW p, ChangePullRequest(p)
  PROVE  RawTypes' /\ Calculating' /\ Calculated'
  <1>1. PICK draft \in BOOLEAN, size \in Sizes, merged \in Time \cup {None} :
          /\ prs[p].merged = None \/ merged = prs[p].merged
          /\ merged # None => merged >= prs[p].created
          /\ prs' = [prs EXCEPT ![p].draft = draft, ![p].size = size, ![p].merged = merged]
    BY DEF ChangePullRequest
  <1>2. /\ p \in DOMAIN prs /\ UNCHANGED <<reviews, deployments>>
        /\ Changed({Day(prs[p].created), Day(prs'[p].merged)})
    BY DEF ChangePullRequest
  <1> DEFINE after == Edited(prs[p], draft, size, merged)
  <1>3. IsStored(after) /\ after.merged = merged /\ after.created = prs[p].created
    <2>1. IsStored(prs[p])
      BY <1>2 DEF RawTypes
    <2>2. after = [created |-> prs[p].created, merged |-> merged, draft |-> draft, size |-> size,
                   author |-> prs[p].author, file |-> prs[p].file]
      BY <2>1, EditedIs
    <2>3. merged \in Int /\ size \in Nat
      BY <1>1, MetricsAssumption DEF Time, None
    <2> HIDE DEF after
    <2>4. QED
      BY <1>1, <2>1, <2>2, <2>3 DEF IsStored
  <1>4. /\ DOMAIN prs' = DOMAIN prs /\ prs'[p] = after
        /\ \A q \in DOMAIN prs : q # p => prs'[q] = prs[q]
        /\ prs' = [q \in DOMAIN prs' |-> prs'[q]]
    BY <1>1, <1>2 DEF Edited
  <1> HIDE DEF after
  <1>5. RawTypes'
    BY <1>2, <1>3, <1>4 DEF RawTypes
  <1>6. ASSUME NEW d \in Days, d # Day(prs[p].created), d # Day(prs'[p].merged)
        PROVE  Found(d)' = Found(d)
    <2>1. d # Day(prs[p].merged)
      BY <1>1, <1>3, <1>4, <1>6, NoDay
    <2>2. CreatedIn({d})' = CreatedIn({d})
      BY <1>3, <1>4, <1>6 DEF CreatedIn, Ready
    <2>3. MergedIn({d})' = MergedIn({d})
      BY <1>4, <1>6, <2>1 DEF MergedIn, Ready
    <2>4. DoneIn(d)' = DoneIn(d) /\ CyclesIn(d)' = CyclesIn(d)
      <3>1. \A q \in MergedIn({d}) : q \in DOMAIN prs /\ q # p
        BY <2>1 DEF MergedIn
      <3>2. DoneIn(d)' = DoneIn(d)
        BY <1>4, <2>3, <3>1 DEF DoneIn
      <3>3. \A q \in DoneIn(d) : prs'[q] = prs[q]
        BY <1>4, <3>1 DEF DoneIn
      <3>4. QED
        BY <3>2, <3>3 DEF CyclesIn
    <2>5. {q \in CreatedIn({d}) : Reviewed(q)}' = {q \in CreatedIn({d}) : Reviewed(q)}
      BY <1>2, <2>2 DEF Reviewed, Human
    <2>6. Samples(CreatedIn({d}))' = Samples(CreatedIn({d})) /\ SizesIn(d)' = SizesIn(d)
      <3>1. \A q \in CreatedIn({d}) : q \in DOMAIN prs /\ q # p
        BY <1>6 DEF CreatedIn
      <3>2. Samples(CreatedIn({d}))' = Samples(CreatedIn({d}))
        BY <1>2, <1>4, <2>2, <3>1 DEF Samples, Human
      <3>3. \A q \in CreatedIn({d}) : prs'[q] = prs[q]
        BY <1>4, <3>1
      <3>4. QED
        BY <2>2, <3>2, <3>3 DEF SizesIn
    <2>7. \A s : OfStatus(DeployedIn({d}), s)' = OfStatus(DeployedIn({d}), s)
      BY <1>2 DEF OfStatus, DeployedIn
    <2>8. QED
      BY <2>2, <2>4, <2>5, <2>6, <2>7 DEF Found, WaitsIn
  <1>7. QED
    BY <1>2, <1>5, <1>6, ChangedKeeps

LEMMA ReviewChanges ==
  ASSUME RawTypes, Calculating, Calculated, NEW p, AddReview(p)
  PROVE  RawTypes' /\ Calculating' /\ Calculated'
  <1>1. PICK u \in People : reviews' = reviews \cup {[pr |-> p, by |-> u, requested |-> None, first |-> Max(Time)]}
    BY DEF AddReview
  <1>2. Changed({Day(prs[p].created)}) /\ UNCHANGED <<prs, deployments>>
    BY DEF AddReview
  <1> DEFINE new == [pr |-> p, by |-> u, requested |-> None, first |-> Max(Time)]
  <1>3. new.pr = p /\ new.requested = None /\ None \in Int /\ new.by \in People
    BY DEF None
  <1> HIDE DEF new
  <1>4. reviews' = reviews \cup {new}
    BY <1>1 DEF new
  <1>5. RawTypes'
    <2>1. IsFiniteSet(reviews')
      BY <1>4, FS_AddElement DEF RawTypes
    <2>2. QED
      BY <1>2, <1>3, <1>4, <2>1 DEF RawTypes
  <1>6. ASSUME NEW d \in Days, d # Day(prs[p].created)
        PROVE  Found(d)' = Found(d)
    <2>1. CreatedIn({d})' = CreatedIn({d}) /\ p \notin CreatedIn({d})
      BY <1>2, <1>6 DEF CreatedIn, Ready
    <2>2. DoneIn(d)' = DoneIn(d) /\ CyclesIn(d)' = CyclesIn(d) /\ SizesIn(d)' = SizesIn(d)
      BY <1>2, <2>1 DEF DoneIn, CyclesIn, SizesIn, MergedIn, Ready
    <2>3. {q \in CreatedIn({d}) : Reviewed(q)}' = {q \in CreatedIn({d}) : Reviewed(q)}
      BY <1>3, <1>4, <2>1 DEF Reviewed, Human
    <2>4. Samples(CreatedIn({d}))' = Samples(CreatedIn({d}))
      BY <1>2, <1>3, <1>4, <2>1 DEF Samples, Human
    <2>5. \A s : OfStatus(DeployedIn({d}), s)' = OfStatus(DeployedIn({d}), s)
      BY <1>2 DEF OfStatus, DeployedIn
    <2>6. QED
      BY <2>1, <2>2, <2>3, <2>4, <2>5 DEF Found, WaitsIn
  <1>7. QED
    BY <1>2, <1>5, <1>6, ChangedKeeps

LEMMA DeploymentChanges ==
  ASSUME RawTypes, Calculating, Calculated, NEW x, ChangeDeployment(x)
  PROVE  RawTypes' /\ Calculating' /\ Calculated'
  <1>1. PICK s : deployments' = [deployments EXCEPT ![x].status = s]
    BY DEF ChangeDeployment
  <1>2. x \in DOMAIN deployments /\ Changed({Day(deployments[x].at)}) /\ UNCHANGED <<prs, reviews>>
    BY DEF ChangeDeployment
  <1> DEFINE after == [deployments[x] EXCEPT !.status = s]
  <1>3. after = [env |-> deployments[x].env, status |-> s, at |-> deployments[x].at]
    BY <1>2 DEF RawTypes
  <1>4. /\ DOMAIN deployments' = DOMAIN deployments /\ deployments'[x] = after
        /\ \A y \in DOMAIN deployments : y # x => deployments'[y] = deployments[y]
        /\ deployments' = [y \in DOMAIN deployments' |-> deployments'[y]]
    BY <1>1, <1>2
  <1> HIDE DEF after
  <1>5. RawTypes'
    BY <1>2, <1>3, <1>4 DEF RawTypes
  <1>6. ASSUME NEW d \in Days, d # Day(deployments[x].at)
        PROVE  Found(d)' = Found(d)
    <2>1. DeployedIn({d})' = DeployedIn({d}) /\ x \notin DeployedIn({d})
      BY <1>3, <1>4, <1>6 DEF DeployedIn
    <2>2. \A of : OfStatus(DeployedIn({d}), of)' = OfStatus(DeployedIn({d}), of)
      <3>1. \A y \in DeployedIn({d}) : y \in DOMAIN deployments /\ y # x
        BY <2>1 DEF DeployedIn
      <3>2. QED
        BY <1>4, <2>1, <3>1 DEF OfStatus
    <2>3. QED
      BY <1>2, <2>2 DEF Found, CreatedIn, MergedIn, Ready, Reviewed, Samples, Human, DoneIn,
         SizesIn, CyclesIn, WaitsIn
  <1>7. QED
    BY <1>2, <1>5, <1>6, ChangedKeeps

-----------------------------------------------------------------------------
(* Every step.                                                                *)

LEMMA MetricStart == Init => MetricInv
  <1> SUFFICES ASSUME Init
               PROVE  MetricInv
    OBVIOUS
  <1>1. CASE part # "metrics"
    BY <1>1 DEF Init, MetricInv, InsightsInit, NothingCalculated, NothingStored
  <1>2. CASE part = "metrics"
    <2>1. MetricsInit
      BY <1>2 DEF Init
    <2>2. RawTypes
      <3>1. \A p \in DOMAIN prs : IsStored(prs[p])
        <4>1. PICK created \in Time, merged \in Time \cup {None} :
                /\ merged # None => merged >= created
                /\ prs = [p \in PullRequests |->
                     IF p = 1 THEN [created |-> created, merged |-> merged, draft |-> FALSE,
                                    size |-> Min(Sizes), author |-> CHOOSE u \in Bots : TRUE, file |-> "a"]
                     ELSE [created |-> 0, merged |-> 1, draft |-> FALSE, size |-> Max(Sizes),
                           author |-> CHOOSE u \in People \ Bots : TRUE, file |-> "a"]]
          BY <2>1 DEF MetricsInit
        <4>2. created \in Nat /\ merged \in Int
          BY DEF Time, None
        <4>0. Min(Sizes) \in Nat /\ Max(Sizes) \in Nat
          <5>1. IsFiniteSet(Sizes) /\ Sizes # {} /\ Sizes \subseteq Int /\ Sizes \subseteq Nat
            BY MetricsAssumption
          <5>2. QED
            BY <5>1, Extremes
        <4>3. \A x \in Nat : \A y : IsStored([created |-> created, merged |-> merged, draft |-> FALSE,
                                         size |-> x, author |-> y, file |-> "a"])
          BY <4>1, <4>2 DEF IsStored
        <4>4. \A x \in Nat : \A y : IsStored([created |-> 0, merged |-> 1, draft |-> FALSE,
                                         size |-> x, author |-> y, file |-> "a"])
          BY DEF IsStored
        <4>5. DOMAIN prs = PullRequests
          BY <4>1
        <4>6. ASSUME NEW p \in PullRequests
              PROVE  IsStored(prs[p])
          <5>1. CASE p = 1
            BY <4>0, <4>1, <4>3, <5>1
          <5>2. CASE p # 1
            BY <4>0, <4>1, <4>4, <5>2
          <5>3. QED
            BY <5>1, <5>2
        <4>7. QED
          BY <4>5, <4>6
      <3>2. prs = [p \in PullRequests |-> prs[p]]
        BY <2>1 DEF MetricsInit
      <3>3. /\ IsFiniteSet(reviews)
            /\ \A r \in reviews : /\ r.requested \in Int /\ r.by \in People
                                  /\ r.requested # None => r.first \in Int /\ r.first >= r.requested
            /\ \A r, s \in reviews : r.requested # None /\ s.requested # None => r = s
        <4> DEFINE a == [pr |-> 1, by |-> CHOOSE u \in People \ Bots : TRUE,
                         requested |-> LastDay - 1, first |-> LastDay]
                   b == [pr |-> 2, by |-> CHOOSE u \in Bots : TRUE, requested |-> None, first |-> 0]
        <4>1. reviews \subseteq {a, b}
          BY <2>1 DEF MetricsInit
        <4>2. /\ a.by \in People /\ a.requested = LastDay - 1 /\ a.first = LastDay
              /\ b.by \in People /\ b.requested = None
          BY MetricsAssumption
        <4> HIDE DEF a, b
        <4>3. IsFiniteSet({a, b})
          <5>1. {a, b} = {a} \cup {b} /\ IsFiniteSet({a}) /\ IsFiniteSet({b})
            BY FS_Singleton
          <5>2. QED
            BY <5>1, FS_Union
        <4>4. IsFiniteSet(reviews)
          BY <4>1, <4>3, FS_Subset
        <4>5. \A r \in reviews : r = a \/ r = b
          BY <4>1
        <4>6. QED
          BY <4>2, <4>4, <4>5, MetricsAssumption DEF None
      <3>4. /\ deployments = [d \in Deployments |-> deployments[d]]
            /\ \A d \in DOMAIN deployments : deployments[d] = [env |-> deployments[d].env,
                 status |-> deployments[d].status, at |-> deployments[d].at]
            /\ \A d \in DOMAIN deployments : deployments[d].env \in Environments
        <4>1. \A d \in Deployments : EnvironmentOf[d] \in Environments
          BY MetricsAssumption
        <4>2. deployments = [d \in Deployments |-> [env |-> EnvironmentOf[d],
                status |-> IF d = 1 THEN "success" ELSE "failed", at |-> d - 1]]
          BY <2>1 DEF MetricsInit
        <4>3. QED
          BY <4>1, <4>2
      <3>5. QED
        BY <3>1, <3>2, <3>3, <3>4 DEF RawTypes
    <2>3. Calculating /\ Calculated
      BY <2>1 DEF MetricsInit, Calculating, Calculated, Idle, CalculationAt
    <2>4. QED
      BY <1>2, <2>2, <2>3 DEF MetricInv
  <1>3. QED
    BY <1>1, <1>2

LEMMA MetricSteps == MetricInv /\ [Next]_vars => MetricInv'
  <1> SUFFICES ASSUME MetricInv, [Next]_vars
               PROVE  MetricInv'
    OBVIOUS
  <1>1. CASE UNCHANGED <<part, metricsVars>>
    <2>1. \A d : Found(d)' = Found(d)
      BY <1>1, FoundStays DEF metricsVars, rawVars
    <2>2. UNCHANGED <<part, prs, reviews, deployments, rows, calculation, fresh>>
      BY <1>1 DEF metricsVars
    <2>3. QED
      BY <2>1, <2>2 DEF MetricInv, RawTypes, Calculating, CalculationAt, Calculated
  <1>2. CASE part = "metrics" /\ MetricsNext /\ UNCHANGED part
    <2>1. RawTypes /\ Calculating /\ Calculated
      BY <1>2 DEF MetricInv
    <2>2. RawTypes' /\ Calculating' /\ Calculated'
      BY <1>2, <2>1, CalculateKeeps, AggregateSizes, AggregateCycles, AggregateReviews,
         AggregateDeployments, SyncKeeps, UpsertKeeps, PullRequestChanges, ReviewChanges,
         DeploymentChanges DEF MetricsNext
    <2>3. QED
      BY <1>2, <2>2 DEF MetricInv
  <1>3. QED
    BY <1>1, <1>2 DEF Next, vars, LoadInsights

LEMMA CalculatedIsRaw == MetricInv => RowsAreRaw
  <1> SUFFICES ASSUME MetricInv, NEW d \in fresh
               PROVE  /\ d \in DOMAIN rows
                      /\ LET P == {p \in DOMAIN prs : ~prs[p].draft}
                             C == {p \in P : Day(prs[p].created) = d}
                             M == {p \in P : Day(prs[p].merged) = d}
                             R == {r \in reviews : r.pr \in C /\ r.by \notin Bots}
                             D(s) == Cardinality({x \in DOMAIN deployments :
                                       Day(deployments[x].at) = d /\ deployments[x].status = s})
                         IN /\ rows[d].created = Cardinality(C)
                            /\ rows[d].reviewed = Cardinality({r.pr : r \in R})
                            /\ rows[d].merged = Cardinality(M)
                            /\ rows[d].samples = Cardinality({r \in R : r.requested >= prs[r.pr].created})
                            /\ rows[d].success = D("success") /\ rows[d].failed = D("failed")
    BY DEF RowsAreRaw
  <1> DEFINE P == {p \in DOMAIN prs : ~prs[p].draft}
             C == {p \in P : Day(prs[p].created) = d}
             M == {p \in P : Day(prs[p].merged) = d}
             R == {r \in reviews : r.pr \in C /\ r.by \notin Bots}
             D(s) == Cardinality({x \in DOMAIN deployments :
                       Day(deployments[x].at) = d /\ deployments[x].status = s})
  <1>1. RawTypes /\ Calculated /\ d \in DOMAIN rows /\ d \in Days
    BY DEF MetricInv, Calculated
  <1>2. RowIs(rows[d], Found(d), Everything)
    BY <1>1 DEF Calculated
  <1>3. CreatedIn({d}) = C
    BY DEF CreatedIn, Ready
  <1>4. DoneIn(d) = M
    <2>1. \A p \in M : prs[p].merged >= prs[p].created
      BY <1>1, NoDay DEF RawTypes, IsStored
    <2>2. QED
      BY <2>1 DEF DoneIn, MergedIn, Ready
  <1>5. {p \in CreatedIn({d}) : Reviewed(p)} = {r.pr : r \in R}
    BY <1>3 DEF Reviewed, Human
  <1>6. Samples(CreatedIn({d})) = {r \in R : r.requested >= prs[r.pr].created}
    <2>1. \A r \in R : prs[r.pr].created \in Nat /\ r.requested \in Int
      BY <1>1 DEF RawTypes, IsStored
    <2>2. \A r \in R : r.requested >= prs[r.pr].created => r.requested # None /\ r.first >= r.requested
      BY <1>1, <2>1 DEF RawTypes, None
    <2>3. QED
      BY <1>3, <2>2 DEF Samples, Human
  <1>7. \A s : Cardinality(OfStatus(DeployedIn({d}), s)) = D(s)
    <2>1. \A s : OfStatus(DeployedIn({d}), s) = {x \in DOMAIN deployments :
                       Day(deployments[x].at) = d /\ deployments[x].status = s}
      BY DEF OfStatus, DeployedIn
    <2>2. QED
      BY <2>1
  <1> HIDE DEF C, M, R, D
  <1>8. /\ rows[d].created = Cardinality(C)
        /\ rows[d].reviewed = Cardinality({r.pr : r \in R})
        /\ rows[d].merged = Cardinality(M)
        /\ rows[d].samples = Cardinality({r \in R : r.requested >= prs[r.pr].created})
        /\ rows[d].success = D("success") /\ rows[d].failed = D("failed")
    BY <1>2, <1>3, <1>4, <1>5, <1>6, <1>7 DEF RowIs, Found, Everything
  <1>9. QED
    BY <1>1, <1>8 DEF C, M, R, D

-----------------------------------------------------------------------------
(* The theorem.                                                               *)

\* The rows CalculateRepositoryMetrics writes of the days since its cutoff, by four
\* statements between which what they read changes, are for every day that did not change
\* what is stored of that day, and so they are until it changes.
THEOREM RowsRaw == Spec => []RowsAreRaw
  <1>1. Init => MetricInv
    BY MetricStart
  <1>2. MetricInv /\ [Next]_vars => MetricInv'
    BY MetricSteps
  <1>3. MetricInv => RowsAreRaw
    BY CalculatedIsRaw
  <1>4. QED
    BY <1>1, <1>2, <1>3, PTL DEF Spec

(***************************************************************************)
(* PullRequests.                                                             *)
(***************************************************************************)

-----------------------------------------------------------------------------
(* The inductive invariant.                                                   *)

IsPull(p) ==
  /\ p = [state |-> p.state, created |-> p.created, merged |-> p.merged, closed |-> p.closed,
          size |-> p.size, draft |-> p.draft]
  /\ p.state \in {"open", "closed"} /\ p.created \in Nat
  /\ {p.merged, p.closed} \subseteq Nat \cup {Null}

\* What is merged is closed, and what is closed has its time, after the first.
IsSnapshot(p) ==
  /\ IsPull(p)
  /\ p.created = 1 /\ \A t \in {p.merged, p.closed} : t # Null => t > 1
  /\ p.merged # Null => p.state = "closed"
  /\ p.state = "closed" => p.closed # Null

IsReview(w) == w = [at |-> w.at, state |-> w.state] /\ w.at \in Nat /\ w.at > 1

IsVersion(V) ==
  /\ V = [pr |-> V.pr, reviews |-> V.reviews] /\ IsSnapshot(V.pr)
  /\ \A r \in DOMAIN V.reviews : IsReview(V.reviews[r])

\* GitHub never opens a merged pull request again.
Versions ==
  /\ Now \in Nat \ {0} /\ (\E S : versions \in Seq(S))
  /\ \A k \in 1 .. Now : IsVersion(versions[k])
  /\ \A j, k \in 1 .. Now : j <= k /\ versions[j].pr.merged # Null => versions[k].pr.merged # Null

Mixed(S) == \E s \in S : s.state = "open" /\ s.closed # Null

\* The row has of each time the least or greatest of all snapshots, and is closed when one
\* of them is.
PullFollows(p, S) ==
  /\ IsPull(p)
  /\ (\E s \in S : s.created = p.created) /\ (\A s \in S : p.created <= s.created)
  /\ (\E s \in S : s.merged = p.merged) /\ (\A s \in S : p.merged >= s.merged)
  /\ (\E s \in S : s.closed = p.closed) /\ (\A s \in S : p.closed >= s.closed)
  /\ p.merged # Null => p.state = "closed"
  /\ ~Mixed(S) => (p.state = "closed" <=> \E s \in S : s.state = "closed")

IsReviewRow(w) ==
  /\ w = [requested |-> w.requested, first |-> w.first, submitted |-> w.submitted, state |-> w.state]
  /\ w.requested = Null /\ w.first \in Nat /\ w.submitted \in Nat
  /\ 1 < w.first /\ w.first <= w.submitted

\* And the row of a review, with the state of a snapshot that was submitted last.
ReviewFollows(w, S) ==
  /\ IsReviewRow(w)
  /\ (\E s \in S : s.first = w.first) /\ (\A s \in S : w.first <= s.first)
  /\ (\A s \in S : w.submitted >= s.submitted)
  /\ (\E s \in S : s.state = w.state /\ s.submitted = w.submitted)

OfReview(r) == {t.in : t \in {u \in takenReviews : u.id = r}}

PullInv ==
  /\ \A s \in taken : IsSnapshot(s)
  /\ IF taken = {} THEN pull = <<>> ELSE PullFollows(pull, taken)

ReviewInv ==
  /\ \A t \in takenReviews : IsReviewRow(t.in)
  /\ DOMAIN reviewRows = {t.id : t \in takenReviews}
  /\ \A r \in DOMAIN reviewRows : ReviewFollows(reviewRows[r], OfReview(r))

RowInv == Versions /\ PullInv /\ ReviewInv

-----------------------------------------------------------------------------
(* The least and the greatest.                                                *)

\* What Min and Max choose of a set that has a least and a greatest.
LEMMA MinIs ==
  ASSUME NEW S, S \subseteq Int, NEW x \in S, \A y \in S : x <= y
  PROVE  Min(S) = x
  <1> DEFINE IsIt(z) == z \in S /\ \A y \in S : z <= y
  <1>1. IsIt(CHOOSE z : IsIt(z))
    <2>1. IsIt(x)
      OBVIOUS
    <2> HIDE DEF IsIt
    <2>2. QED
      BY <2>1
  <1> DEFINE it == CHOOSE z : IsIt(z)
  <1>2. Min(S) = it
    BY DEF Min
  <1>3. IsIt(it)
    BY <1>1
  <1> HIDE DEF it
  <1>4. QED
    BY <1>2, <1>3

LEMMA MaxIs ==
  ASSUME NEW S, S \subseteq Int, NEW x \in S, \A y \in S : x >= y
  PROVE  Max(S) = x
  <1> DEFINE IsIt(z) == z \in S /\ \A y \in S : z >= y
  <1>1. IsIt(CHOOSE z : IsIt(z))
    <2>1. IsIt(x)
      OBVIOUS
    <2> HIDE DEF IsIt
    <2>2. QED
      BY <2>1
  <1> DEFINE it == CHOOSE z : IsIt(z)
  <1>2. Max(S) = it
    BY DEF Max
  <1>3. IsIt(it)
    BY <1>1
  <1> HIDE DEF it
  <1>4. QED
    BY <1>2, <1>3

LEMMA GreatestIs ==
  ASSUME NEW a \in Int, NEW b \in Int
  PROVE  Greatest(a, b) = IF a >= b THEN a ELSE b
  <1>1. CASE a >= b
    BY <1>1, MaxIs DEF Greatest
  <1>2. CASE ~(a >= b)
    <2>1. \A y \in {a, b} : b >= y
      BY <1>2
    <2>2. Max({a, b}) = b
      BY <2>1, MaxIs
    <2>3. QED
      BY <1>2, <2>2 DEF Greatest
  <1>3. QED
    BY <1>1, <1>2

LEMMA LeastIs ==
  ASSUME NEW a \in Nat, NEW b \in Nat
  PROVE  Least(a, b) = IF a <= b THEN a ELSE b
  <1>1. a # Null /\ b # Null
    BY DEF Null
  <1>2. CASE a <= b
    <2>1. Min({a, b}) = a
      BY <1>2, MinIs
    <2>2. QED
      BY <1>1, <1>2, <2>1 DEF Least
  <1>3. CASE ~(a <= b)
    <2>1. \A y \in {a, b} : b <= y
      BY <1>3
    <2>2. Min({a, b}) = b
      BY <2>1, MinIs
    <2>3. QED
      BY <1>1, <1>3, <2>2 DEF Least
  <1>4. QED
    BY <1>2, <1>3

LEMMA LeastOfNaturals ==
  ASSUME NEW T, T \subseteq Nat, T # {}
  PROVE  Min(T) \in T /\ \A x \in T : Min(T) <= x
  <1>1. \E x \in T : \A y \in T : <<y, x>> \notin OpToRel(<, Nat)
    BY WFMin, NatLessThanWellFounded
  <1>2. PICK x \in T : \A y \in T : <<y, x>> \notin OpToRel(<, Nat)
    BY <1>1
  <1>3. \A y \in T : ~(y < x)
    BY <1>2 DEF OpToRel
  <1>4. x \in Int /\ T \subseteq Int /\ \A y \in T : x <= y
    BY <1>3
  <1>5. Min(T) = x
    BY <1>4, MinIs
  <1>6. QED
    BY <1>4, <1>5

\* A row is never the absence of one.
LEMMA RowsAreThere ==
  /\ \A p : IsPull(p) => p # <<>>
  /\ \A w : IsReviewRow(w) => w # <<>>
  <1>1. ASSUME NEW p, IsPull(p)
        PROVE  p # <<>>
    <2>1. \A a, b, c, d, e, f : [state |-> a, created |-> b, merged |-> c, closed |-> d,
                                 size |-> e, draft |-> f] # <<>>
      OBVIOUS
    <2>2. QED
      BY <1>1, <2>1 DEF IsPull
  <1>2. ASSUME NEW w, IsReviewRow(w)
        PROVE  w # <<>>
    <2>1. \A a, b, c, d : [requested |-> a, first |-> b, submitted |-> c, state |-> d] # <<>>
      OBVIOUS
    <2>2. QED
      BY <1>2, <2>1 DEF IsReviewRow
  <1>3. QED
    BY <1>1, <1>2

-----------------------------------------------------------------------------
(* The upserts.                                                               *)

LEMMA UpsertedPull ==
  ASSUME NEW p, NEW S, PullFollows(p, S), \A s \in S : IsSnapshot(s), NEW in, IsSnapshot(in)
  PROVE  PullFollows(UpsertPullRequest(p, in), S \cup {in})
  <1> DEFINE q == UpsertPullRequest(p, in)
             stays == \/ p.merged # Null /\ in.merged = Null
                      \/ p.closed # Null /\ in.closed = Null /\ in.state = "open"
  <1>1. /\ {p.created, in.created} \subseteq Nat
        /\ {p.merged, p.closed, in.merged, in.closed} \subseteq Int
        /\ {p.merged, p.closed, in.merged, in.closed} \subseteq Nat \cup {Null}
        /\ {p.state, in.state} \subseteq {"open", "closed"}
    BY DEF PullFollows, IsPull, IsSnapshot, Null
  <1>2. /\ q = [state |-> q.state, created |-> q.created, merged |-> q.merged,
                closed |-> q.closed, size |-> q.size, draft |-> q.draft]
        /\ q.state = IF stays THEN p.state ELSE in.state
        /\ q.created = Least(p.created, in.created) /\ q.merged = Greatest(p.merged, in.merged)
        /\ q.closed = Greatest(p.closed, in.closed)
    <2>1. p # <<>>
      BY RowsAreThere DEF PullFollows
    <2>2. QED
      BY <2>1 DEF UpsertPullRequest, IsSnapshot, IsPull
  <1>3. /\ q.created = IF p.created <= in.created THEN p.created ELSE in.created
        /\ q.merged = IF p.merged >= in.merged THEN p.merged ELSE in.merged
        /\ q.closed = IF p.closed >= in.closed THEN p.closed ELSE in.closed
    BY <1>1, <1>2, LeastIs, GreatestIs
  <1> HIDE DEF q
  <1>4. IsPull(q)
    BY <1>1, <1>2, <1>3 DEF IsPull
  <1>5. \A s \in S : s.created \in Nat /\ s.merged \in Int /\ s.closed \in Int
    BY DEF IsSnapshot, IsPull, Null
  <1>6. /\ \E s \in S \cup {in} : s.created = q.created
        /\ \A s \in S \cup {in} : q.created <= s.created
    BY <1>1, <1>3, <1>5 DEF PullFollows
  <1>7. /\ \E s \in S \cup {in} : s.merged = q.merged
        /\ \A s \in S \cup {in} : q.merged >= s.merged
    BY <1>1, <1>3, <1>5 DEF PullFollows
  <1>8. /\ \E s \in S \cup {in} : s.closed = q.closed
        /\ \A s \in S \cup {in} : q.closed >= s.closed
    BY <1>1, <1>3, <1>5 DEF PullFollows
  <1>9. q.merged # Null => q.state = "closed"
    BY <1>1, <1>2, <1>3 DEF PullFollows, IsSnapshot
  <1>10. ASSUME ~Mixed(S \cup {in})
         PROVE  q.state = "closed" <=> \E s \in S \cup {in} : s.state = "closed"
    <2>1. ~Mixed(S) /\ (in.state = "open" => in.closed = Null)
      BY <1>10 DEF Mixed
    <2>2. p.state = "closed" <=> \E s \in S : s.state = "closed"
      BY <2>1 DEF PullFollows
    <2>3. CASE in.state = "closed"
      <3>1. stays => p.state = "closed"
        BY <2>3 DEF PullFollows
      <3>2. QED
        BY <1>2, <2>3, <3>1
    <2>4. CASE in.state = "open"
      <3>1. in.merged = Null /\ in.closed = Null
        BY <2>1, <2>4 DEF IsSnapshot
      <3>2. p.closed = Null => \A s \in S : s.closed = Null
        BY <1>5 DEF PullFollows, IsSnapshot, IsPull, Null
      <3>3. p.closed = Null => \A s \in S : s.state # "closed"
        BY <3>2 DEF IsSnapshot
      <3>4. QED
        BY <1>2, <2>2, <2>4, <3>1, <3>3 DEF PullFollows
    <2>5. QED
      BY <1>1, <2>3, <2>4
  <1>11. QED
    BY <1>4, <1>6, <1>7, <1>8, <1>9, <1>10 DEF PullFollows, q

LEMMA UpsertedReview ==
  ASSUME NEW w, NEW S, ReviewFollows(w, S), \A s \in S : IsReviewRow(s), NEW in, IsReviewRow(in)
  PROVE  ReviewFollows(UpsertPullRequestReview(w, in), S \cup {in})
  <1> DEFINE v == UpsertPullRequestReview(w, in)
  <1>1. {w.first, in.first, w.submitted, in.submitted} \subseteq Nat /\ in.submitted # Null
    BY DEF ReviewFollows, IsReviewRow, Null
  <1>2. /\ v = [requested |-> v.requested, first |-> v.first, submitted |-> v.submitted,
                state |-> v.state]
        /\ v.requested = Least(w.requested, in.requested)
        /\ v.first = Least(w.first, in.first) /\ v.submitted = Greatest(w.submitted, in.submitted)
        /\ v.state = IF in.submitted >= w.submitted THEN in.state ELSE w.state
    <2>1. w # <<>>
      BY RowsAreThere DEF ReviewFollows
    <2>2. QED
      BY <1>1, <2>1 DEF UpsertPullRequestReview, IsReviewRow
  <1>3. /\ v.requested = Null /\ v.first = IF w.first <= in.first THEN w.first ELSE in.first
        /\ v.submitted = IF w.submitted >= in.submitted THEN w.submitted ELSE in.submitted
    <2>1. Least(w.requested, in.requested) = Null
      BY DEF Least, ReviewFollows, IsReviewRow
    <2>2. QED
      BY <1>1, <1>2, <2>1, LeastIs, GreatestIs
  <1> HIDE DEF v
  <1>4. IsReviewRow(v)
    BY <1>1, <1>2, <1>3 DEF IsReviewRow, ReviewFollows
  <1>5. \A s \in S : s.first \in Nat /\ s.submitted \in Nat
    BY DEF IsReviewRow
  <1>6. /\ \E s \in S \cup {in} : s.first = v.first
        /\ \A s \in S \cup {in} : v.first <= s.first
        /\ \A s \in S \cup {in} : v.submitted >= s.submitted
    BY <1>1, <1>3, <1>5 DEF ReviewFollows
  <1>7. \E s \in S \cup {in} : s.state = v.state /\ s.submitted = v.submitted
    <2>1. CASE in.submitted >= w.submitted
      BY <1>1, <1>2, <1>3, <2>1
    <2>2. CASE ~(in.submitted >= w.submitted)
      BY <1>1, <1>2, <1>3, <2>2 DEF ReviewFollows
    <2>3. QED
      BY <2>1, <2>2
  <1>8. QED
    BY <1>4, <1>6, <1>7 DEF ReviewFollows, v

LEMMA StoreKeeps ==
  ASSUME PullInv, ReviewInv, NEW in, IsSnapshot(in), NEW inReviews,
         \A r \in DOMAIN inReviews : IsReviewRow(inReviews[r]), Store(in, inReviews)
  PROVE  PullInv' /\ ReviewInv'
  <1>1. PullInv'
    <2>1. taken' = taken \cup {in} /\ pull' = UpsertPullRequest(pull, in)
      BY DEF Store
    <2>2. CASE taken = {}
      <3>1. pull' = in
        BY <2>1, <2>2 DEF PullInv, UpsertPullRequest
      <3>2. IsPull(in) /\ in.created \in Nat /\ in.merged \in Int /\ in.closed \in Int
        BY DEF IsSnapshot, IsPull, Null
      <3>3. in.merged # Null => in.state = "closed"
        BY DEF IsSnapshot
      <3>4. PullFollows(in, {in})
        BY <3>2, <3>3 DEF PullFollows
      <3>5. QED
        BY <2>1, <2>2, <3>1, <3>4 DEF PullInv
    <2>3. CASE taken # {}
      <3>1. PullFollows(UpsertPullRequest(pull, in), taken \cup {in})
        BY <2>3, UpsertedPull DEF PullInv
      <3>2. QED
        BY <2>1, <3>1 DEF PullInv
    <2>4. QED
      BY <2>2, <2>3
  <1>2. ReviewInv'
    <2>1. /\ reviewRows' = [r \in DOMAIN inReviews \cup DOMAIN reviewRows |->
               IF r \in DOMAIN inReviews
                 THEN UpsertPullRequestReview(RowOfReview(r), inReviews[r]) ELSE reviewRows[r]]
          /\ takenReviews' = takenReviews \cup {[id |-> r, in |-> inReviews[r]] : r \in DOMAIN inReviews}
      BY DEF Store
    <2>2. \A t \in takenReviews' : IsReviewRow(t.in)
      BY <2>1 DEF ReviewInv
    <2> DEFINE new(r) == [id |-> r, in |-> inReviews[r]]
    <2>3. \A r : new(r).id = r /\ new(r).in = inReviews[r]
      OBVIOUS
    <2>4. takenReviews' = takenReviews \cup {new(r) : r \in DOMAIN inReviews}
      BY <2>1
    <2> HIDE DEF new
    <2>5. DOMAIN reviewRows' = {t.id : t \in takenReviews'}
      <3>1. DOMAIN reviewRows' = DOMAIN inReviews \cup {t.id : t \in takenReviews}
        BY <2>1 DEF ReviewInv
      <3>2. QED
        BY <2>3, <2>4, <3>1
    <2>6. \A r : OfReview(r)' = IF r \in DOMAIN inReviews THEN OfReview(r) \cup {inReviews[r]}
                                ELSE OfReview(r)
      <3>1. ASSUME NEW r, NEW w
            PROVE  w \in OfReview(r)' <=> w \in OfReview(r) \/ (r \in DOMAIN inReviews /\ w = inReviews[r])
        BY <2>3, <2>4 DEF OfReview
      <3>2. QED
        BY <3>1
    <2>7. ASSUME NEW r \in DOMAIN reviewRows'
          PROVE  ReviewFollows(reviewRows'[r], OfReview(r)')
      <3>1. CASE r \notin DOMAIN inReviews
        BY <2>1, <2>6, <3>1 DEF ReviewInv
      <3>2. CASE r \in DOMAIN inReviews /\ r \in DOMAIN reviewRows
        <4>1. /\ reviewRows'[r] = UpsertPullRequestReview(reviewRows[r], inReviews[r])
              /\ OfReview(r)' = OfReview(r) \cup {inReviews[r]}
          BY <2>1, <2>6, <3>2 DEF RowOfReview
        <4>2. \A s \in OfReview(r) : IsReviewRow(s)
          BY DEF OfReview, ReviewInv
        <4>3. QED
          BY <3>2, <4>1, <4>2, UpsertedReview DEF ReviewInv
      <3>3. CASE r \in DOMAIN inReviews /\ r \notin DOMAIN reviewRows
        <4>1. reviewRows'[r] = inReviews[r]
          BY <2>1, <3>3 DEF RowOfReview, UpsertPullRequestReview
        <4>2. OfReview(r) = {}
          BY <3>3 DEF OfReview, ReviewInv
        <4>3. OfReview(r)' = {inReviews[r]} /\ IsReviewRow(inReviews[r])
          BY <2>6, <3>3, <4>2
        <4>4. QED
          BY <4>1, <4>3 DEF ReviewFollows, IsReviewRow
      <3>4. QED
        BY <3>1, <3>2, <3>3
    <2>8. QED
      BY <2>2, <2>5, <2>7 DEF ReviewInv
  <1>3. QED
    BY <1>1, <1>2

-----------------------------------------------------------------------------
(* GitHub's versions.                                                         *)

\* One version more, of a pull request that stays merged if it was.
LEMMA VersionKeeps ==
  ASSUME Versions, NEW pr, IsSnapshot(pr), NEW submitted,
         \A r \in DOMAIN submitted : IsReview(submitted[r]),
         versions[Now].pr.merged # Null => pr.merged # Null, Version(pr, submitted)
  PROVE  Versions'
  <1> DEFINE V == [pr |-> pr, reviews |-> submitted]
  <1>1. versions' = Append(versions, V) /\ IsVersion(V) /\ V.pr = pr
    BY DEF Version, IsVersion
  <1> HIDE DEF V
  <1>2. PICK S : versions \in Seq(S)
    BY DEF Versions
  <1>3. versions \in Seq(S \cup {V})
    BY <1>2
  <1>4. /\ versions' \in Seq(S \cup {V}) /\ Len(versions') = Len(versions) + 1
        /\ versions'[Len(versions) + 1] = V
        /\ \A k \in 1 .. Len(versions) : versions'[k] = versions[k]
    BY <1>1, <1>3
  <1>5. Now \in Nat \ {0} /\ Now' = Now + 1 /\ versions'[Now + 1] = V
        /\ \A k \in 1 .. Now : versions'[k] = versions[k]
    BY <1>4 DEF Now, Versions
  <1>6. ASSUME NEW k \in 1 .. Now'
        PROVE  IsVersion(versions'[k])
    <2>1. k \in 1 .. Now \/ k = Now + 1
      BY <1>5
    <2>2. QED
      BY <1>1, <1>5, <2>1 DEF Versions
  <1>7. ASSUME NEW j \in 1 .. Now', NEW k \in 1 .. Now', j <= k, versions'[j].pr.merged # Null
        PROVE  versions'[k].pr.merged # Null
    <2>1. (j \in 1 .. Now \/ j = Now + 1) /\ (k \in 1 .. Now \/ k = Now + 1)
      BY <1>5
    <2>2. CASE k \in 1 .. Now
      <3>1. j \in 1 .. Now
        BY <1>5, <1>7, <2>2
      <3>2. QED
        BY <1>5, <1>7, <2>2, <3>1 DEF Versions
    <2>3. CASE k = Now + 1 /\ j \in 1 .. Now
      <3>1. Now \in 1 .. Now /\ j <= Now
        BY <1>5, <2>3
      <3>2. versions[Now].pr.merged # Null
        BY <1>5, <1>7, <2>3, <3>1 DEF Versions
      <3>3. QED
        BY <1>1, <1>5, <2>3, <3>2
    <2>4. CASE k = Now + 1 /\ j = Now + 1
      BY <1>7, <2>4
    <2>5. QED
      BY <2>1, <2>2, <2>3, <2>4
  <1>8. QED
    BY <1>4, <1>5, <1>6, <1>7 DEF Versions

LEMMA ChangeKeeps ==
  ASSUME Versions, Change
  PROVE  Versions'
  <1> DEFINE V == versions[Now]  at == Now + 1
  <1>1. at \in Nat /\ at > 1 /\ at # Null /\ IsVersion(V)
    BY DEF Versions, Null
  <1>2. PICK pr : /\ Version(pr, V.reviews)
                  /\ \/ pr = [V.pr EXCEPT !.size = @ + 1]
                     \/ pr = [V.pr EXCEPT !.draft = FALSE]
                     \/ V.pr.state = "open" /\ pr = [V.pr EXCEPT !.state = "closed", !.closed = at]
                     \/ V.pr.state = "open" /\ pr = [V.pr EXCEPT !.state = "closed", !.closed = at,
                                                                 !.merged = at]
                     \/ V.pr.merged = Null /\ pr = [V.pr EXCEPT !.state = "open", !.closed = Null]
    BY DEF Change
  <1> HIDE DEF V, at
  <1>3. IsSnapshot(V.pr)
    BY <1>1 DEF IsVersion
  <1>4. IsPull(pr)
    BY <1>1, <1>2, <1>3 DEF IsSnapshot, IsPull
  <1>5. /\ pr.merged # Null => pr.state = "closed"
        /\ pr.state = "closed" => pr.closed # Null
        /\ V.pr.merged # Null => pr.merged # Null
    BY <1>1, <1>2, <1>3 DEF IsSnapshot, IsPull
  <1>6. pr.created = 1 /\ \A t \in {pr.merged, pr.closed} : t # Null => t > 1
    BY <1>1, <1>2, <1>3 DEF IsSnapshot, IsPull
  <1>7. IsSnapshot(pr)
    BY <1>4, <1>5, <1>6 DEF IsSnapshot
  <1>8. QED
    BY <1>1, <1>2, <1>5, <1>7, VersionKeeps DEF IsVersion, V

LEMMA SubmitKeeps ==
  ASSUME Versions, NEW r, Submit(r)
  PROVE  Versions'
  <1> DEFINE V == versions[Now]
  <1>1. Now + 1 \in Nat /\ Now + 1 > 1 /\ IsVersion(V)
    BY DEF Versions
  <1>2. CASE Version(V.pr, [s \in DOMAIN V.reviews \cup {r} |->
               IF s = r THEN [at |-> Now + 1, state |-> "approved"] ELSE V.reviews[s]])
    <2> DEFINE more == [s \in DOMAIN V.reviews \cup {r} |->
               IF s = r THEN [at |-> Now + 1, state |-> "approved"] ELSE V.reviews[s]]
    <2>1. \A s \in DOMAIN more : IsReview(more[s])
      BY <1>1 DEF IsVersion, IsReview
    <2> HIDE DEF more
    <2>2. Version(V.pr, more)
      BY <1>2 DEF more
    <2>3. QED
      BY <1>1, <2>1, <2>2, VersionKeeps DEF IsVersion
  <1>3. CASE r \in DOMAIN V.reviews /\ Version(V.pr, [V.reviews EXCEPT ![r].state = "dismissed"])
    <2> DEFINE other == [V.reviews EXCEPT ![r].state = "dismissed"]
    <2>1. DOMAIN other = DOMAIN V.reviews
      OBVIOUS
    <2>2. \A s \in DOMAIN other : other[s] = IF s = r THEN [V.reviews[s] EXCEPT !.state = "dismissed"]
                                             ELSE V.reviews[s]
      OBVIOUS
    <2>3. \A s \in DOMAIN other : IsReview(other[s])
      <3>1. \A w : IsReview(w) => IsReview([w EXCEPT !.state = "dismissed"])
        BY DEF IsReview
      <3>2. \A s \in DOMAIN V.reviews : IsReview(V.reviews[s])
        BY <1>1 DEF IsVersion
      <3> HIDE DEF other, V
      <3>3. QED
        BY <2>1, <2>2, <3>1, <3>2
    <2> HIDE DEF other
    <2>4. Version(V.pr, other)
      BY <1>3 DEF other
    <2>5. QED
      BY <1>1, <2>3, <2>4, VersionKeeps DEF IsVersion
  <1>4. QED
    BY <1>2, <1>3 DEF Submit

-----------------------------------------------------------------------------
(* What is stored is a snapshot.                                              *)

\* Of an event: of one version, with or without its size.
LEMMA EventStores ==
  ASSUME RowInv, NEW k \in 1 .. Now, NEW r, ProjectPullRequest(k) \/ ProjectReview(k, r)
  PROVE  PullInv' /\ ReviewInv'
  <1>1. IsVersion(versions[k])
    BY DEF RowInv, Versions
  <1>2. CASE ProjectPullRequest(k)
    <2>1. Store(versions[k].pr, <<>>) /\ IsSnapshot(versions[k].pr)
      BY <1>1, <1>2 DEF ProjectPullRequest, IsVersion
    <2>2. \A s \in DOMAIN <<>> : IsReviewRow(<<>>[s])
      OBVIOUS
    <2>3. QED
      BY <2>1, <2>2, StoreKeeps DEF RowInv
  <1>3. CASE ProjectReview(k, r)
    <2> DEFINE review == versions[k].reviews[r]
               row == [s \in {r} |-> ReviewRow(review, review.at)]
    <2>1. PICK size : Store([versions[k].pr EXCEPT !.size = size], row)
      BY <1>3 DEF ProjectReview
    <2>2. IsSnapshot([versions[k].pr EXCEPT !.size = size])
      BY <1>1 DEF IsVersion, IsSnapshot, IsPull
    <2>3. \A s \in DOMAIN row : IsReviewRow(row[s])
      <3>1. r \in DOMAIN versions[k].reviews
        BY <1>3 DEF ProjectReview
      <3>2. IsReview(review)
        BY <1>1, <3>1 DEF IsVersion
      <3>3. IsReviewRow(ReviewRow(review, review.at))
        BY <3>2 DEF IsReview, IsReviewRow, ReviewRow
      <3>4. QED
        BY <3>3
    <2> HIDE DEF row
    <2>4. QED
      BY <2>1, <2>2, <2>3, StoreKeeps DEF RowInv
  <1>4. QED
    BY <1>2, <1>3

\* Of a sync: of two versions, the later of which is merged if the earlier is.
LEMMA SyncStores ==
  ASSUME RowInv, NEW page \in 1 .. Now, NEW detail \in 1 .. Now, NEW later \in 1 .. Now,
         NEW cutoff \in 0 .. Now, SyncPullRequest(page, detail, later, cutoff)
  PROVE  PullInv' /\ ReviewInv'
  <1> DEFINE V == versions[detail]  W == versions[page]
             of == SyncReviews(versions[later].reviews, cutoff)
             in == BuildPullRequestInput(V.pr, W.pr)
             inReviews == BuildReviewInputs(of)
  <1>1. /\ Store(in, inReviews) /\ page <= detail
        /\ IsVersion(V) /\ IsVersion(W) /\ IsVersion(versions[later])
    BY DEF SyncPullRequest, RowInv, Versions
  <1>0. \A s \in DOMAIN of : IsReview(of[s])
    BY <1>1 DEF IsVersion, SyncReviews
  <1>2. IsSnapshot(V.pr) /\ IsSnapshot(W.pr) /\ (W.pr.merged # Null => V.pr.merged # Null)
    BY <1>1 DEF IsVersion, RowInv, Versions
  <1> HIDE DEF V, W, of
  <1>3. /\ in = [state |-> in.state, created |-> in.created, merged |-> in.merged,
                 closed |-> in.closed, size |-> in.size, draft |-> in.draft]
        /\ in.state = V.pr.state /\ in.created = V.pr.created
        /\ in.closed = IF V.pr.closed = Null THEN W.pr.closed ELSE V.pr.closed
        /\ in.merged = IF V.pr.merged = Null THEN W.pr.merged ELSE V.pr.merged
    <2> DEFINE closed == IF V.pr.closed = Null THEN W.pr.closed ELSE V.pr.closed
               merged == IF V.pr.merged = Null THEN W.pr.merged ELSE V.pr.merged
               draft == V.pr.draft \/ W.pr.draft
    <2>1. IsPull(V.pr)
      BY <1>2 DEF IsSnapshot
    <2>2. in = [V.pr EXCEPT !.closed = closed, !.merged = merged, !.draft = draft]
      BY <2>1 DEF BuildPullRequestInput, IsPull
    <2> HIDE DEF in, closed, merged, draft
    <2>3. /\ in = [state |-> V.pr.state, created |-> V.pr.created, merged |-> merged,
                   closed |-> closed, size |-> V.pr.size, draft |-> draft]
      BY <2>1, <2>2 DEF IsPull
    <2>4. QED
      BY <2>3 DEF closed, merged
  <1> HIDE DEF in
  <1>4. IsSnapshot(in)
    BY <1>2, <1>3 DEF IsSnapshot, IsPull
  <1>5. ASSUME NEW r \in DOMAIN of
        PROVE  IsReviewRow(inReviews[r])
    <2> DEFINE first == Min({of[s].at : s \in DOMAIN of})
    <2>1. \A s \in DOMAIN of : IsReview(of[s])
      BY <1>0
    <2>2. first \in Nat /\ 1 < first /\ first <= of[r].at
      <3>1. {of[s].at : s \in DOMAIN of} \subseteq Nat /\ {of[s].at : s \in DOMAIN of} # {}
        BY <1>5, <2>1 DEF IsReview
      <3>2. \A at \in {of[s].at : s \in DOMAIN of} : at > 1
        BY <2>1 DEF IsReview
      <3>3. of[r].at \in {of[s].at : s \in DOMAIN of}
        BY <1>5
      <3> DEFINE T == {of[s].at : s \in DOMAIN of}
      <3> HIDE DEF T
      <3>4. T \subseteq Nat /\ T # {} /\ of[r].at \in T /\ \A at \in T : at > 1
        BY <3>1, <3>2, <3>3 DEF T
      <3>5. Min(T) \in T /\ \A at \in T : Min(T) <= at
        BY <3>4, LeastOfNaturals
      <3>6. QED
        BY <3>4, <3>5 DEF T
    <2>3. inReviews[r] = ReviewRow(of[r], first)
      BY <1>5 DEF BuildReviewInputs
    <2> HIDE DEF first
    <2>4. of[r].at \in Nat
      BY <1>5, <2>1 DEF IsReview
    <2>5. IsReviewRow(ReviewRow(of[r], first))
      BY <2>2, <2>4 DEF IsReviewRow, ReviewRow
    <2>6. QED
      BY <2>3, <2>5
  <1>6. DOMAIN inReviews = DOMAIN of
    BY DEF BuildReviewInputs
  <1> HIDE DEF inReviews
  <1>7. QED
    BY <1>1, <1>4, <1>5, <1>6, StoreKeeps DEF RowInv

-----------------------------------------------------------------------------
(* Every step.                                                                *)

LEMMA RowStart == Init => RowInv
  <1> SUFFICES ASSUME PullRequestsInit
               PROVE  RowInv
    BY DEF Init
  <1>1. /\ versions = <<[pr |-> Opened, reviews |-> <<>>]>> /\ pull = <<>> /\ reviewRows = <<>>
        /\ taken = {} /\ takenReviews = {}
    BY DEF PullRequestsInit
  <1>2. IsSnapshot(Opened)
    BY DEF IsSnapshot, IsPull, Opened, Null
  <1>3. IsVersion([pr |-> Opened, reviews |-> <<>>])
    BY <1>2 DEF IsVersion
  <1>4. Versions
    <2> DEFINE V == [pr |-> Opened, reviews |-> <<>>]
    <2> HIDE DEF V
    <2>1. versions = <<V>> /\ IsVersion(V)
      BY <1>1, <1>3 DEF V
    <2>2. versions \in Seq({V}) /\ Now = 1 /\ versions[1] = V
      BY <2>1 DEF Now
    <2>3. \A k \in 1 .. Now : versions[k] = V
      BY <2>2
    <2>4. V.pr.merged = Null
      BY DEF V, Opened
    <2>5. \A k \in 1 .. Now : IsVersion(versions[k]) /\ versions[k].pr.merged = Null
      BY <2>1, <2>3, <2>4
    <2>6. Now \in Nat \ {0} /\ \E S : versions \in Seq(S)
      BY <2>2
    <2>7. QED
      BY <2>5, <2>6 DEF Versions
  <1>5. QED
    BY <1>1, <1>4 DEF RowInv, PullInv, ReviewInv, OfReview

LEMMA OthersKeepRows ==
  /\ RowInv /\ UNCHANGED pullVars => RowInv'
  /\ RowInv /\ UNCHANGED <<pull, reviewRows, taken, takenReviews>> => PullInv' /\ ReviewInv'
  /\ RowInv /\ UNCHANGED versions => Versions'
  BY DEF RowInv, pullVars, Versions, Now, PullInv, ReviewInv, OfReview

LEMMA RowSteps == RowInv /\ PullRequestsNext => RowInv'
  <1> SUFFICES ASSUME RowInv, PullRequestsNext
               PROVE  RowInv'
    OBVIOUS
  <1>1. CASE Change
    <2>1. UNCHANGED <<pull, reviewRows, taken, takenReviews>>
      BY <1>1 DEF Change, Version
    <2>2. QED
      BY <1>1, <2>1, ChangeKeeps, OthersKeepRows DEF RowInv
  <1>2. CASE \E r \in ReviewIds : Submit(r)
    <2>1. PICK r \in ReviewIds : Submit(r)
      BY <1>2
    <2>2. UNCHANGED <<pull, reviewRows, taken, takenReviews>>
      BY <2>1 DEF Submit, Version
    <2>3. QED
      BY <2>1, <2>2, SubmitKeeps, OthersKeepRows DEF RowInv
  <1>3. CASE \E k \in 1 .. Now : ProjectPullRequest(k) \/ \E r \in ReviewIds : ProjectReview(k, r)
    <2>1. PICK k \in 1 .. Now : ProjectPullRequest(k) \/ \E r \in ReviewIds : ProjectReview(k, r)
      BY <1>3
    <2>2. UNCHANGED versions
      BY <2>1 DEF ProjectPullRequest, ProjectReview, Store
    <2>3. QED
      BY <2>1, <2>2, EventStores, OthersKeepRows DEF RowInv
  <1>4. CASE \E page, detail, later \in 1 .. Now, cutoff \in 0 .. Now :
               SyncPullRequest(page, detail, later, cutoff)
    <2>1. UNCHANGED versions
      BY <1>4 DEF SyncPullRequest, Store
    <2>2. QED
      BY <1>4, <2>1, SyncStores, OthersKeepRows DEF RowInv
  <1>5. QED
    BY <1>1, <1>2, <1>3, <1>4 DEF PullRequestsNext

\* The step is one of a pull request, or of another part.
LEMMA PullPart == [Next]_vars => PullRequestsNext \/ UNCHANGED pullVars
  BY DEF Next, vars

LEMMA RowsConverge == RowInv => SnapshotsConverge
  <1> SUFFICES ASSUME RowInv, pull # <<>>
               PROVE  SnapshotsConverge
    BY DEF SnapshotsConverge
  <1>1. PullFollows(pull, taken) /\ (\A s \in taken : IsSnapshot(s))
    BY DEF RowInv, PullInv
  <1>2. /\ {s.created : s \in taken} \subseteq Int /\ {s.merged : s \in taken} \subseteq Int
        /\ {s.closed : s \in taken} \subseteq Int
    BY <1>1 DEF IsSnapshot, IsPull, Null
  <1>3. pull.created = Min({s.created : s \in taken})
    <2>1. /\ pull.created \in {s.created : s \in taken}
          /\ \A x \in {s.created : s \in taken} : pull.created <= x
      BY <1>1 DEF PullFollows
    <2>2. QED
      BY <1>2, <2>1, MinIs
  <1>4. pull.merged = Max({s.merged : s \in taken})
    <2>1. /\ pull.merged \in {s.merged : s \in taken}
          /\ \A x \in {s.merged : s \in taken} : pull.merged >= x
      BY <1>1 DEF PullFollows
    <2>2. QED
      BY <1>2, <2>1, MaxIs
  <1>5. pull.closed = Max({s.closed : s \in taken})
    <2>1. /\ pull.closed \in {s.closed : s \in taken}
          /\ \A x \in {s.closed : s \in taken} : pull.closed >= x
      BY <1>1 DEF PullFollows
    <2>2. QED
      BY <1>2, <2>1, MaxIs
  <1>6. ASSUME NEW r \in DOMAIN reviewRows
        PROVE  /\ reviewRows[r].first = Min({in.first : in \in OfReview(r)})
               /\ reviewRows[r].submitted = Max({in.submitted : in \in OfReview(r)})
               /\ \E in \in OfReview(r) : in.state = reviewRows[r].state
                                          /\ in.submitted = reviewRows[r].submitted
    <2>1. ReviewFollows(reviewRows[r], OfReview(r)) /\ (\A in \in OfReview(r) : IsReviewRow(in))
      BY DEF RowInv, ReviewInv, OfReview
    <2>2. /\ {in.first : in \in OfReview(r)} \subseteq Int
          /\ {in.submitted : in \in OfReview(r)} \subseteq Int
      BY <2>1 DEF IsReviewRow
    <2>3. /\ reviewRows[r].first \in {in.first : in \in OfReview(r)}
          /\ \A x \in {in.first : in \in OfReview(r)} : reviewRows[r].first <= x
          /\ reviewRows[r].submitted \in {in.submitted : in \in OfReview(r)}
          /\ \A x \in {in.submitted : in \in OfReview(r)} : reviewRows[r].submitted >= x
      BY <2>1 DEF ReviewFollows
    <2>4. QED
      BY <2>1, <2>2, <2>3, MinIs, MaxIs DEF ReviewFollows
  <1>7. /\ pull.merged # Null => pull.state = "closed"
        /\ ~Mixed(taken) => (pull.state = "closed" <=> {s \in taken : s.state = "closed"} # {})
    BY <1>1 DEF PullFollows
  <1>8. QED
    BY <1>3, <1>4, <1>5, <1>6, <1>7 DEF SnapshotsConverge, OfReview, Mixed

-----------------------------------------------------------------------------
(* The theorem.                                                               *)

\* What is left of a pull request and of its reviews (upsertPullRequest,
\* upsertPullRequestReview) is the same in whatever order, and however often, its
\* snapshots are stored: the earliest creation, the latest merge and close, closed when
\* any of them is, and of each review the latest state.
THEOREM SnapshotsMeet == Spec => []SnapshotsConverge
  <1>1. Init => RowInv
    BY RowStart
  <1>2. RowInv /\ [Next]_vars => RowInv'
    BY PullPart, RowSteps, OthersKeepRows
  <1>3. RowInv => SnapshotsConverge
    BY RowsConverge
  <1>4. QED
    BY <1>1, <1>2, <1>3, PTL DEF Spec

(***************************************************************************)
(* InsightRules.                                                            *)
(***************************************************************************)

\* The sequences of all subsets.
Appending(it, S) ==
  it = [s \in SUBSET S |-> IF s = {} THEN <<>>
                            ELSE Append(it[s \ {CHOOSE x \in s : TRUE}], CHOOSE x \in s : TRUE)]

LEMMA InARowIs ==
  ASSUME NEW S, IsFiniteSet(S)
  PROVE  InARow(S) \in Seq(S) /\ \A x \in S : \E n \in 1 .. Len(InARow(S)) : InARow(S)[n] = x
  <1>0. \A A, B : A \subseteq B => Seq(A) \subseteq Seq(B)
    OBVIOUS
  <1> DEFINE step == [a \in S \X Seq(S) |-> Append(a[2], a[1])]
  <1>1. step \in [S \X Seq(S) -> Seq(S)] /\ <<>> \in Seq(S)
    OBVIOUS
  <1>2. \A x \in S, v \in Seq(S) : step[<<x, v>>] = Append(v, x)
    OBVIOUS
  <1> HIDE DEF step
  <1>3. \E it : Appending(it, S)
    <2>1. PICK it \in [SUBSET S -> Seq(S)] : Follows(it, SUBSET S, <<>>, First(S), step)
      BY <1>1, FirstIsIn, FollowsEverywhere
    <2>2. \A s \in SUBSET S : it[s] = IF s = {} THEN <<>> ELSE step[<<First(S)[s], it[s \ {First(S)[s]}]>>]
      BY <2>1 DEF Follows
    <2>3. ASSUME NEW s \in SUBSET S, s # {}
          PROVE  it[s] = Append(it[s \ {CHOOSE x \in s : TRUE}], CHOOSE x \in s : TRUE)
      <3>1. PICK c \in S : c = (CHOOSE x \in s : TRUE) /\ First(S)[s] = c
        BY <2>3 DEF First
      <3>2. it[s \ {c}] \in Seq(S)
        OBVIOUS
      <3>3. it[s] = step[<<c, it[s \ {c}]>>]
        BY <2>2, <2>3, <3>1
      <3>4. step[<<c, it[s \ {c}]>>] = Append(it[s \ {c}], c)
        BY <1>2, <3>2
      <3>5. QED
        BY <3>1, <3>3, <3>4
    <2>4. it = [s \in SUBSET S |-> it[s]] /\ it[{}] = <<>>
      BY <2>2
    <2>5. \A s \in SUBSET S : it[s] = IF s = {} THEN <<>>
            ELSE Append(it[s \ {CHOOSE x \in s : TRUE}], CHOOSE x \in s : TRUE)
      BY <2>3, <2>4
    <2>6. QED
      BY <2>4, <2>5 DEF Appending
  <1> DEFINE it == CHOOSE it : Appending(it, S)
  <1>4. InARow(S) = it[S]
    BY DEF InARow, FoldSet, MapThenFoldSet, Appending
  <1>5. Appending(it, S)
    BY <1>3
  <1> HIDE DEF it
  <1>6. \A s \in SUBSET S : it[s] = IF s = {} THEN <<>>
          ELSE Append(it[s \ {CHOOSE x \in s : TRUE}], CHOOSE x \in s : TRUE)
    BY <1>5 DEF Appending
  <1> DEFINE Row(s) == it[s] \in Seq(s) /\ \A x \in s : \E n \in 1 .. Len(it[s]) : it[s][n] = x
             G == {s \in SUBSET S : Row(s)}
  <1>7. {} \in G
    <2>1. {} \in SUBSET S /\ <<>> \in Seq({})
      OBVIOUS
    <2>2. it[{}] = <<>>
      BY <1>6, <2>1
    <2>3. QED
      BY <2>1, <2>2
  <1>8. ASSUME NEW s \in SUBSET S, s # {}, s \ {First(S)[s]} \in G
        PROVE  s \in G
    <2> DEFINE x == First(S)[s]
               t == s \ {x}
    <2>1. x = (CHOOSE c \in s : TRUE) /\ x \in s
      BY <1>8 DEF First
    <2> HIDE DEF x
    <2>2. it[s] = Append(it[t], x)
      BY <1>6, <1>8, <2>1
    <2>3. Row(t)
      BY <1>8 DEF x
    <2>4. it[t] \in Seq(s) /\ \A y \in t : \E n \in 1 .. Len(it[t]) : it[t][n] = y
      BY <1>0, <2>3
    <2>5. it[s] \in Seq(s) /\ Len(it[s]) = Len(it[t]) + 1 /\ it[s][Len(it[t]) + 1] = x
          /\ \A n \in 1 .. Len(it[t]) : it[s][n] = it[t][n]
      BY <2>1, <2>2, <2>4
    <2>6. \A y \in s : \E n \in 1 .. Len(it[s]) : it[s][n] = y
      <3>1. SUFFICES ASSUME NEW y \in s PROVE \E n \in 1 .. Len(it[s]) : it[s][n] = y
        OBVIOUS
      <3>2. Len(it[t]) \in Nat
        BY <2>4
      <3>3. CASE y = x
        <4>1. Len(it[t]) + 1 \in 1 .. Len(it[s])
          BY <2>5, <3>2
        <4>2. QED
          BY <2>5, <3>3, <4>1
      <3>4. CASE y # x
        <4>1. PICK n \in 1 .. Len(it[t]) : it[t][n] = y
          BY <2>4, <3>4
        <4>2. it[s][n] = y
          BY <2>5, <4>1
        <4>3. n \in 1 .. Len(it[s])
          BY <2>5, <3>2, <4>1
        <4>4. QED
          BY <4>2, <4>3
      <3>5. QED
        BY <3>3, <3>4
    <2>7. QED
      BY <2>5, <2>6
  <1> HIDE DEF G
  <1>9. S \in G
    BY <1>7, <1>8, FirstIsIn, InductionBy
  <1>10. QED
    BY <1>4, <1>9 DEF G

\* What is kept for each fingerprint: of the fingerprints of X, an element of X.
Kept(X) == UNION {[D -> X] : D \in SUBSET {Fingerprint(x) : x \in X}}

LEMMA KeepKeeps ==
  ASSUME NEW X, NEW seen \in Kept(X), NEW i \in X
  PROVE  Keep(seen, i) \in Kept(X)
  <1> DEFINE F == {Fingerprint(x) : x \in X}
             f == Fingerprint(i)
             put == [g \in DOMAIN seen \cup {f} |-> IF g = f THEN i ELSE seen[g]]
  <1>1. PICK D \in SUBSET F : seen \in [D -> X]
    BY DEF Kept
  <1>2. f \in F
    OBVIOUS
  <1> HIDE DEF f, F
  <1>3. put \in [D \cup {f} -> X] /\ D \cup {f} \in SUBSET F
    BY <1>1, <1>2
  <1>4. put \in Kept(X)
    BY <1>3 DEF Kept, F
  <1>5. QED
    BY <1>4 DEF Keep, f

LEMMA NoneKept ==
  ASSUME NEW X
  PROVE  <<>> \in Kept(X)
  <1>1. <<>> \in [{} -> X] /\ {} \in SUBSET {Fingerprint(x) : x \in X}
    OBVIOUS
  <1>2. QED
    BY <1>1 DEF Kept

\* The last place.
LastOf(S) == [s \in SUBSET S |-> Max(s)]

LEMMA LastIsIn ==
  ASSUME NEW n \in Nat
  PROVE  Chooses(LastOf(1 .. n), 1 .. n)
  <1>1. IsFiniteSet(1 .. n) /\ 1 .. n \subseteq Int
    BY FS_Interval
  <1>2. ASSUME NEW s \in SUBSET (1 .. n), s # {}
        PROVE  Max(s) \in s
    <2>1. IsFiniteSet(s) /\ s \subseteq Int
      BY <1>1, FS_Subset
    <2>2. QED
      BY <1>2, <2>1, Extremes
  <1>3. QED
    BY <1>2 DEF Chooses, LastOf

\* What is kept of all sets of places.
Keeping(it, items) ==
  it = [s \in SUBSET DOMAIN items |-> IF s = {} THEN <<>>
          ELSE Keep(it[s \ {Max(s)}], items[Max(s)])]

LEMMA KeepingIs ==
  ASSUME NEW X, NEW items \in Seq(X)
  PROVE  \E it : Keeping(it, items)
  <1> DEFINE S == 1 .. Len(items)
             step == [a \in S \X Kept(X) |-> Keep(a[2], items[a[1]])]
  <1>1. \A n \in S : items[n] \in X
    OBVIOUS
  <1>2. step \in [S \X Kept(X) -> Kept(X)] /\ <<>> \in Kept(X)
    BY <1>1, KeepKeeps, NoneKept
  <1>3. \A n \in S, v \in Kept(X) : step[<<n, v>>] = Keep(v, items[n])
    OBVIOUS
  <1> HIDE DEF step
  <1>4. IsFiniteSet(S) /\ Chooses(LastOf(S), S) /\ DOMAIN items = S
    BY LastIsIn, FS_Interval
  <1> HIDE DEF S
  <1>5. PICK it \in [SUBSET S -> Kept(X)] : Follows(it, SUBSET S, <<>>, LastOf(S), step)
    BY <1>2, <1>4, FollowsEverywhere
  <1>6. \A s \in SUBSET S : it[s] = IF s = {} THEN <<>> ELSE step[<<LastOf(S)[s], it[s \ {LastOf(S)[s]}]>>]
    BY <1>5 DEF Follows
  <1>7. ASSUME NEW s \in SUBSET S, s # {}
        PROVE  it[s] = Keep(it[s \ {Max(s)}], items[Max(s)])
    <2>1. LastOf(S)[s] = Max(s) /\ Max(s) \in S
      BY <1>4, <1>7 DEF LastOf, Chooses
    <2>2. it[s \ {Max(s)}] \in Kept(X)
      BY <1>5
    <2>3. QED
      BY <1>3, <1>6, <1>7, <2>1, <2>2
  <1>8. it = [s \in SUBSET S |-> it[s]]
    BY <1>5
  <1>9. \A s \in SUBSET S : it[s] = IF s = {} THEN <<>> ELSE Keep(it[s \ {Max(s)}], items[Max(s)])
    BY <1>6, <1>7
  <1>10. QED
    BY <1>4, <1>8, <1>9 DEF Keeping

\* Of one entity, worse or as bad.
NoWorse(i, j) == Rank(j) > Rank(i) \/ (Rank(j) = Rank(i) /\ j.at >= i.at)

\* What is kept after some of the places.
KeptOf(seen, items, s) ==
  /\ \A f \in DOMAIN seen : \E n \in s : items[n] = seen[f] /\ f = Fingerprint(items[n])
  /\ \A n \in s : /\ Fingerprint(items[n]) \in DOMAIN seen
                  /\ NoWorse(items[n], seen[Fingerprint(items[n])])

IsInsight(i) == i.at \in Int /\ i.severity \in {"high", "medium"}

LEMMA KeepsWorst ==
  ASSUME NEW items, NEW s, NEW n, NEW seen, KeptOf(seen, items, s),
         \A m \in s \cup {n} : IsInsight(items[m])
  PROVE  KeptOf(Keep(seen, items[n]), items, s \cup {n})
  <1> DEFINE i == items[n]
             f == Fingerprint(i)
             put == [g \in DOMAIN seen \cup {f} |-> IF g = f THEN i ELSE seen[g]]
  <1>1. \A m \in s \cup {n} : Rank(items[m]) \in {2, 3} /\ items[m].at \in Int
    BY DEF IsInsight, Rank
  <1>2. CASE f \in DOMAIN seen /\ ~ShouldReplaceInsight(seen[f], i)
    <2>1. Keep(seen, i) = seen
      BY <1>2 DEF Keep
    <2>2. PICK m \in s : items[m] = seen[f]
      BY <1>2 DEF KeptOf
    <2>3. NoWorse(i, seen[f])
      BY <1>1, <1>2, <2>2 DEF NoWorse, ShouldReplaceInsight
    <2>4. QED
      BY <1>2, <2>1, <2>3 DEF KeptOf
  <1>3. CASE ~(f \in DOMAIN seen /\ ~ShouldReplaceInsight(seen[f], i))
    <2>1. Keep(seen, i) = put
      BY <1>3 DEF Keep
    <2>2. DOMAIN put = DOMAIN seen \cup {f} /\ put[f] = i /\ \A g \in DOMAIN seen : g # f => put[g] = seen[g]
      OBVIOUS
    <2> HIDE DEF put
    <2>3. NoWorse(i, i)
      BY <1>1 DEF NoWorse
    <2>4. ASSUME NEW m \in s, Fingerprint(items[m]) = f
          PROVE  NoWorse(items[m], i)
      <3>1. f \in DOMAIN seen /\ ShouldReplaceInsight(seen[f], i) /\ NoWorse(items[m], seen[f])
        BY <1>3, <2>4 DEF KeptOf
      <3>2. PICK k \in s : items[k] = seen[f]
        BY <3>1 DEF KeptOf
      <3>3. QED
        BY <1>1, <3>1, <3>2 DEF NoWorse, ShouldReplaceInsight
    <2> HIDE DEF f
    <2>5. \A g \in DOMAIN put : \E m \in s \cup {n} : items[m] = put[g] /\ g = Fingerprint(items[m])
      BY <2>2 DEF KeptOf, f
    <2>6. \A m \in s \cup {n} : /\ Fingerprint(items[m]) \in DOMAIN put
                                /\ NoWorse(items[m], put[Fingerprint(items[m])])
      <3>1. ASSUME NEW m \in s \cup {n}
            PROVE  /\ Fingerprint(items[m]) \in DOMAIN put
                   /\ NoWorse(items[m], put[Fingerprint(items[m])])
        <4>1. CASE Fingerprint(items[m]) = f
          BY <2>2, <2>3, <2>4, <4>1
        <4>2. CASE Fingerprint(items[m]) # f
          <5>1. m \in s
            BY <4>2 DEF f
          <5>2. QED
            BY <2>2, <4>2, <5>1 DEF KeptOf
        <4>3. QED
          BY <4>1, <4>2
      <3>2. QED
        BY <3>1
    <2>7. QED
      BY <2>1, <2>5, <2>6 DEF KeptOf
  <1>4. QED
    BY <1>2, <1>3

\* Of the insights with one fingerprint the worst is kept, and no other.
LEMMA WorstIsKept ==
  ASSUME NEW X, NEW items \in Seq(X), \A x \in X : IsInsight(x)
  PROVE  KeptOf(FoldLeft(Keep, <<>>, items), items, 1 .. Len(items))
  <1> DEFINE it == CHOOSE it : Keeping(it, items)
             S == 1 .. Len(items)
  <1>1. FoldLeft(Keep, <<>>, items) = it[DOMAIN items]
    BY DEF FoldLeft, MapThenFoldSet, Keeping
  <1>2. Keeping(it, items)
    BY KeepingIs
  <1> HIDE DEF it
  <1>3. DOMAIN items = S /\ \A n \in S : IsInsight(items[n])
    OBVIOUS
  <1>4. \A s \in SUBSET S : it[s] = IF s = {} THEN <<>> ELSE Keep(it[s \ {Max(s)}], items[Max(s)])
    BY <1>2, <1>3 DEF Keeping
  <1>5. IsFiniteSet(S) /\ Chooses(LastOf(S), S)
    BY LastIsIn, FS_Interval
  <1> HIDE DEF S
  <1> DEFINE G == {s \in SUBSET S : KeptOf(it[s], items, s)}
  <1>6. {} \in G
    <2>1. {} \in SUBSET S /\ DOMAIN <<>> = {}
      OBVIOUS
    <2>2. it[{}] = <<>>
      BY <1>4, <2>1
    <2>3. KeptOf(it[{}], items, {})
      BY <2>1, <2>2 DEF KeptOf
    <2>4. QED
      BY <2>3
  <1>7. ASSUME NEW s \in SUBSET S, s # {}, s \ {LastOf(S)[s]} \in G
        PROVE  s \in G
    <2> DEFINE n == Max(s)
    <2>1. LastOf(S)[s] = n /\ n \in s
      BY <1>5, <1>7 DEF LastOf, Chooses
    <2>2. it[s] = Keep(it[s \ {n}], items[n])
      BY <1>4, <1>7
    <2> HIDE DEF n
    <2>3. KeptOf(it[s \ {n}], items, s \ {n})
      BY <1>7, <2>1
    <2>4. \A m \in (s \ {n}) \cup {n} : IsInsight(items[m])
      BY <1>3, <2>1
    <2>5. KeptOf(Keep(it[s \ {n}], items[n]), items, (s \ {n}) \cup {n})
      BY <2>3, <2>4, KeepsWorst
    <2>6. (s \ {n}) \cup {n} = s
      BY <2>1
    <2>7. KeptOf(it[s], items, s)
      BY <2>2, <2>5, <2>6
    <2>8. QED
      BY <2>7
  <1> HIDE DEF G
  <1>8. S \in G
    BY <1>5, <1>6, <1>7, InductionBy
  <1>9. QED
    BY <1>1, <1>3, <1>8 DEF G, S

-----------------------------------------------------------------------------
(* What each rule finds.                                                      *)

\* What is stored has times, and there is an end of it.
StoredTypes ==
  /\ DOMAIN prs \subseteq PullRequests
  /\ \A p \in DOMAIN prs : prs[p].created \in Int /\ prs[p].merged \in Int
  /\ IsFiniteSet(reviews) /\ \A r \in reviews : r.requested \in Int /\ r.first \in Int
  /\ DOMAIN deployments \subseteq Deployments /\ \A d \in DOMAIN deployments : deployments[d].at \in Int

LEMMA FiniteImage ==
  ASSUME NEW S, IsFiniteSet(S), NEW f
  PROVE  IsFiniteSet({f[x] : x \in S}) /\ Cardinality({f[x] : x \in S}) <= Cardinality(S)
  <1> DEFINE g == [x \in S |-> f[x]]
  <1>1. g \in Surjection(S, {f[x] : x \in S})
    BY DEF Surjection
  <1>2. QED
    BY <1>1, FS_Surjection

\* Times of what there is have a first and a last.
LEMMA TimesOf ==
  ASSUME NEW S, IsFiniteSet(S), S # {}, NEW f, \A x \in S : f[x] \in Int
  PROVE  LET T == {f[x] : x \in S}
         IN  /\ IsFiniteSet(T) /\ Min(T) \in Int /\ Max(T) \in Int
             /\ (\E x \in S : Min(T) = f[x]) /\ \A x \in S : Min(T) <= f[x]
  <1> DEFINE T == {f[x] : x \in S}
  <1>1. IsFiniteSet(T) /\ T # {} /\ T \subseteq Int
    BY FiniteImage
  <1>2. Min(T) \in T /\ Max(T) \in T /\ \A y \in T : Min(T) <= y
    BY <1>1, Extremes
  <1>3. QED
    BY <1>1, <1>2

LEMMA InsightIs ==
  ASSUME NEW type, NEW entity, NEW value, NEW high, NEW at
  PROVE  LET i == Insight(type, entity, value, high, at)
         IN  /\ i.type = type /\ i.entity = entity /\ i.value = value /\ i.at = at
             /\ i.severity \in {"high", "medium"}
  BY DEF Insight

\* What a set of insights is made of.
Made(I, type) == IsFiniteSet(I) /\ \A i \in I : i.type = type /\ IsInsight(i)

LEMMA LargeAre ==
  ASSUME StoredTypes, NEW b
  PROVE  /\ Made(ListLargePullRequests(b), "large")
         /\ \A i \in ListLargePullRequests(b) : i.value >= config.large.at
  <1> DEFINE R == config.large
             S == {q \in CreatedIn(b) : Enabled("large") /\ prs[q].size >= R.at}
             f == [p \in S |-> Insight("large", p, prs[p].size, prs[p].size >= R.high, prs[p].created)]
  <1>1. S \subseteq PullRequests /\ \A p \in S : prs[p].created \in Int /\ prs[p].size >= R.at
    BY DEF StoredTypes, CreatedIn
  <1>2. IsFiniteSet(S)
    BY <1>1, FS_Subset, MetricsAssumption
  <1>3. ListLargePullRequests(b) = {f[p] : p \in S}
    BY DEF ListLargePullRequests
  <1>4. ASSUME NEW p \in S
        PROVE  f[p].type = "large" /\ IsInsight(f[p]) /\ f[p].value >= R.at
    BY <1>1, InsightIs DEF IsInsight
  <1> HIDE DEF f, S
  <1>5. IsFiniteSet({f[p] : p \in S})
    BY <1>2, FiniteImage
  <1>6. QED
    BY <1>3, <1>4, <1>5 DEF Made

LEMMA SlowAre ==
  ASSUME StoredTypes, config \in Rules, NEW b
  PROVE  /\ Made(ListSlowReviews(b), "slow")
         /\ \A i \in ListSlowReviews(b) : i.value >= config.slow.at
  <1> DEFINE R == config.slow
             asked(p) == {r \in reviews : r.pr = p /\ Human(r) /\ r.requested # None}
             request(p) == Min({r.requested : r \in asked(p)})
             response(p) == Min({r.first : r \in asked(p)})
             wait(p) == Min({WaitOf(r) : r \in asked(p)})
             S == {p \in DOMAIN prs :
                     /\ Enabled("slow") /\ Day(prs[p].created) \in b /\ asked(p) # {}
                     /\ wait(p) >= R.at}
             f == [p \in S |-> Insight("slow", p, response(p) - request(p),
                                       response(p) - request(p) >= R.high, response(p))]
  <1>1. S \subseteq PullRequests /\ \A p \in S : asked(p) # {} /\ wait(p) >= R.at
    BY DEF StoredTypes
  <1>2. IsFiniteSet(S) /\ R.at \in Int
    BY <1>1, FS_Subset, MetricsAssumption, InsightRulesAssumption
  <1>3. ListSlowReviews(b) = {f[p] : p \in S}
    BY DEF ListSlowReviews
  <1>4. ASSUME NEW p \in S
        PROVE  response(p) \in Int /\ response(p) - request(p) >= R.at
    <2> DEFINE A == asked(p)
               first == [r \in A |-> r.first]
               requested == [r \in A |-> r.requested]
               waited == [r \in A |-> WaitOf(r)]
    <2>1. A # {} /\ IsFiniteSet(A) /\ wait(p) >= R.at
      BY <1>1, FS_Subset DEF StoredTypes
    <2>2. \A r \in A : first[r] \in Int /\ requested[r] \in Int /\ waited[r] \in Int
                       /\ waited[r] = first[r] - requested[r]
      BY DEF StoredTypes, WaitOf
    <2>3. /\ {r.first : r \in A} = {first[r] : r \in A}
          /\ {r.requested : r \in A} = {requested[r] : r \in A}
          /\ {WaitOf(r) : r \in A} = {waited[r] : r \in A}
      OBVIOUS
    <2> HIDE DEF A, first, requested, waited
    <2> DEFINE F == {first[r] : r \in A}
               Q == {requested[r] : r \in A}
               W == {waited[r] : r \in A}
    <2>4. Min(F) \in Int /\ \E r \in A : Min(F) = first[r]
      <3>1. IsFiniteSet(A) /\ A # {} /\ \A r \in A : first[r] \in Int
        BY <2>1, <2>2
      <3>2. QED
        BY <3>1, TimesOf
    <2>5. Min(Q) \in Int /\ \A r \in A : Min(Q) <= requested[r]
      BY <2>1, <2>2, TimesOf
    <2>6. Min(W) \in Int /\ \A r \in A : Min(W) <= waited[r]
      BY <2>1, <2>2, TimesOf
    <2>7. response(p) = Min(F) /\ request(p) = Min(Q) /\ wait(p) = Min(W)
      BY <2>3 DEF A
    <2> HIDE DEF F, Q, W
    <2>8. Min(F) - Min(Q) >= R.at
      BY <1>2, <2>1, <2>2, <2>4, <2>5, <2>6, <2>7
    <2>9. QED
      BY <2>4, <2>7, <2>8
  <1> HIDE DEF asked, request, response, wait, S
  <1>5. ASSUME NEW p \in S
        PROVE  f[p].type = "slow" /\ IsInsight(f[p]) /\ f[p].value >= R.at
    BY <1>4, InsightIs DEF IsInsight
  <1> HIDE DEF f
  <1>6. IsFiniteSet({f[p] : p \in S})
    BY <1>2, FiniteImage
  <1>7. QED
    BY <1>3, <1>5, <1>6 DEF Made

LEMMA TypeOfHotspots ==
  ASSUME NEW b, NEW top
  PROVE  \A i \in ListHotspots(b, top) : i.type = "hotspot"
  <1> DEFINE score == HotFiles(b)
             last(x) == Max({prs[p].created :
                          p \in {q \in DOMAIN prs : Day(prs[q].created) \in b /\ prs[q].file = x}})
             f == [x \in top |-> Insight("hotspot", x, score[x], score[x] >= config.hotspot.high, last(x))]
  <1>1. ListHotspots(b, top) = {f[x] : x \in top}
    BY DEF ListHotspots
  <1> HIDE DEF score, last
  <1>2. \A x \in top : f[x].type = "hotspot"
    BY InsightIs
  <1>3. QED
    BY <1>1, <1>2

LEMMA HotspotsAre ==
  ASSUME StoredTypes, config \in Rules, NEW b, NEW top \in TopFiles(b)
  PROVE  /\ Made(ListHotspots(b, top), "hotspot")
         /\ \A i \in ListHotspots(b, top) : i.value >= config.hotspot.at
         /\ Cardinality(ListHotspots(b, top)) \in Nat
         /\ Cardinality(ListHotspots(b, top)) <= config.hotspot.top
  <1> DEFINE score == HotFiles(b)
             D == DOMAIN HotFiles(b)
             of(x) == {p \in DOMAIN prs : Day(prs[p].created) \in b /\ prs[p].file = x}
             last(x) == Max({prs[p].created : p \in of(x)})
             f == [x \in top |-> Insight("hotspot", x, score[x], score[x] >= config.hotspot.high, last(x))]
             P == {p \in DOMAIN prs : Day(prs[p].created) \in b}
  <1>1. IsFiniteSet(DOMAIN prs) /\ config.hotspot.top \in Nat
    BY FS_Subset, MetricsAssumption, InsightRulesAssumption DEF StoredTypes
  <1>2. /\ D \subseteq {prs[p].file : p \in P}
        /\ \A x \in D : score[x] >= config.hotspot.at
    BY DEF HotFiles, RestrictValues, Restrict, AggregateHotspots
  <1>3. IsFiniteSet(D)
    <2> DEFINE file == [p \in P |-> prs[p].file]
    <2>1. IsFiniteSet(P)
      BY <1>1, FS_Subset
    <2>2. IsFiniteSet({file[p] : p \in P})
      BY <2>1, FiniteImage
    <2>3. {file[p] : p \in P} = {prs[p].file : p \in P}
      OBVIOUS
    <2>4. QED
      BY <1>2, <2>2, <2>3, FS_Subset
  <1>4. top \subseteq D /\ Cardinality(top) = Min({config.hotspot.top, Cardinality(D)})
    BY DEF TopFiles
  <1>5. IsFiniteSet(top) /\ Cardinality(top) \in Nat /\ Cardinality(top) <= config.hotspot.top
    <2>1. IsFiniteSet(top) /\ Cardinality(top) \in Nat /\ Cardinality(D) \in Nat
      BY <1>3, <1>4, FS_Subset, FS_CardinalityType
    <2>2. Min({config.hotspot.top, Cardinality(D)}) <= config.hotspot.top
      <3> DEFINE n == Cardinality(D)
      <3>1. config.hotspot.top \in Int /\ n \in Int
        BY <1>1, <2>1
      <3> HIDE DEF n
      <3>2. Min({config.hotspot.top, n}) = IF config.hotspot.top <= n THEN config.hotspot.top ELSE n
        BY <3>1, LeastOfTwo
      <3>3. Min({config.hotspot.top, n}) <= config.hotspot.top
        BY <3>1, <3>2
      <3>4. QED
        BY <3>3 DEF n
    <2>3. QED
      BY <1>4, <2>1, <2>2
  <1>6. ListHotspots(b, top) = {f[x] : x \in top}
    BY DEF ListHotspots
  <1>7. ASSUME NEW x \in top
        PROVE  last(x) \in Int /\ score[x] >= config.hotspot.at
    <2> DEFINE A == of(x)
               made == [p \in A |-> prs[p].created]
    <2>1. x \in D
      BY <1>4
    <2>2. A # {} /\ IsFiniteSet(A)
      BY <1>1, <1>2, <2>1, FS_Subset
    <2>3. \A p \in A : made[p] \in Int
      BY DEF StoredTypes
    <2>4. {prs[p].created : p \in A} = {made[p] : p \in A}
      OBVIOUS
    <2> HIDE DEF A, made
    <2>5. Max({made[p] : p \in A}) \in Int
      BY <2>2, <2>3, TimesOf
    <2>6. last(x) = Max({made[p] : p \in A})
      BY <2>4 DEF A
    <2>7. QED
      BY <1>2, <2>1, <2>5, <2>6
  <1> HIDE DEF score, last, D
  <1>8. ASSUME NEW x \in top
        PROVE  f[x].type = "hotspot" /\ IsInsight(f[x]) /\ f[x].value >= config.hotspot.at
    BY <1>7, InsightIs DEF IsInsight
  <1> HIDE DEF f
  <1>9. IsFiniteSet({f[x] : x \in top}) /\ Cardinality({f[x] : x \in top}) <= Cardinality(top)
        /\ Cardinality({f[x] : x \in top}) \in Nat
    BY <1>5, FiniteImage, FS_CardinalityType
  <1>10. QED
    BY <1>1, <1>5, <1>6, <1>8, <1>9 DEF Made

LEMMA FailuresAre ==
  ASSUME StoredTypes, config \in Rules, NEW b
  PROVE  /\ Made(ListDeploymentFailureTrends(b), "failure")
         /\ \A i \in ListDeploymentFailureTrends(b) : i.value >= config.failure.at
  <1> DEFINE R == config.failure
             A(e) == DeploymentsOf(b, e)
             rate(e) == Ratio(Cardinality(OfStatus(A(e), "failed")), Cardinality(A(e)))
             last(e) == Max({deployments[d].at : d \in A(e)})
             S == {x \in Environments :
                     Enabled("failure") /\ Cardinality(A(x)) >= R.least /\ rate(x) >= R.at}
             f == [e \in S |-> Insight("failure", LowerCase[e], rate(e), rate(e) >= R.high, last(e))]
  <1>1. IsFiniteSet(S) /\ R.least \in Nat \ {0}
    <2>1. S \subseteq Environments
      OBVIOUS
    <2> HIDE DEF S
    <2>2. QED
      BY <2>1, FS_Subset, MetricsAssumption, InsightRulesAssumption
  <1>2. ListDeploymentFailureTrends(b) = {f[e] : e \in S}
    BY DEF ListDeploymentFailureTrends
  <1>3. ASSUME NEW e \in S
        PROVE  last(e) \in Int /\ rate(e) >= R.at
    <2> DEFINE when == [d \in A(e) |-> deployments[d].at]
    <2>1. Cardinality(A(e)) >= R.least /\ rate(e) >= R.at
      OBVIOUS
    <2>2. A(e) \subseteq DOMAIN deployments
      BY DEF DeploymentsOf, DeployedIn
    <2>3. IsFiniteSet(A(e))
      BY <2>2, FS_Subset, MetricsAssumption DEF StoredTypes
    <2>4. \A d \in A(e) : when[d] \in Int
      BY <2>2 DEF StoredTypes
    <2>5. {deployments[d].at : d \in A(e)} = {when[d] : d \in A(e)}
      OBVIOUS
    <2>6. A(e) # {}
      <3>1. Cardinality({}) = 0
        BY FS_EmptySet
      <3> HIDE DEF A, rate, S
      <3>2. A(e) = {} => Cardinality(A(e)) = 0
        BY <3>1
      <3>3. QED
        BY <1>1, <2>1, <3>2
    <2> HIDE DEF A, when, rate, S
    <2>7. Max({when[d] : d \in A(e)}) \in Int
      BY <2>3, <2>4, <2>6, TimesOf
    <2>8. QED
      BY <2>1, <2>5, <2>7
  <1> HIDE DEF rate, last, S
  <1>4. ASSUME NEW e \in S
        PROVE  f[e].type = "failure" /\ IsInsight(f[e]) /\ f[e].value >= R.at
    BY <1>3, InsightIs DEF IsInsight
  <1> HIDE DEF f
  <1>5. IsFiniteSet({f[e] : e \in S})
    BY <1>1, FiniteImage
  <1>6. QED
    BY <1>2, <1>4, <1>5 DEF Made

\* Shares of a whole.
LEMMA SharesFit ==
  ASSUME NEW n \in Nat \ {0}, NEW a \in Nat, NEW b \in Nat, a + b <= n
  PROVE  Ratio(a, n) \in Int /\ Ratio(b, n) \in Int /\ Ratio(a, n) + Ratio(b, n) <= Scale
  <1> DEFINE p == (Scale * a) \div n
             q == (Scale * b) \div n
  <1>1. Scale \in Nat \ {0}
    BY MetricsAssumption
  <1>2. Scale * a \in Nat /\ Scale * b \in Nat
    BY <1>1
  <1>3. p \in Int /\ q \in Int /\ n * p <= Scale * a /\ n * q <= Scale * b
    BY <1>2
  <1>4. Ratio(a, n) = p /\ Ratio(b, n) = q
    BY DEF Ratio
  <1> HIDE DEF p, q
  <1>5. Scale * (a + b) <= Scale * n /\ Scale * (a + b) = Scale * a + Scale * b
    BY <1>1
  <1>6. n * (p + q) = n * p + n * q /\ n * (p + q) <= n * Scale
    BY <1>1, <1>2, <1>3, <1>5
  <1>7. p + q <= Scale
    <2>1. SUFFICES ASSUME p + q >= Scale + 1 PROVE FALSE
      BY <1>1, <1>3
    <2>2. n * (p + q) >= n * (Scale + 1) /\ n * (Scale + 1) = n * Scale + n /\ n * Scale \in Int
      BY <1>1, <1>3, <2>1
    <2>3. n * (p + q) \in Int
      BY <1>3
    <2>4. QED
      BY <1>6, <2>2, <2>3
  <1>8. QED
    BY <1>3, <1>4, <1>7

LEMMA ConcentrationsAre ==
  ASSUME StoredTypes, config \in Rules, NEW b
  PROVE  /\ Made(ListReviewConcentration(b), "concentration")
         /\ \A i \in ListReviewConcentration(b) : i.value >= config.concentration.at
         /\ 2 * config.concentration.at > Scale =>
              \A i, j \in ListReviewConcentration(b) : i = j
  <1> DEFINE R == config.concentration
             all == {r \in reviews : Human(r) /\ Day(prs[r.pr].created) \in b}
             by(u) == {r \in all : r.by = u}
             share(u) == Ratio(Cardinality(by(u)), Cardinality(all))
             last(u) == Max({r.first : r \in by(u)})
             S == {v \in People : /\ Enabled("concentration") /\ by(v) # {}
                                  /\ Cardinality(by(v)) >= R.least /\ share(v) >= R.at}
             f == [u \in S |-> Insight("concentration", u, share(u), share(u) >= R.high, last(u))]
  <1>1. IsFiniteSet(S)
    <2>1. S \subseteq People
      OBVIOUS
    <2> HIDE DEF S
    <2>2. QED
      BY <2>1, FS_Subset, MetricsAssumption
  <1>2. ListReviewConcentration(b) = {f[u] : u \in S}
    BY DEF ListReviewConcentration
  <1>3. all \subseteq reviews /\ IsFiniteSet(all) /\ Cardinality(all) \in Nat
    <2>1. all \subseteq reviews
      OBVIOUS
    <2> HIDE DEF all
    <2>2. QED
      BY <2>1, FS_Subset, FS_CardinalityType DEF StoredTypes
  <1> HIDE DEF all
  <1>4. \A u : /\ IsFiniteSet(by(u)) /\ Cardinality(by(u)) \in Nat /\ by(u) \subseteq all
               /\ (by(u) # {} => Cardinality(by(u)) # 0)
    BY <1>3, FS_Subset, FS_CardinalityType, FS_EmptySet
  <1>5. \A u, v \in S : u # v => Cardinality(by(u)) + Cardinality(by(v)) <= Cardinality(all)
    <2>1. SUFFICES ASSUME NEW u \in S, NEW v \in S, u # v
                   PROVE  Cardinality(by(u)) + Cardinality(by(v)) <= Cardinality(all)
      OBVIOUS
    <2>2. by(u) \cap by(v) = {}
      BY <2>1
    <2> HIDE DEF by, S
    <2>3. Cardinality(by(u) \cup by(v)) = Cardinality(by(u)) + Cardinality(by(v)) - Cardinality({})
      BY <1>4, <2>2, FS_Union
    <2>4. Cardinality(by(u) \cup by(v)) <= Cardinality(all)
      BY <1>3, <1>4, FS_Subset
    <2>5. QED
      BY <1>3, <1>4, <2>3, <2>4, FS_EmptySet
  <1>6. ASSUME NEW u \in S
        PROVE  last(u) \in Int /\ share(u) >= R.at /\ by(u) # {}
    <2> DEFINE when == [r \in by(u) |-> r.first]
    <2>1. by(u) # {} /\ share(u) >= R.at
      OBVIOUS
    <2>2. \A r \in by(u) : when[r] \in Int
      BY <1>3 DEF StoredTypes
    <2>3. {r.first : r \in by(u)} = {when[r] : r \in by(u)}
      OBVIOUS
    <2> HIDE DEF by, when, S
    <2>4. Max({when[r] : r \in by(u)}) \in Int
      BY <1>4, <2>1, <2>2, TimesOf
    <2>5. QED
      BY <2>1, <2>3, <2>4
  <1> HIDE DEF by, last, S
  <1>7. \A u, v \in S : u # v => share(u) + share(v) <= Scale /\ share(u) \in Int /\ share(v) \in Int
    <2>1. SUFFICES ASSUME NEW u \in S, NEW v \in S, u # v
                   PROVE  share(u) + share(v) <= Scale /\ share(u) \in Int /\ share(v) \in Int
      OBVIOUS
    <2>2. Cardinality(all) \in Nat \ {0}
      BY <1>3, <1>4, <1>5, <1>6, <2>1
    <2>3. QED
      BY <1>4, <1>5, <2>1, <2>2, SharesFit
  <1> HIDE DEF share
  <1>8. ASSUME NEW u \in S
        PROVE  f[u].type = "concentration" /\ IsInsight(f[u]) /\ f[u].value >= R.at
    BY <1>6, InsightIs DEF IsInsight
  <1>9. ASSUME 2 * R.at > Scale, NEW u \in S, NEW v \in S
        PROVE  u = v
    <2>1. R.at \in Int /\ Scale \in Int
      BY InsightRulesAssumption, MetricsAssumption
    <2>2. share(u) >= R.at /\ share(v) >= R.at
      BY <1>6
    <2>3. QED
      BY <1>7, <1>9, <2>1, <2>2
  <1> HIDE DEF f
  <1>10. IsFiniteSet({f[u] : u \in S})
    BY <1>1, FiniteImage
  <1>11. QED
    BY <1>2, <1>8, <1>9, <1>10 DEF Made

LEMMA BottlenecksAre ==
  ASSUME StoredTypes, config \in Rules, NEW b
  PROVE  Made(ListBottlenecks(b), "bottleneck")
  <1> DEFINE R == config.bottleneck
             C == CreatedIn(b)
             merged == {p \in C : prs[p].merged # None}
             old == {p \in C : prs[p].merged = None /\ prs[p].created < PerDay * (LastDay + 1 - R.age)}
             stale == Cardinality(old)
             cycle == Average(merged, CycleOf)
             times == {prs[p].created : p \in C} \cup {prs[p].merged : p \in merged}
             one == Insight("bottleneck", "summary", cycle, cycle >= R.high \/ stale >= R.highStale, Max(times))
  <1>1. IsFiniteSet(C) /\ \A p \in C : prs[p].created \in Int /\ prs[p].merged \in Int
    <2>1. C \subseteq DOMAIN prs
      BY DEF CreatedIn
    <2>2. QED
      BY <2>1, FS_Subset, MetricsAssumption DEF StoredTypes
  <1>2. \/ ListBottlenecks(b) = {}
        \/ ListBottlenecks(b) = {one} /\ ~(Cardinality(merged) < R.least /\ stale = 0)
    BY DEF ListBottlenecks
  <1> HIDE DEF C
  <1>3. ASSUME ~(Cardinality(merged) < R.least /\ stale = 0)
        PROVE  Max(times) \in Int
    <2>1. merged # {} \/ old # {}
      <3>1. R.least \in Nat \ {0}
        BY InsightRulesAssumption
      <3>2. Cardinality({}) = 0
        BY FS_EmptySet
      <3> HIDE DEF merged, old
      <3>3. QED
        BY <1>3, <3>1, <3>2
    <2>2. C # {} /\ merged \subseteq C /\ IsFiniteSet(merged)
      BY <1>1, <2>1, FS_Subset
    <2> DEFINE began == [p \in C |-> prs[p].created]
               ended == [p \in merged |-> prs[p].merged]
               B == {began[p] : p \in C}
               E == {ended[p] : p \in merged}
    <2>3. times = B \cup E
      OBVIOUS
    <2>4. B # {} /\ B \subseteq Int /\ E \subseteq Int
      BY <1>1, <2>2
    <2>5. IsFiniteSet(B) /\ IsFiniteSet(E)
      <3> HIDE DEF merged, began, ended
      <3>1. QED
        BY <1>1, <2>2, FiniteImage
    <2> HIDE DEF times, B, E
    <2>6. IsFiniteSet(times)
      BY <2>3, <2>5, FS_Union
    <2>7. QED
      BY <2>3, <2>4, <2>6, Extremes
  <1> HIDE DEF times, cycle
  <1>4. ASSUME Max(times) \in Int
        PROVE  one.type = "bottleneck" /\ IsInsight(one)
    BY <1>4, InsightIs DEF IsInsight
  <1> HIDE DEF one, stale, merged
  <1>5. IsFiniteSet({}) /\ IsFiniteSet({one})
    BY FS_EmptySet, FS_Singleton
  <1>6. QED
    BY <1>2, <1>3, <1>4, <1>5 DEF Made

-----------------------------------------------------------------------------
(* What is shown.                                                             *)

\* All insights of a repository, by what they are.
LEMMA AllAre ==
  ASSUME StoredTypes, config \in Rules, NEW b, NEW top \in TopFiles(b)
  PROVE  LET I == GenerateRepositoryInsights(b, top)
         IN  /\ IsFiniteSet(I) /\ \A i \in I : IsInsight(i)
             /\ \A i \in I : i.type # "bottleneck" => i.value >= config[i.type].at
             /\ \A i \in I : i.type = "hotspot" => i \in ListHotspots(b, top)
             /\ \A i \in I : i.type = "concentration" => i \in ListReviewConcentration(b)
  <1>1. /\ Made(ListBottlenecks(b), "bottleneck") /\ Made(ListLargePullRequests(b), "large")
        /\ Made(ListSlowReviews(b), "slow") /\ Made(ListHotspots(b, top), "hotspot")
        /\ Made(ListDeploymentFailureTrends(b), "failure")
        /\ Made(ListReviewConcentration(b), "concentration")
    BY BottlenecksAre, LargeAre, SlowAre, HotspotsAre, FailuresAre, ConcentrationsAre
  <1>2. /\ \A i \in ListLargePullRequests(b) : i.value >= config.large.at
        /\ \A i \in ListSlowReviews(b) : i.value >= config.slow.at
        /\ \A i \in ListHotspots(b, top) : i.value >= config.hotspot.at
        /\ \A i \in ListDeploymentFailureTrends(b) : i.value >= config.failure.at
        /\ \A i \in ListReviewConcentration(b) : i.value >= config.concentration.at
    BY LargeAre, SlowAre, HotspotsAre, FailuresAre, ConcentrationsAre
  <1>3. IsFiniteSet(GenerateRepositoryInsights(b, top))
    <2>1. IsFiniteSet(ListBottlenecks(b) \cup ListLargePullRequests(b))
      BY <1>1, FS_Union DEF Made
    <2>2. IsFiniteSet(ListBottlenecks(b) \cup ListLargePullRequests(b) \cup ListSlowReviews(b))
      BY <1>1, <2>1, FS_Union DEF Made
    <2>3. IsFiniteSet(ListBottlenecks(b) \cup ListLargePullRequests(b) \cup ListSlowReviews(b)
                        \cup ListHotspots(b, top))
      BY <1>1, <2>2, FS_Union DEF Made
    <2>4. IsFiniteSet(ListBottlenecks(b) \cup ListLargePullRequests(b) \cup ListSlowReviews(b)
                        \cup ListHotspots(b, top) \cup ListDeploymentFailureTrends(b))
      BY <1>1, <2>3, FS_Union DEF Made
    <2>5. QED
      BY <1>1, <2>4, FS_Union DEF Made, GenerateRepositoryInsights
  <1>4. QED
    BY <1>1, <1>2, <1>3 DEF Made, GenerateRepositoryInsights

\* What an answer keeps of the insights in whatever order.
LEMMA AnswerIs ==
  ASSUME StoredTypes, config \in Rules, NEW b, NEW top \in TopFiles(b),
         NEW items \in Seq(GenerateRepositoryInsights(b, top)),
         \A i \in GenerateRepositoryInsights(b, top) : \E n \in 1 .. Len(items) : items[n] = i
  PROVE  /\ DeduplicateInsights(items) \subseteq GenerateRepositoryInsights(b, top)
         /\ config.deduplicate =>
              \A i \in GenerateRepositoryInsights(b, top) :
                LET same == {j \in DeduplicateInsights(items) : Fingerprint(j) = Fingerprint(i)}
                IN Cardinality(same) = 1 /\ \A j \in same : NoWorse(i, j)
  <1> DEFINE I == GenerateRepositoryInsights(b, top)
             seen == FoldLeft(Keep, <<>>, items)
             S == 1 .. Len(items)
  <1>1. DOMAIN items = S /\ \A n \in S : items[n] \in I
    OBVIOUS
  <1>2. KeptOf(seen, items, S)
    BY AllAre, WorstIsKept
  <1>3. CASE ~config.deduplicate
    <2>1. DeduplicateInsights(items) = Range(items)
      BY <1>3 DEF DeduplicateInsights
    <2>2. Range(items) \subseteq I
      BY <1>1 DEF Range
    <2>3. QED
      BY <1>3, <2>1, <2>2
  <1>4. CASE config.deduplicate
    <2>1. DeduplicateInsights(items) = Range(seen)
      BY <1>4 DEF DeduplicateInsights
    <2> HIDE DEF seen, I
    <2>2. \A f \in DOMAIN seen : seen[f] \in I /\ Fingerprint(seen[f]) = f
      BY <1>1, <1>2 DEF KeptOf
    <2>3. Range(seen) \subseteq I
      BY <2>2 DEF Range
    <2>4. ASSUME NEW i \in I
          PROVE  LET same == {j \in Range(seen) : Fingerprint(j) = Fingerprint(i)}
                 IN Cardinality(same) = 1 /\ \A j \in same : NoWorse(i, j)
      <3>1. PICK n \in S : items[n] = i
        BY DEF I
      <3>2. Fingerprint(i) \in DOMAIN seen /\ NoWorse(i, seen[Fingerprint(i)])
        BY <1>2, <3>1 DEF KeptOf
      <3>3. {j \in Range(seen) : Fingerprint(j) = Fingerprint(i)} = {seen[Fingerprint(i)]}
        <4>1. \A j \in Range(seen) : j = seen[Fingerprint(j)]
          BY <2>2 DEF Range
        <4>2. seen[Fingerprint(i)] \in Range(seen) /\ Fingerprint(seen[Fingerprint(i)]) = Fingerprint(i)
          BY <2>2, <3>2 DEF Range
        <4> HIDE DEF Fingerprint, Range
        <4>3. QED
          BY <4>1, <4>2
      <3>4. QED
        BY <3>2, <3>3, FS_Singleton
    <2>5. QED
      BY <2>1, <2>3, <2>4 DEF I
  <1>5. QED
    BY <1>3, <1>4

\* The insights of what is stored and the rules depend on nothing else.
LEMMA SameInsights ==
  ASSUME UNCHANGED <<metricsVars, config>>, NEW b, NEW top
  PROVE  /\ TopFiles(b)' = TopFiles(b)
         /\ GenerateRepositoryInsights(b, top)' = GenerateRepositoryInsights(b, top)
  <1>1. prs' = prs /\ reviews' = reviews /\ deployments' = deployments /\ config' = config
    BY DEF metricsVars
  <1>2. HotFiles(b)' = HotFiles(b)
    BY <1>1 DEF HotFiles, RestrictValues, Restrict, AggregateHotspots, SizeOf, Enabled
  <1>3. TopFiles(b)' = TopFiles(b)
    BY <1>1, <1>2 DEF TopFiles
  <1>4. ListHotspots(b, top)' = ListHotspots(b, top)
    BY <1>1, <1>2 DEF ListHotspots
  <1>5. CreatedIn(b)' = CreatedIn(b)
    BY <1>1 DEF CreatedIn, Ready
  <1>6. ListLargePullRequests(b)' = ListLargePullRequests(b)
    BY <1>1, <1>5 DEF ListLargePullRequests, Enabled
  <1>7. ListSlowReviews(b)' = ListSlowReviews(b)
    BY <1>1 DEF ListSlowReviews, Enabled
  <1>8. ListDeploymentFailureTrends(b)' = ListDeploymentFailureTrends(b)
    BY <1>1 DEF ListDeploymentFailureTrends, DeploymentsOf, DeployedIn, OfStatus, Enabled
  <1>9. ListReviewConcentration(b)' = ListReviewConcentration(b)
    BY <1>1 DEF ListReviewConcentration, Enabled
  <1>10. ListBottlenecks(b)' = ListBottlenecks(b)
    BY <1>1, <1>5 DEF ListBottlenecks, Enabled, Average, CycleOf
  <1>11. QED
    BY <1>3, <1>4, <1>6, <1>7, <1>8, <1>9, <1>10 DEF GenerateRepositoryInsights

InsightInv ==
  /\ config \in Rules
  /\ IF part = "insights" THEN StoredTypes ELSE shown.bounds = {}
  /\ ReportedReachesThreshold /\ WorstOfEachEntity

LEMMA LoadInsightsKeeps ==
  ASSUME InsightInv, part = "insights", LoadInsights, part' = part
  PROVE  InsightInv'
  <1>1. config \in Rules /\ StoredTypes
    BY DEF InsightInv
  <1>2. UNCHANGED <<metricsVars, config>>
    BY DEF LoadInsights
  <1>0. PICK b \in Bounds : \E t \in TopFiles(b) :
          LET candidates == InARow(GenerateRepositoryInsights(b, t))
          IN \E items \in {candidates, Reverse(candidates)} :
               shown' = [bounds |-> b, insights |-> DeduplicateInsights(items)]
    BY DEF LoadInsights
  <1>3. PICK top \in TopFiles(b) :
          LET candidates == InARow(GenerateRepositoryInsights(b, top))
          IN \E items \in {candidates, Reverse(candidates)} :
               shown' = [bounds |-> b, insights |-> DeduplicateInsights(items)]
    BY <1>0
  <1> DEFINE I == GenerateRepositoryInsights(b, top)
             row == InARow(I)
  <1>4. PICK items \in {row, Reverse(row)} :
          shown' = [bounds |-> b, insights |-> DeduplicateInsights(items)]
    BY <1>3
  <1>5. IsFiniteSet(I)
    BY <1>1, AllAre
  <1>6. items \in Seq(I) /\ \A i \in I : \E n \in 1 .. Len(items) : items[n] = i
    <2> HIDE DEF I
    <2>1. row \in Seq(I) /\ \A i \in I : \E n \in 1 .. Len(row) : row[n] = i
      BY <1>5, InARowIs
    <2> HIDE DEF row
    <2>2. /\ Reverse(row) \in Seq(I) /\ Len(Reverse(row)) = Len(row) /\ Len(row) \in Nat
          /\ \A n \in 1 .. Len(row) : Reverse(row)[n] = row[Len(row) - n + 1]
      BY <2>1 DEF Reverse
    <2>3. \A i \in I : \E n \in 1 .. Len(Reverse(row)) : Reverse(row)[n] = i
      <3>1. SUFFICES ASSUME NEW i \in I PROVE \E n \in 1 .. Len(Reverse(row)) : Reverse(row)[n] = i
        OBVIOUS
      <3>2. PICK m \in 1 .. Len(row) : row[m] = i
        BY <2>1
      <3>3. Len(row) - m + 1 \in 1 .. Len(row) /\ Len(row) - (Len(row) - m + 1) + 1 = m
        BY <2>2
      <3>4. Reverse(row)[Len(row) - m + 1] = i
        BY <2>2, <3>2, <3>3
      <3>5. QED
        BY <2>2, <3>3, <3>4
    <2>4. QED
      BY <1>4, <2>1, <2>2, <2>3
  <1> DEFINE X == DeduplicateInsights(items)
  <1>7. /\ X \subseteq I
        /\ config.deduplicate =>
             \A i \in I : LET same == {j \in X : Fingerprint(j) = Fingerprint(i)}
                          IN Cardinality(same) = 1 /\ \A j \in same : NoWorse(i, j)
    BY <1>1, <1>6, AnswerIs
  <1>8. shown' = [bounds |-> b, insights |-> X]
    BY <1>4
  <1> HIDE DEF X
  <1>9. WorstOfEachEntity'
    <2>1. \A t : GenerateRepositoryInsights(b, t)' = GenerateRepositoryInsights(b, t)
      BY <1>2, SameInsights
    <2>2. ASSUME config.deduplicate, NEW t, NEW i \in GenerateRepositoryInsights(b, t), i.type # "hotspot"
          PROVE  LET same == {j \in X : Fingerprint(j) = Fingerprint(i)}
                 IN Cardinality(same) = 1
                    /\ \A j \in same : Rank(j) > Rank(i) \/ (Rank(j) = Rank(i) /\ j.at >= i.at)
      <3>1. i \in I
        <4>1. \A j \in ListHotspots(b, t) : j.type = "hotspot"
          BY TypeOfHotspots
        <4>2. QED
          BY <2>2, <4>1 DEF GenerateRepositoryInsights
      <3>2. QED
        BY <1>7, <2>2, <3>1 DEF NoWorse
    <2>3. shown'.bounds = b /\ shown'.insights = X /\ config' = config
      BY <1>2, <1>8
    <2>4. QED
      BY <2>1, <2>2, <2>3 DEF WorstOfEachEntity
  <1>10. ReportedReachesThreshold'
    <2>1. /\ \A i \in I : i.type # "bottleneck" => i.value >= config[i.type].at
          /\ \A i \in I : i.type = "hotspot" => i \in ListHotspots(b, top)
          /\ \A i \in I : i.type = "concentration" => i \in ListReviewConcentration(b)
      BY <1>1, AllAre
    <2>2. /\ IsFiniteSet(ListHotspots(b, top)) /\ Cardinality(ListHotspots(b, top)) \in Nat
          /\ Cardinality(ListHotspots(b, top)) <= config.hotspot.top /\ config.hotspot.top \in Nat
      BY <1>1, HotspotsAre, InsightRulesAssumption DEF Made
    <2>3. 2 * config.concentration.at > Scale => \A i, j \in ListReviewConcentration(b) : i = j
      BY <1>1, ConcentrationsAre
    <2> HIDE DEF I
    <2>4. Cardinality({i \in X : i.type = "hotspot"}) <= config.hotspot.top
      <3>1. {i \in X : i.type = "hotspot"} \subseteq ListHotspots(b, top)
        BY <1>7, <2>1
      <3>2. /\ Cardinality({i \in X : i.type = "hotspot"}) <= Cardinality(ListHotspots(b, top))
            /\ Cardinality({i \in X : i.type = "hotspot"}) \in Nat
        BY <2>2, <3>1, FS_Subset, FS_CardinalityType
      <3>3. QED
        BY <2>2, <3>2
    <2>5. 2 * config.concentration.at > Scale => Cardinality({i \in X : i.type = "concentration"}) <= 1
      <3> DEFINE C == {i \in X : i.type = "concentration"}
      <3>1. SUFFICES ASSUME 2 * config.concentration.at > Scale PROVE Cardinality(C) <= 1
        OBVIOUS
      <3>2. \A i, j \in C : i = j
        BY <1>7, <2>1, <2>3, <3>1
      <3> HIDE DEF C
      <3>3. C = {} \/ \E i : C = {i}
        BY <3>2
      <3>4. CASE C = {}
        BY <3>4, FS_EmptySet
      <3>5. ASSUME NEW i, C = {i}
            PROVE  Cardinality(C) <= 1
        <4>1. Cardinality({i}) = 1
          BY FS_Singleton
        <4>2. QED
          BY <3>5, <4>1
      <3>6. QED
        BY <3>3, <3>4, <3>5
    <2>6. shown'.insights = X /\ config' = config
      BY <1>2, <1>8
    <2>7. \A i \in X : i.type # "bottleneck" => i.value >= config[i.type].at
      BY <1>7, <2>1
    <2>8. QED
      BY <2>4, <2>5, <2>6, <2>7 DEF ReportedReachesThreshold
  <1>11. StoredTypes'
    BY <1>1, <1>2 DEF StoredTypes, metricsVars
  <1>12. QED
    BY <1>1, <1>2, <1>9, <1>10, <1>11 DEF InsightInv

\* Nothing was shown yet.
LEMMA NothingIsShown ==
  ASSUME config \in Rules, shown = [bounds |-> {}, insights |-> {}]
  PROVE  ReportedReachesThreshold /\ WorstOfEachEntity
  <1>1. shown.insights = {} /\ shown.bounds = {}
    OBVIOUS
  <1>2. \A type : {i \in shown.insights : i.type = type} = {}
    BY <1>1
  <1>3. config.hotspot.top \in Nat /\ Cardinality({}) = 0
    BY InsightRulesAssumption, FS_EmptySet
  <1>4. ReportedReachesThreshold
    BY <1>1, <1>2, <1>3 DEF ReportedReachesThreshold
  <1>5. QED
    BY <1>1, <1>4 DEF WorstOfEachEntity

LEMMA InsightStart == Init => InsightInv
  <1> SUFFICES ASSUME Init PROVE InsightInv
    OBVIOUS
  <1>1. config \in Rules /\ shown = [bounds |-> {}, insights |-> {}]
    <2>1. (part = "insights" /\ InsightsInit) \/ NothingShown
      BY DEF Init
    <2>2. Rules # {}
      BY InsightRulesAssumption
    <2>3. QED
      BY <2>1, <2>2 DEF InsightsInit, NothingShown
  <1>2. ASSUME part = "insights"
        PROVE  StoredTypes
    <2> DEFINE persons == People \ Bots
    <2>1. InsightsInit
      BY <1>2 DEF Init
    <2>2. \A t \in Time : t \in Int
      BY MetricsAssumption DEF Time
    <2>3. PerDay * (LastDay + 1) - 1 \in Nat
      BY MetricsAssumption
    <2>4. DOMAIN prs \subseteq PullRequests /\ \A p \in DOMAIN prs : prs[p].created \in Int /\ prs[p].merged \in Int
      BY <2>1, MetricsAssumption DEF InsightsInit, None
    <2>5. DOMAIN deployments \subseteq Deployments /\ \A d \in DOMAIN deployments : deployments[d].at \in Int
      <3>1. deployments \in [Deployments -> Deployment]
        BY <2>1 DEF InsightsInit
      <3>2. \A d \in Deployments : deployments[d] \in Deployment
        BY <3>1
      <3>3. QED
        BY <2>2, <3>1, <3>2 DEF Deployment
    <2>6. PICK asked \in [persons -> SUBSET {w \in Time \X Time : w[1] <= w[2]}] :
            reviews = {[pr |-> 2, by |-> u, requested |-> CHOOSE q \in Time : \E f \in Time : <<q, f>> \in asked[u],
                        first |-> CHOOSE f \in Time : \E q \in Time : <<q, f>> \in asked[u]] :
                          u \in {v \in persons : asked[v] # {}}}
      BY <2>1 DEF InsightsInit
    <2> DEFINE R == {v \in persons : asked[v] # {}}
               request(u) == CHOOSE q \in Time : \E f \in Time : <<q, f>> \in asked[u]
               response(u) == CHOOSE f \in Time : \E q \in Time : <<q, f>> \in asked[u]
               review == [u \in R |-> [pr |-> 2, by |-> u, requested |-> request(u), first |-> response(u)]]
    <2>7. reviews = {review[u] : u \in R}
      BY <2>6
    <2>8. ASSUME NEW u \in R
          PROVE  request(u) \in Int /\ response(u) \in Int
      <3>1. asked[u] # {} /\ asked[u] \subseteq Time \X Time
        BY <2>6
      <3>2. PICK q \in Time, f \in Time : <<q, f>> \in asked[u]
        BY <3>1
      <3>3. request(u) \in Time /\ response(u) \in Time
        BY <3>2
      <3>4. QED
        BY <2>2, <3>3
    <2>9. IsFiniteSet(R)
      BY FS_Subset, MetricsAssumption
    <2> HIDE DEF R, request, response
    <2>10. \A u \in R : review[u].requested \in Int /\ review[u].first \in Int
      BY <2>8
    <2> HIDE DEF review
    <2>11. IsFiniteSet(reviews) /\ \A r \in reviews : r.requested \in Int /\ r.first \in Int
      BY <2>7, <2>9, <2>10, FiniteImage
    <2>12. QED
      BY <2>4, <2>5, <2>11 DEF StoredTypes
  <1>3. QED
    BY <1>1, <1>2, NothingIsShown DEF InsightInv

LEMMA InsightStep == InsightInv /\ [Next]_vars => InsightInv'
  <1> SUFFICES ASSUME InsightInv, [Next]_vars PROVE InsightInv'
    OBVIOUS
  <1>1. CASE part = "insights" /\ LoadInsights /\ part' = part
    BY <1>1, LoadInsightsKeeps
  <1>2. CASE part # "insights" /\ part' = part /\ UNCHANGED insightVars
    <2>1. shown' = shown /\ config' = config /\ shown.bounds = {}
      BY <1>2 DEF InsightInv, insightVars
    <2>2. ReportedReachesThreshold'
      BY <2>1 DEF InsightInv, ReportedReachesThreshold
    <2>3. WorstOfEachEntity'
      BY <2>1 DEF WorstOfEachEntity
    <2>4. QED
      BY <1>2, <2>1, <2>2, <2>3 DEF InsightInv
  <1>3. CASE part' = part /\ UNCHANGED <<insightVars, metricsVars>>
    <2>1. shown' = shown /\ config' = config /\ UNCHANGED <<metricsVars, config>>
      BY <1>3 DEF insightVars
    <2>2. ReportedReachesThreshold'
      BY <2>1 DEF InsightInv, ReportedReachesThreshold
    <2>3. \A b : TopFiles(b)' = TopFiles(b)
      BY <2>1, SameInsights
    <2>4. \A b, t : GenerateRepositoryInsights(b, t)' = GenerateRepositoryInsights(b, t)
      BY <2>1, SameInsights
    <2>5. WorstOfEachEntity'
      BY <2>1, <2>3, <2>4 DEF InsightInv, WorstOfEachEntity
    <2>6. StoredTypes => StoredTypes'
      BY <1>3 DEF StoredTypes, metricsVars
    <2>7. QED
      BY <1>3, <2>1, <2>2, <2>5, <2>6 DEF InsightInv
  <1>4. \/ part = "insights" /\ LoadInsights /\ part' = part
        \/ part # "insights" /\ part' = part /\ UNCHANGED insightVars
        \/ part' = part /\ UNCHANGED <<insightVars, metricsVars>>
    BY DEF Next, vars
  <1>5. QED
    BY <1>1, <1>2, <1>3, <1>4

\* Of the insights that were found of an entity the most severe is shown, then the latest,
\* and it alone (insights deduplicateInsights, shouldReplaceInsight).
THEOREM WorstIsShown == Spec => []WorstOfEachEntity
  <1>1. InsightInv => WorstOfEachEntity
    BY DEF InsightInv
  <1>2. QED
    BY <1>1, InsightStart, InsightStep, PTL DEF Spec

\* What is shown reaches its threshold, and the hotspots their limit (insights
\* ListSlowReviews, ListReviewConcentration, ListHotspots).
THEOREM ReportedReaches == Spec => []ReportedReachesThreshold
  <1>1. InsightInv => ReportedReachesThreshold
    BY DEF InsightInv
  <1>2. QED
    BY <1>1, InsightStart, InsightStep, PTL DEF Spec

(***************************************************************************)
(* The timeline of PullRequests.                                            *)
(***************************************************************************)

-----------------------------------------------------------------------------
(* Places in an order.                                                        *)

IsOrder(R, S) ==
  /\ \A x \in S : <<x, x>> \notin R
  /\ \A x, y, z \in S : <<x, y>> \in R /\ <<y, z>> \in R => <<x, z>> \in R
  /\ \A x, y \in S : x = y \/ <<x, y>> \in R \/ <<y, x>> \in R
UpToIn(R, S, x) == {y \in S : y = x \/ <<y, x>> \in R}
PlaceIn(R, S) == [x \in S |-> Cardinality(UpToIn(R, S, x))]

\* The elements of a finite set that is ordered have the places 1, 2, ... up to their
\* number, each a place of its own, in their order.
LEMMA PlacesAreInOrder ==
  ASSUME NEW S, IsFiniteSet(S), NEW R, IsOrder(R, S)
  PROVE  /\ \A x \in S : PlaceIn(R, S)[x] \in 1 .. Cardinality(S)
         /\ \A x, y \in S : PlaceIn(R, S)[x] = PlaceIn(R, S)[y] => x = y
         /\ \A x, y \in S : <<x, y>> \in R => PlaceIn(R, S)[x] < PlaceIn(R, S)[y]
         /\ \A i \in 1 .. Cardinality(S) : \E x \in S : PlaceIn(R, S)[x] = i
  <1> DEFINE place == PlaceIn(R, S)
             U(x) == UpToIn(R, S, x)
  <1>1. \A x \in S : x \in U(x) /\ U(x) \subseteq S /\ place[x] = Cardinality(U(x))
    BY DEF UpToIn, PlaceIn
  <1>2. \A x, y \in S : <<x, y>> \in R => U(x) \subseteq U(y) /\ y \notin U(x)
    BY DEF IsOrder, UpToIn
  <1>3. DOMAIN place = S /\ place = [x \in S |-> place[x]]
    BY DEF PlaceIn
  <1> HIDE DEF place, U
  <1>4. Cardinality(S) \in Nat
    BY FS_CardinalityType
  <1>5. \A x \in S : IsFiniteSet(U(x)) /\ Cardinality(U(x)) \in Nat /\ Cardinality(U(x)) <= Cardinality(S)
    BY <1>1, FS_Subset, FS_CardinalityType
  <1>6. ASSUME NEW x \in S
        PROVE  place[x] \in 1 .. Cardinality(S)
    <2>1. Cardinality(U(x)) # 0
      BY <1>1, <1>5, FS_EmptySet
    <2>2. QED
      BY <1>1, <1>4, <1>5, <2>1
  <1>7. ASSUME NEW x \in S, NEW y \in S, <<x, y>> \in R
        PROVE  place[x] < place[y]
    <2>1. U(x) \in SUBSET U(y) /\ U(x) # U(y)
      BY <1>1, <1>2, <1>7
    <2>2. Cardinality(U(x)) <= Cardinality(U(y)) /\ Cardinality(U(x)) # Cardinality(U(y))
      BY <1>5, <2>1, FS_Subset
    <2>3. QED
      BY <1>1, <1>5, <2>2
  <1>8. ASSUME NEW x \in S, NEW y \in S, place[x] = place[y]
        PROVE  x = y
    <2>1. place[x] \in Int /\ place[y] \in Int
      BY <1>6
    <2>2. <<x, y>> \notin R /\ <<y, x>> \notin R
      BY <1>7, <1>8, <2>1
    <2>3. QED
      BY <2>2 DEF IsOrder
  <1>9. ASSUME NEW i \in 1 .. Cardinality(S)
        PROVE  \E x \in S : place[x] = i
    <2>1. place \in Injection(S, 1 .. Cardinality(S))
      BY <1>3, <1>6, <1>8, Z3 DEF Injection, IsInjective
    <2>2. IsFiniteSet(1 .. Cardinality(S)) /\ Cardinality(1 .. Cardinality(S)) = Cardinality(S)
      BY <1>4, FS_Interval
    <2>3. place \in Surjection(S, 1 .. Cardinality(S))
      BY <2>1, <2>2, FS_Injection
    <2>4. QED
      BY <2>3 DEF Surjection
  <1>10. QED
    BY <1>6, <1>7, <1>8, <1>9 DEF place

-----------------------------------------------------------------------------
(* The reviews that there are.                                                *)

ReviewsThere ==
  /\ \A k \in 1 .. Now : DOMAIN versions[k].reviews \subseteq ReviewIds
  /\ DOMAIN reviewRows \subseteq ReviewIds

LEMMA VersionWith ==
  ASSUME RowInv, ReviewsThere, NEW pr, NEW submitted, DOMAIN submitted \subseteq ReviewIds,
         Version(pr, submitted)
  PROVE  ReviewsThere'
  <1> DEFINE V == [pr |-> pr, reviews |-> submitted]
  <1>1. versions' = Append(versions, V) /\ V.reviews = submitted /\ reviewRows' = reviewRows
    BY DEF Version
  <1> HIDE DEF V
  <1>2. PICK S : versions \in Seq(S)
    BY DEF RowInv, Versions
  <1>3. versions \in Seq(S \cup {V})
    BY <1>2
  <1>4. /\ Now \in Nat /\ Now' = Now + 1 /\ versions'[Now + 1] = V
        /\ \A k \in 1 .. Now : versions'[k] = versions[k]
    BY <1>1, <1>3 DEF Now
  <1>5. ASSUME NEW k \in 1 .. Now'
        PROVE  DOMAIN versions'[k].reviews \subseteq ReviewIds
    <2>1. k \in 1 .. Now \/ k = Now + 1
      BY <1>4
    <2>2. QED
      BY <1>1, <1>4, <2>1 DEF ReviewsThere
  <1>6. QED
    BY <1>1, <1>5 DEF ReviewsThere

LEMMA ReviewsThereStep ==
  ASSUME RowInv, ReviewsThere, PullRequestsNext
  PROVE  ReviewsThere'
  <1> DEFINE V == versions[Now]
  <1>0. Now \in 1 .. Now
    BY DEF RowInv, Versions
  <1>1. CASE Change
    <2>1. PICK pr : Version(pr, V.reviews)
      BY <1>1 DEF Change
    <2>2. QED
      BY <1>0, <2>1, VersionWith DEF ReviewsThere
  <1>2. CASE \E r \in ReviewIds : Submit(r)
    <2>1. PICK r \in ReviewIds : Submit(r)
      BY <1>2
    <2>2. PICK submitted : Version(V.pr, submitted) /\ DOMAIN submitted \subseteq DOMAIN V.reviews \cup {r}
      BY <2>1 DEF Submit
    <2>3. QED
      BY <1>0, <2>1, <2>2, VersionWith DEF ReviewsThere
  <1>3. ASSUME NEW in, NEW inReviews, Store(in, inReviews), DOMAIN inReviews \subseteq ReviewIds
        PROVE  ReviewsThere'
    <2>1. UNCHANGED versions /\ DOMAIN reviewRows' = DOMAIN inReviews \cup DOMAIN reviewRows
      BY <1>3 DEF Store
    <2>2. QED
      BY <1>3, <2>1 DEF ReviewsThere, Now
  <1>4. CASE \E k \in 1 .. Now : ProjectPullRequest(k) \/ \E r \in ReviewIds : ProjectReview(k, r)
    <2>1. PICK k \in 1 .. Now : ProjectPullRequest(k) \/ \E r \in ReviewIds : ProjectReview(k, r)
      BY <1>4
    <2>2. CASE ProjectPullRequest(k)
      <3>1. Store(versions[k].pr, <<>>) /\ DOMAIN <<>> \subseteq ReviewIds
        BY <2>2 DEF ProjectPullRequest
      <3>2. QED
        BY <1>3, <3>1
    <2>3. CASE \E r \in ReviewIds : ProjectReview(k, r)
      <3>1. PICK r \in ReviewIds : ProjectReview(k, r)
        BY <2>3
      <3> DEFINE row == [s \in {r} |-> ReviewRow(versions[k].reviews[r], versions[k].reviews[r].at)]
      <3>2. PICK size : Store([versions[k].pr EXCEPT !.size = size], row)
        BY <3>1 DEF ProjectReview
      <3>3. DOMAIN row \subseteq ReviewIds
        BY <3>1
      <3> HIDE DEF row
      <3>4. QED
        BY <1>3, <3>2, <3>3
    <2>4. QED
      BY <2>1, <2>2, <2>3
  <1>5. CASE \E page, detail, later \in 1 .. Now, cutoff \in 0 .. Now :
               SyncPullRequest(page, detail, later, cutoff)
    <2>1. PICK page \in 1 .. Now, detail \in 1 .. Now, later \in 1 .. Now, cutoff \in 0 .. Now :
            SyncPullRequest(page, detail, later, cutoff)
      BY <1>5
    <2> DEFINE inReviews == BuildReviewInputs(SyncReviews(versions[later].reviews, cutoff))
    <2>2. Store(BuildPullRequestInput(versions[detail].pr, versions[page].pr), inReviews)
      BY <2>1 DEF SyncPullRequest
    <2>3. DOMAIN inReviews \subseteq ReviewIds
      BY DEF ReviewsThere, BuildReviewInputs, SyncReviews
    <2> HIDE DEF inReviews
    <2>4. QED
      BY <1>3, <2>2, <2>3
  <1>6. QED
    BY <1>1, <1>2, <1>4, <1>5 DEF PullRequestsNext

LEMMA ReviewsThereStart == Init => ReviewsThere
  <1> SUFFICES ASSUME PullRequestsInit
               PROVE  ReviewsThere
    BY DEF Init
  <1>1. versions = <<[pr |-> Opened, reviews |-> <<>>]>> /\ reviewRows = <<>>
    BY DEF PullRequestsInit
  <1>2. Now = 1 /\ versions[1].reviews = <<>>
    BY <1>1 DEF Now
  <1>3. QED
    BY <1>1, <1>2 DEF ReviewsThere

-----------------------------------------------------------------------------
(* The events.                                                                *)

\* What happened: it was created at 1, each review began and was submitted later, and it
\* was merged, or closed, or neither, later.
TimelineEnd == IF pull.merged # Null THEN Happened("merged", 0, pull.merged)
               ELSE Happened("closed", 0, pull.closed)
AnEvent(type, of, at) == [type |-> type, of |-> of, at |-> at]

LEMMA EventsAre ==
  ASSUME RowInv, ReviewsThere, pull # <<>>
  PROVE  /\ \A e : e \in Events <=>
              \/ e = AnEvent("created", 0, 1)
              \/ \E r \in DOMAIN reviewRows : e = AnEvent("started", r, reviewRows[r].first)
              \/ \E r \in DOMAIN reviewRows : e = AnEvent("submitted", r, reviewRows[r].submitted)
              \/ pull.merged # Null /\ e = AnEvent("merged", 0, pull.merged)
              \/ pull.merged = Null /\ pull.closed # Null /\ e = AnEvent("closed", 0, pull.closed)
         /\ \A r \in DOMAIN reviewRows :
              /\ reviewRows[r].requested = Null /\ reviewRows[r].first \in Nat
              /\ reviewRows[r].submitted \in Nat /\ 1 < reviewRows[r].first
              /\ reviewRows[r].first <= reviewRows[r].submitted
         /\ pull.created = 1 /\ {pull.merged, pull.closed} \subseteq Nat \cup {Null}
         /\ \A t \in {pull.merged, pull.closed} : t # Null => t > 1
  <1>1. PullFollows(pull, taken) /\ (\A s \in taken : IsSnapshot(s))
    BY DEF RowInv, PullInv
  <1>2. /\ pull.created = 1 /\ {pull.merged, pull.closed} \subseteq Nat \cup {Null}
        /\ \A t \in {pull.merged, pull.closed} : t # Null => t > 1
    BY <1>1 DEF PullFollows, IsSnapshot, IsPull
  <1>3. \A r \in DOMAIN reviewRows : IsReviewRow(reviewRows[r])
    BY DEF RowInv, ReviewInv, ReviewFollows
  <1>4. \A r \in DOMAIN reviewRows :
              /\ reviewRows[r].requested = Null /\ reviewRows[r].first \in Nat
              /\ reviewRows[r].submitted \in Nat /\ 1 < reviewRows[r].first
              /\ reviewRows[r].first <= reviewRows[r].submitted
    BY <1>3 DEF IsReviewRow
  <1>5. \A n \in Nat : n # Null
    BY DEF Null
  <1>6. Happened("created", 0, pull.created) = {AnEvent("created", 0, 1)}
    BY <1>2, <1>5 DEF Happened, AnEvent
  <1> DEFINE of(r) == Happened("requested", r, reviewRows[r].requested)
                        \cup Happened("started", r, reviewRows[r].first)
                        \cup Happened("submitted", r, reviewRows[r].submitted)
  <1>7. ASSUME NEW r \in DOMAIN reviewRows
        PROVE  of(r) = {AnEvent("started", r, reviewRows[r].first),
                        AnEvent("submitted", r, reviewRows[r].submitted)}
    <2>1. /\ Happened("requested", r, reviewRows[r].requested) = {}
          /\ Happened("started", r, reviewRows[r].first) = {AnEvent("started", r, reviewRows[r].first)}
          /\ Happened("submitted", r, reviewRows[r].submitted)
               = {AnEvent("submitted", r, reviewRows[r].submitted)}
      BY <1>4, <1>5 DEF Happened, AnEvent
    <2>2. QED
      BY <2>1
  <1> DEFINE U == UNION {of(r) : r \in DOMAIN reviewRows}
  <1>8. Events = {AnEvent("created", 0, 1)} \cup TimelineEnd \cup U
    BY <1>6 DEF Events, TimelineEnd
  <1> HIDE DEF of
  <1>9. \A e : e \in TimelineEnd <=>
              \/ pull.merged # Null /\ e = AnEvent("merged", 0, pull.merged)
              \/ pull.merged = Null /\ pull.closed # Null /\ e = AnEvent("closed", 0, pull.closed)
    BY DEF TimelineEnd, Happened, AnEvent
  <1>10. \A e : e \in U <=>
              \/ \E r \in DOMAIN reviewRows : e = AnEvent("started", r, reviewRows[r].first)
              \/ \E r \in DOMAIN reviewRows : e = AnEvent("submitted", r, reviewRows[r].submitted)
    BY <1>7
  <1>11. \A e : e \in Events <=>
              \/ e = AnEvent("created", 0, 1)
              \/ \E r \in DOMAIN reviewRows : e = AnEvent("started", r, reviewRows[r].first)
              \/ \E r \in DOMAIN reviewRows : e = AnEvent("submitted", r, reviewRows[r].submitted)
              \/ pull.merged # Null /\ e = AnEvent("merged", 0, pull.merged)
              \/ pull.merged = Null /\ pull.closed # Null /\ e = AnEvent("closed", 0, pull.closed)
    <2> HIDE DEF U
    <2>1. \A e : e \in Events <=> e = AnEvent("created", 0, 1) \/ e \in U \/ e \in TimelineEnd
      BY ONLY <1>8
    <2>2. QED
      BY ONLY <1>9, <1>10, <2>1
  <1>12. QED
    BY <1>2, <1>4, <1>11

LEMMA EventsAreFinite ==
  ASSUME RowInv, ReviewsThere, pull # <<>>
  PROVE  IsFiniteSet(Events)
  <1> DEFINE D == DOMAIN reviewRows
             A == {AnEvent("started", r, reviewRows[r].first) : r \in D}
             B == {AnEvent("submitted", r, reviewRows[r].submitted) : r \in D}
             C == {AnEvent("created", 0, 1), AnEvent("merged", 0, pull.merged), AnEvent("closed", 0, pull.closed)}
  <1>1. IsFiniteSet(D)
    BY PullRequestsAssumption, FS_Subset DEF ReviewsThere
  <1>2. IsFiniteSet(A) /\ IsFiniteSet(B)
    <2> DEFINE started == [r \in D |-> AnEvent("started", r, reviewRows[r].first)]
               submitted == [r \in D |-> AnEvent("submitted", r, reviewRows[r].submitted)]
    <2>0. A = {started[r] : r \in D} /\ B = {submitted[r] : r \in D}
      OBVIOUS
    <2> HIDE DEF D, A, B, started, submitted
    <2>1. IsFiniteSet(A)
      BY <1>1, <2>0, FiniteImage
    <2>2. IsFiniteSet(B)
      BY <1>1, <2>0, FiniteImage
    <2>3. QED
      BY <2>1, <2>2
  <1>3. IsFiniteSet(C)
    <2> DEFINE a == AnEvent("created", 0, 1)
               b == AnEvent("merged", 0, pull.merged)
               c == AnEvent("closed", 0, pull.closed)
    <2>1. C = {a} \cup {b} \cup {c}
      OBVIOUS
    <2> HIDE DEF C, a, b, c
    <2>2. IsFiniteSet({a}) /\ IsFiniteSet({b}) /\ IsFiniteSet({c})
      BY FS_Singleton
    <2>3. IsFiniteSet({a} \cup {b})
      BY <2>2, FS_Union
    <2>4. QED
      BY <2>1, <2>2, <2>3, FS_Union
  <1>4. Events \subseteq A \cup B \cup C
    BY EventsAre
  <1> HIDE DEF A, B, C
  <1>5. QED
    BY <1>2, <1>3, <1>4, FS_Union, FS_Subset

PriorityOf(e) == TimelinePriority[e.type]

\* Two events differ in what they are or in the review that they are of.
LEMMA EventsDiffer ==
  ASSUME RowInv, ReviewsThere, pull # <<>>
  PROVE  /\ \A e \in Events : /\ e.at \in Nat /\ PriorityOf(e) \in 0 .. 5 /\ e.of \in Int
                              /\ e.of \in DOMAIN reviewRows => reviewRows[e.of].submitted \in Nat
         /\ \A e, f \in Events :
              /\ PriorityOf(e) = PriorityOf(f) <=> e.type = f.type
              /\ e.type = f.type /\ e.of = f.of => e = f
              /\ e.type = f.type => e = f \/ {e.of, f.of} \subseteq DOMAIN reviewRows
  <1>1. \A r \in DOMAIN reviewRows : r \in Int
    BY PullRequestsAssumption DEF ReviewsThere
  <1>2. ASSUME NEW e \in Events
        PROVE  /\ e.at \in Nat /\ e.of \in Int
               /\ e.type \in {"created", "started", "submitted", "merged", "closed"}
               /\ e.type \in {"started", "submitted"} => e.of \in DOMAIN reviewRows
               /\ e.type \notin {"started", "submitted"} => e.of = 0
               /\ e = AnEvent(e.type, e.of, e.at)
               /\ e.at = CASE e.type = "created" -> 1
                           [] e.type = "started" -> reviewRows[e.of].first
                           [] e.type = "submitted" -> reviewRows[e.of].submitted
                           [] e.type = "merged" -> pull.merged
                           [] OTHER -> pull.closed
    <2>1. CASE e = AnEvent("created", 0, 1)
      BY <2>1 DEF AnEvent
    <2>2. CASE \E r \in DOMAIN reviewRows : e = AnEvent("started", r, reviewRows[r].first)
      BY <1>1, <2>2, EventsAre DEF AnEvent
    <2>3. CASE \E r \in DOMAIN reviewRows : e = AnEvent("submitted", r, reviewRows[r].submitted)
      BY <1>1, <2>3, EventsAre DEF AnEvent
    <2>4. CASE pull.merged # Null /\ e = AnEvent("merged", 0, pull.merged)
      <3>1. pull.merged \in Nat
        BY <2>4, EventsAre
      <3>2. QED
        BY <2>4, <3>1 DEF AnEvent
    <2>5. CASE pull.merged = Null /\ pull.closed # Null /\ e = AnEvent("closed", 0, pull.closed)
      <3>1. pull.closed \in Nat
        BY <2>5, EventsAre
      <3>2. QED
        BY <2>5, <3>1 DEF AnEvent
    <2>6. QED
      BY <2>1, <2>2, <2>3, <2>4, <2>5, EventsAre
  <1>3. /\ TimelinePriority["created"] = 0 /\ TimelinePriority["started"] = 2
        /\ TimelinePriority["submitted"] = 3 /\ TimelinePriority["merged"] = 4
        /\ TimelinePriority["closed"] = 5
    BY DEF TimelinePriority
  <1>4. \A e \in Events : PriorityOf(e) \in 0 .. 5
    BY <1>2, <1>3 DEF PriorityOf
  <1>5. \A e, f \in Events : PriorityOf(e) = PriorityOf(f) <=> e.type = f.type
    BY <1>2, <1>3 DEF PriorityOf
  <1>6. \A e \in Events : e.of \in DOMAIN reviewRows => reviewRows[e.of].submitted \in Nat
    BY EventsAre
  <1>7. ASSUME NEW e \in Events, NEW f \in Events, e.type = f.type, e.of = f.of
        PROVE  e = f
    <2>1. e.at = f.at
      BY <1>2, <1>7
    <2>2. e = AnEvent(e.type, e.of, e.at) /\ f = AnEvent(f.type, f.of, f.at)
      BY <1>2
    <2>3. QED
      BY <1>7, <2>1, <2>2
  <1>8. ASSUME NEW e \in Events, NEW f \in Events, e.type = f.type
        PROVE  e = f \/ {e.of, f.of} \subseteq DOMAIN reviewRows
    <2>1. CASE e.type \in {"started", "submitted"}
      BY <1>2, <1>8, <2>1
    <2>2. CASE e.type \notin {"started", "submitted"}
      BY <1>2, <1>7, <1>8, <2>2
    <2>3. QED
      BY <2>1, <2>2
  <1>9. QED
    BY <1>2, <1>4, <1>5, <1>6, <1>7, <1>8

EarlierThan == {p \in Events \X Events : Earlier(p[1], p[2])}

LEMMA EventsAreInOrder ==
  ASSUME RowInv, ReviewsThere, pull # <<>>
  PROVE  /\ IsOrder(EarlierThan, Events)
         /\ \A e, f \in Events : <<e, f>> \in EarlierThan <=> Earlier(e, f)
         /\ \A e \in Events : PlaceIn(EarlierThan, Events)[e] = PlaceInTimeline(e)
  <1>1. \A e, f \in Events : <<e, f>> \in EarlierThan <=> Earlier(e, f)
    BY DEF EarlierThan
  <1> DEFINE sub(e) == reviewRows[e.of].submitted
  <1>2. \A e, f \in Events : Earlier(e, f) <=>
          \/ e.at < f.at
          \/ e.at = f.at /\ PriorityOf(e) < PriorityOf(f)
          \/ /\ e.at = f.at /\ PriorityOf(e) = PriorityOf(f) /\ {e.of, f.of} \subseteq DOMAIN reviewRows
             /\ sub(e) < sub(f) \/ (sub(e) = sub(f) /\ e.of < f.of)
    BY EventsDiffer DEF Earlier, ListReviewsBefore, PriorityOf
  <1>3. \A e \in Events : /\ e.at \in Nat /\ PriorityOf(e) \in Nat /\ e.of \in Int
                          /\ e.of \in DOMAIN reviewRows => sub(e) \in Nat
    BY EventsDiffer
  <1>4. \A e, f \in Events : PriorityOf(e) = PriorityOf(f) =>
          /\ e.of = f.of => e = f
          /\ e = f \/ {e.of, f.of} \subseteq DOMAIN reviewRows
    BY EventsDiffer
  <1> HIDE DEF sub
  <1>5. \A e \in Events : ~Earlier(e, e)
    BY <1>2, <1>3
  <1>6. \A e, f, g \in Events : Earlier(e, f) /\ Earlier(f, g) => Earlier(e, g)
    BY <1>2, <1>3
  <1>7. \A e, f \in Events : e = f \/ Earlier(e, f) \/ Earlier(f, e)
    BY <1>2, <1>3, <1>4
  <1>8. IsOrder(EarlierThan, Events)
    BY <1>1, <1>5, <1>6, <1>7 DEF IsOrder
  <1>9. ASSUME NEW e \in Events
        PROVE  PlaceIn(EarlierThan, Events)[e] = PlaceInTimeline(e)
    <2>1. UpToIn(EarlierThan, Events, e) = {f \in Events : f = e \/ Earlier(f, e)}
      BY <1>1 DEF UpToIn
    <2>2. QED
      BY <2>1 DEF PlaceIn, PlaceInTimeline
  <1>10. QED
    BY <1>1, <1>8, <1>9

\* The timeline has every event once, none before one that is earlier.
LEMMA TimelineIs ==
  ASSUME RowInv, ReviewsThere, pull # <<>>
  PROVE  /\ Len(BuildTimeline) \in Nat /\ DOMAIN BuildTimeline = 1 .. Len(BuildTimeline)
         /\ \A i \in DOMAIN BuildTimeline : BuildTimeline[i] \in Events
         /\ \A e \in Events : \E i \in DOMAIN BuildTimeline : BuildTimeline[i] = e
         /\ \A i, j \in DOMAIN BuildTimeline : BuildTimeline[i] = BuildTimeline[j] => i = j
         /\ \A i, j \in DOMAIN BuildTimeline : Earlier(BuildTimeline[i], BuildTimeline[j]) => i < j
  <1> DEFINE n == Cardinality(Events)
             T == BuildTimeline
             place == PlaceIn(EarlierThan, Events)
  <1>1. n \in Nat
    BY EventsAreFinite, FS_CardinalityType
  <1>2. /\ \A e \in Events : place[e] \in 1 .. n
        /\ \A e, f \in Events : place[e] = place[f] => e = f
        /\ \A e, f \in Events : <<e, f>> \in EarlierThan => place[e] < place[f]
        /\ \A i \in 1 .. n : \E e \in Events : place[e] = i
    BY EventsAreFinite, EventsAreInOrder, PlacesAreInOrder
  <1>3. /\ \A e, f \in Events : <<e, f>> \in EarlierThan <=> Earlier(e, f)
        /\ \A e \in Events : place[e] = PlaceInTimeline(e)
    BY EventsAreInOrder
  <1> HIDE DEF place
  <1>4. DOMAIN T = 1 .. n /\ \A i \in 1 .. n : T[i] = CHOOSE e \in Events : PlaceInTimeline(e) = i
    BY DEF BuildTimeline
  <1>5. \A i \in 1 .. n : T[i] \in Events /\ PlaceInTimeline(T[i]) = i
    BY <1>2, <1>3, <1>4
  <1>6. Len(T) = n
    <2>1. T \in [1 .. n -> Events]
      BY <1>5 DEF BuildTimeline
    <2>2. T \in Seq(Events)
      BY <1>1, <2>1, Z3
    <2> HIDE DEF T
    <2>3. Len(T) \in Nat /\ DOMAIN T = 1 .. Len(T)
      BY <2>2
    <2>4. QED
      BY <1>1, <1>4, <2>3
  <1> HIDE DEF n, T
  <1>7. \A i \in 1 .. n : T[i] \in Events /\ place[T[i]] = i
    BY <1>3, <1>5
  <1>8. ASSUME NEW e \in Events
        PROVE  T[place[e]] = e /\ place[e] \in 1 .. n
    BY <1>2, <1>7
  <1>9. \A i, j \in 1 .. n : T[i] = T[j] => i = j
    BY <1>7
  <1>10. ASSUME NEW i \in 1 .. n, NEW j \in 1 .. n, Earlier(T[i], T[j])
         PROVE  i < j
    <2>1. <<T[i], T[j]>> \in EarlierThan
      BY <1>3, <1>7, <1>10
    <2>2. place[T[i]] < place[T[j]]
      BY <1>2, <1>7, <2>1
    <2>3. QED
      BY <1>7, <2>2
  <1>11. QED
    BY <1>1, <1>4, <1>6, <1>7, <1>8, <1>9, <1>10 DEF T

\* An event that happens earlier comes earlier, and what comes earlier does not happen later.
LEMMA TimelineSorts ==
  ASSUME RowInv, ReviewsThere, pull # <<>>,
         NEW i \in DOMAIN BuildTimeline, NEW j \in DOMAIN BuildTimeline, i < j
  PROVE  BuildTimeline[i].at <= BuildTimeline[j].at
  <1> DEFINE T == BuildTimeline
  <1>1. T[i] \in Events /\ T[j] \in Events /\ i \in Int /\ j \in Int
    BY TimelineIs
  <1>2. T[i] # T[j]
    BY <1>1, TimelineIs
  <1>3. ~Earlier(T[j], T[i])
    BY <1>1, TimelineIs
  <1>4. Earlier(T[i], T[j])
    BY <1>1, <1>2, <1>3, EventsAreInOrder DEF IsOrder
  <1>5. T[i].at \in Nat /\ T[j].at \in Nat
    BY <1>1, EventsDiffer
  <1> HIDE DEF T
  <1>6. QED
    BY <1>4, <1>5 DEF Earlier, T

LEMMA TheTimeline ==
  ASSUME RowInv, ReviewsThere
  PROVE  TimelineInOrder
  <1> SUFFICES ASSUME pull # <<>>
               PROVE  TimelineInOrder
    BY DEF TimelineInOrder
  <1> DEFINE T == BuildTimeline
             ends == {i \in DOMAIN T : T[i].type \in {"merged", "closed"}}
             created == AnEvent("created", 0, 1)
  <1>1. /\ Len(T) \in Nat /\ DOMAIN T = 1 .. Len(T)
        /\ \A i \in DOMAIN T : T[i] \in Events
        /\ \A e \in Events : \E i \in DOMAIN T : T[i] = e
        /\ \A i, j \in DOMAIN T : T[i] = T[j] => i = j
        /\ \A i, j \in DOMAIN T : Earlier(T[i], T[j]) => i < j
    BY TimelineIs
  <1>2. \A i, j \in DOMAIN T : i < j => T[i].at <= T[j].at
    BY TimelineSorts
  <1> HIDE DEF T
  <1>3. \A i \in 1 .. Len(T) - 1 : T[i].at <= T[i + 1].at
    <2>1. SUFFICES ASSUME NEW i \in 1 .. Len(T) - 1
                   PROVE  T[i].at <= T[i + 1].at
      OBVIOUS
    <2>2. i \in DOMAIN T /\ i + 1 \in DOMAIN T /\ i < i + 1
      BY <1>1
    <2>3. QED
      BY <1>2, <2>2
  <1>4. \A e \in Events : e = created \/ e.at > 1
    <2>1. SUFFICES ASSUME NEW e \in Events, e # created
                   PROVE  e.at > 1
      OBVIOUS
    <2>2. CASE \E r \in DOMAIN reviewRows : e = AnEvent("started", r, reviewRows[r].first)
      BY <2>2, EventsAre DEF AnEvent
    <2>3. CASE \E r \in DOMAIN reviewRows : e = AnEvent("submitted", r, reviewRows[r].submitted)
      <3>1. PICK r \in DOMAIN reviewRows : e = AnEvent("submitted", r, reviewRows[r].submitted)
        BY <2>3
      <3>2. /\ reviewRows[r].first \in Nat /\ reviewRows[r].submitted \in Nat /\ 1 < reviewRows[r].first
            /\ reviewRows[r].first <= reviewRows[r].submitted
        BY EventsAre
      <3>3. QED
        BY <3>1, <3>2 DEF AnEvent
    <2>4. CASE pull.merged # Null /\ e = AnEvent("merged", 0, pull.merged)
      BY <2>4, EventsAre DEF AnEvent
    <2>5. CASE pull.merged = Null /\ pull.closed # Null /\ e = AnEvent("closed", 0, pull.closed)
      BY <2>5, EventsAre DEF AnEvent
    <2>6. QED
      BY <2>1, <2>2, <2>3, <2>4, <2>5, EventsAre
  <1>5. created \in Events /\ created.at = 1 /\ created.type = "created"
    BY EventsAre DEF AnEvent
  <1> HIDE DEF created
  <1>6. 1 \in DOMAIN T /\ T[1] = created
    <2>1. PICK k \in DOMAIN T : T[k] = created
      BY <1>1, <1>5
    <2>2. 1 \in DOMAIN T /\ k \in Nat /\ (k = 1 \/ 1 < k)
      BY <1>1
    <2>3. CASE 1 < k
      <3>1. T[1].at <= 1
        BY <1>2, <1>5, <2>1, <2>2, <2>3
      <3>2. T[1] \in Events /\ T[1].at \in Nat
        BY <1>1, <2>2, EventsDiffer
      <3>3. QED
        BY <1>4, <2>2, <3>1, <3>2
    <2>4. QED
      BY <2>1, <2>2, <2>3
  <1>7. \A i \in ends, j \in ends : i = j
    <2>1. SUFFICES ASSUME NEW i \in ends, NEW j \in ends
                   PROVE  i = j
      OBVIOUS
    <2>2. T[i] \in Events /\ T[j] \in Events
      BY <1>1
    <2>3. \A e \in Events : e.type \in {"merged", "closed"} =>
            e = IF pull.merged # Null THEN AnEvent("merged", 0, pull.merged)
                ELSE AnEvent("closed", 0, pull.closed)
      <3>1. SUFFICES ASSUME NEW e \in Events, e.type \in {"merged", "closed"}
                     PROVE  e = IF pull.merged # Null THEN AnEvent("merged", 0, pull.merged)
                                ELSE AnEvent("closed", 0, pull.closed)
        OBVIOUS
      <3>2. \A r, at : AnEvent("started", r, at).type \notin {"merged", "closed"}
                       /\ AnEvent("submitted", r, at).type \notin {"merged", "closed"}
                       /\ AnEvent("created", r, at).type \notin {"merged", "closed"}
        BY DEF AnEvent
      <3>3. e # AnEvent("created", 0, 1)
        BY <3>1, <3>2
      <3>4. \A r : e # AnEvent("started", r, reviewRows[r].first)
        BY <3>1, <3>2
      <3>5. \A r : e # AnEvent("submitted", r, reviewRows[r].submitted)
        BY <3>1, <3>2
      <3>6. \/ pull.merged # Null /\ e = AnEvent("merged", 0, pull.merged)
            \/ pull.merged = Null /\ pull.closed # Null /\ e = AnEvent("closed", 0, pull.closed)
        BY <3>3, <3>4, <3>5, EventsAre
      <3>7. QED
        BY <3>6
    <2>4. T[i] = T[j]
      BY <2>2, <2>3
    <2>5. QED
      BY <1>1, <2>4
  <1>8. Cardinality(ends) <= 1
    <2>1. CASE ends = {}
      BY <2>1, FS_EmptySet
    <2>2. CASE ends # {}
      <3>1. PICK i \in ends : TRUE
        BY <2>2
      <3>2. ends = {i}
        BY <1>7
      <3>3. Cardinality({i}) = 1
        BY FS_Singleton
      <3> HIDE DEF ends
      <3>4. Cardinality(ends) = 1
        BY ONLY <3>2, <3>3
      <3>5. QED
        BY ONLY <3>4
    <2>3. QED
      BY <2>1, <2>2
  <1>9. ASSUME NEW r \in DOMAIN reviewRows
        PROVE  \E i, j \in DOMAIN T :
                 /\ i < j /\ T[i].type = "started" /\ T[j].type = "submitted"
                 /\ T[i].of = r /\ T[j].of = r
    <2> DEFINE e == AnEvent("started", r, reviewRows[r].first)
               f == AnEvent("submitted", r, reviewRows[r].submitted)
    <2>1. e \in Events /\ f \in Events
      BY EventsAre
    <2>2. /\ e.type = "started" /\ f.type = "submitted" /\ e.of = r /\ f.of = r
          /\ e.at = reviewRows[r].first /\ f.at = reviewRows[r].submitted
      BY DEF AnEvent
    <2>3. e.at \in Nat /\ f.at \in Nat /\ e.at <= f.at
      BY <2>2, EventsAre
    <2> HIDE DEF e, f
    <2>4. Earlier(e, f)
      <3>1. TimelinePriority["started"] < TimelinePriority["submitted"]
        BY DEF TimelinePriority
      <3>2. QED
        BY <2>2, <2>3, <3>1 DEF Earlier
    <2>5. PICK i \in DOMAIN T : T[i] = e
      BY <1>1, <2>1
    <2>6. PICK j \in DOMAIN T : T[j] = f
      BY <1>1, <2>1
    <2>7. i < j
      BY <1>1, <2>4, <2>5, <2>6
    <2>8. QED
      BY <2>2, <2>5, <2>6, <2>7
  <1>10. (ComputeCycleTime # Null) = (\E i \in ends : T[i].type = "merged" /\ i > 1)
    <2>1. pull.created = 1 /\ pull.merged \in Nat \cup {Null} /\ (pull.merged # Null => pull.merged > 1)
      BY EventsAre
    <2>2. ComputeCycleTime # Null <=> pull.merged # Null
      BY <2>1 DEF ComputeCycleTime, Null
    <2>3. ASSUME pull.merged # Null
          PROVE  \E i \in ends : T[i].type = "merged" /\ i > 1
      <3> DEFINE e == AnEvent("merged", 0, pull.merged)
      <3>1. e \in Events
        BY <2>3, EventsAre
      <3>2. e.type = "merged"
        BY DEF AnEvent
      <3> HIDE DEF e
      <3>3. PICK i \in DOMAIN T : T[i] = e
        BY <1>1, <3>1
      <3>4. i # 1
        BY <1>5, <1>6, <3>2, <3>3
      <3>5. i \in ends /\ i > 1
        BY <1>1, <3>2, <3>3, <3>4
      <3>6. QED
        BY <3>2, <3>3, <3>5
    <2>4. ASSUME NEW i \in ends, T[i].type = "merged"
          PROVE  pull.merged # Null
      <3>1. T[i] \in Events
        BY <1>1
      <3> DEFINE e == T[i]
      <3> HIDE DEF e
      <3>2. \A r, at : AnEvent("started", r, at).type # "merged" /\ AnEvent("submitted", r, at).type # "merged"
                       /\ AnEvent("created", r, at).type # "merged" /\ AnEvent("closed", r, at).type # "merged"
        BY DEF AnEvent
      <3>3. e \in Events /\ e.type = "merged"
        BY <2>4, <3>1 DEF e
      <3>4. e # AnEvent("created", 0, 1) /\ e # AnEvent("closed", 0, pull.closed)
        BY <3>2, <3>3
      <3>5. \A r : e # AnEvent("started", r, reviewRows[r].first)
        BY <3>2, <3>3
      <3>6. \A r : e # AnEvent("submitted", r, reviewRows[r].submitted)
        BY <3>2, <3>3
      <3>7. QED
        BY <3>3, <3>4, <3>5, <3>6, EventsAre
    <2>5. (\E i \in ends : T[i].type = "merged" /\ i > 1) <=> pull.merged # Null
      BY <2>3, <2>4
    <2> HIDE DEF ends
    <2>6. (ComputeCycleTime # Null) \in BOOLEAN
          /\ (\E i \in ends : T[i].type = "merged" /\ i > 1) \in BOOLEAN
      OBVIOUS
    <2>7. QED
      BY <2>2, <2>5, <2>6
  <1>11. ComputeReviewWait = {Null}
    <2>1. {r \in DOMAIN reviewRows :
             reviewRows[r].requested # Null /\ reviewRows[r].first >= reviewRows[r].requested} = {}
      BY EventsAre
    <2>2. QED
      BY <2>1 DEF ComputeReviewWait
  <1>12. BuildRiskIndicator = "low" => pull.draft \/ reviewRows # <<>>
    BY DEF BuildRiskIndicator
  <1> HIDE DEF ends
  <1>13. QED
    BY <1>3, <1>5, <1>6, <1>8, <1>9, <1>10, <1>11, <1>12 DEF TimelineInOrder, ends, T

\* The answer about a pull request (GetByID) tells its story in the order it happened
\* (buildTimeline), whatever was stored of it and in whatever order.
THEOREM TimelineStaysInOrder == Spec => []TimelineInOrder
  <1>1. Init => RowInv /\ ReviewsThere
    BY RowStart, ReviewsThereStart
  <1>2. RowInv /\ ReviewsThere /\ [Next]_vars => RowInv' /\ ReviewsThere'
    <2>1. RowInv /\ [Next]_vars => RowInv'
      BY PullPart, RowSteps, OthersKeepRows
    <2>2. ReviewsThere /\ UNCHANGED pullVars => ReviewsThere'
      BY DEF ReviewsThere, pullVars, Now
    <2>3. QED
      BY <2>1, <2>2, PullPart, ReviewsThereStep
  <1>3. RowInv /\ ReviewsThere => TimelineInOrder
    BY TheTimeline
  <1>4. QED
    BY <1>1, <1>2, <1>3, PTL DEF Spec

(***************************************************************************)
(* Answers from the rows of Metrics.                                        *)
(***************************************************************************)

\* A number of samples with which averages are exact.
Exact(n) == n \in Nat /\ (n = 0 \/ Scale % n = 0)

LEMMA ExactDivision ==
  ASSUME NEW n \in Nat \ {0}, NEW m \in Int
  PROVE  (n * m) \div n = m
  BY SMT

LEMMA RatioTimes ==
  ASSUME NEW a \in Int, NEW n, Exact(n), n = 0 => a = 0
  PROVE  Ratio(a, n) \in Int /\ n * Ratio(a, n) = Scale * a
  <1>1. Scale \in Nat \ {0} /\ n \in Nat
    BY MetricsAssumption DEF Exact
  <1>2. CASE n = 0
    BY <1>1, <1>2 DEF Ratio
  <1>3. CASE n # 0
    <2>1. PICK k \in Int : Scale = n * k
      <3>1. Scale = n * (Scale \div n) + (Scale % n) /\ Scale \div n \in Int /\ Scale % n = 0
        BY <1>1, <1>3 DEF Exact
      <3>2. QED
        BY <1>1, <3>1
    <2>2. Scale * a = n * (k * a) /\ k * a \in Int
      BY <1>1, <2>1, SMT
    <2>3. (n * (k * a)) \div n = k * a
      BY <1>1, <1>3, <2>2, ExactDivision
    <2>4. QED
      BY <1>3, <2>2, <2>3 DEF Ratio
  <1>4. QED
    BY <1>2, <1>3

\* The averages of parts, weighed by their numbers, are the average of the whole.
LEMMA AverageOfParts ==
  ASSUME NEW S, IsFiniteSet(S), NEW f, \A x \in S : f[x] \in Int,
         NEW B, IsFiniteSet(B), NEW of, \A x \in S : of[x] \in B,
         NEW R, DOMAIN R = B, NEW value, NEW count,
         \A d \in B : /\ R[d][count] = Cardinality(PartOf(S, of, d)) /\ Exact(R[d][count])
                      /\ R[d][value] = Ratio(SumFunctionOnSet(f, PartOf(S, of, d)), R[d][count])
  PROVE  /\ Total(R, count) = Cardinality(S)
         /\ WeightedAverage(R, value, count) = Ratio(SumFunctionOnSet(f, S), Cardinality(S))
  <1> DEFINE n == [d \in B |-> R[d][count]]
             sum == SumsOfParts(f, S, of, B)
             w == [d \in B |-> R[d][value] * R[d][count]]
  <1>1. \A d \in B : n[d] = Cardinality(PartOf(S, of, d)) /\ n[d] \in Nat
    BY DEF Exact
  <1>2. \A d \in B : sum[d] = SumFunctionOnSet(f, PartOf(S, of, d))
    BY DEF SumsOfParts
  <1>3. Total(R, count) = SumFunctionOnSet(n, B)
    BY DEF Total, SumFunction
  <1>4. WeightedAverage(R, value, count) =
          IF Total(R, count) = 0 THEN 0 ELSE SumFunctionOnSet(w, B) \div Total(R, count)
    BY DEF WeightedAverage, SumFunction
  <1>5. \A d \in B : sum[d] \in Int /\ w[d] = Scale * sum[d]
    <2>1. SUFFICES ASSUME NEW d \in B PROVE sum[d] \in Int /\ w[d] = Scale * sum[d]
      OBVIOUS
    <2> DEFINE U == PartOf(S, of, d)
    <2>2. IsFiniteSet(U) /\ \A x \in U : f[x] \in Int
      BY FS_Subset DEF PartOf
    <2>3. SumFunctionOnSet(f, U) \in Int
      <3> HIDE DEF U
      <3>1. QED
        BY ONLY <2>2, SumStep
    <2>4. n[d] = 0 => SumFunctionOnSet(f, U) = 0
      <3>1. CASE n[d] = 0
        <4>1. U = {}
          BY <1>1, <2>2, <3>1, FS_EmptySet
        <4>2. QED
          BY <4>1, SumOfNone
      <3>2. QED
        BY <3>1
    <2>5. sum[d] = SumFunctionOnSet(f, U) /\ R[d][value] = Ratio(sum[d], n[d]) /\ Exact(n[d])
          /\ w[d] = R[d][value] * n[d]
      BY <1>2
    <2> HIDE DEF U, sum, n, w
    <2>6. Ratio(sum[d], n[d]) \in Int /\ n[d] * Ratio(sum[d], n[d]) = Scale * sum[d]
      BY <2>3, <2>4, <2>5, RatioTimes
    <2>7. n[d] \in Int
      BY <2>5 DEF Exact
    <2>8. QED
      BY <2>3, <2>5, <2>6, <2>7
  <1>6. SumFunctionOnSet(n, B) = Cardinality(S)
    <2> HIDE DEF n
    <2>1. QED
      BY <1>1, PartsCountUp
  <1>7. SumFunctionOnSet(sum, B) = SumFunctionOnSet(f, S)
    BY PartsAddUp
  <1>8. SumFunctionOnSet(w, B) = Scale * SumFunctionOnSet(sum, B)
    <2>1. Scale \in Int
      BY MetricsAssumption
    <2> HIDE DEF w, sum
    <2>2. QED
      BY <1>5, <2>1, SumsTimes
  <1>9. QED
    BY <1>3, <1>4, <1>6, <1>7, <1>8 DEF Ratio

-----------------------------------------------------------------------------
(* What the rows of a range add up to.                                        *)

OfRows(R, B) == DOMAIN R = B /\ \A d \in B : RowIs(R[d], Found(d), Everything)

LEMMA CountsAreExact ==
  ASSUME RawTypes, NEW P \in SUBSET DOMAIN prs
  PROVE  IsFiniteSet(P) /\ Exact(Cardinality(P))
  <1>1. DOMAIN prs = PullRequests /\ IsFiniteSet(PullRequests)
    BY MetricsAssumption DEF RawTypes
  <1>2. IsFiniteSet(P) /\ Cardinality(P) \in Nat /\ Cardinality(P) <= Cardinality(PullRequests)
    BY <1>1, FS_Subset, FS_CardinalityType
  <1>3. Cardinality(PullRequests) \in Nat
    BY <1>1, FS_CardinalityType
  <1>4. QED
    BY <1>2, <1>3, MetricsAssumption DEF Exact

LEMMA DaysAreFinite ==
  ASSUME NEW B \in SUBSET Days
  PROVE  IsFiniteSet(B)
  <1>1. IsFiniteSet(Days)
    <2>1. LastDay \in Int /\ 0 \in Int
      BY MetricsAssumption
    <2>2. QED
      BY ONLY <2>1, FS_Interval DEF Days
  <1>2. QED
    BY <1>1, FS_Subset

LEMMA CyclesOfRows ==
  ASSUME RawTypes, NEW B \in SUBSET Days, NEW R, OfRows(R, B)
  PROVE  WeightedAverage(R, "cycle", "merged") = Average(MergedIn(B), CycleOf)
  <1> DEFINE S == MergedIn(B)
             f == [p \in S |-> CycleOf(p)]
             of == [p \in S |-> Day(prs[p].merged)]
  <1>1. IsFiniteSet(S) /\ IsFiniteSet(B)
    BY CountsAreExact, DaysAreFinite DEF MergedIn
  <1>2. \A p \in S : f[p] \in Int /\ of[p] \in B /\ prs[p].merged >= prs[p].created
    BY NoDay DEF RawTypes, IsStored, MergedIn, CycleOf
  <1>3. DOMAIN R = B
    BY DEF OfRows
  <1>4. ASSUME NEW d \in B
        PROVE  /\ R[d]["merged"] = Cardinality(PartOf(S, of, d)) /\ Exact(R[d]["merged"])
               /\ R[d]["cycle"] = Ratio(SumFunctionOnSet(f, PartOf(S, of, d)), R[d]["merged"])
    <2>1. PartOf(S, of, d) = DoneIn(d)
      BY <1>2 DEF PartOf, DoneIn, MergedIn
    <2>2. R[d].merged = Cardinality(DoneIn(d))
          /\ R[d].cycle = Ratio(SumFunction(CyclesIn(d)), Cardinality(DoneIn(d)))
      BY DEF OfRows, RowIs, Found, Everything
    <2>3. Exact(Cardinality(DoneIn(d))) /\ IsFiniteSet(DoneIn(d)) /\ DoneIn(d) \subseteq S
      <3>1. DoneIn(d) \in SUBSET DOMAIN prs /\ DoneIn(d) \subseteq S
        BY DEF DoneIn, MergedIn
      <3>2. QED
        BY <3>1, CountsAreExact
    <2>4. SumFunction(CyclesIn(d)) = SumFunctionOnSet(f, DoneIn(d))
      <3>1. SumFunction(CyclesIn(d)) = SumFunctionOnSet(CyclesIn(d), DoneIn(d))
        BY DEF SumFunction, CyclesIn
      <3>2. \A p \in DoneIn(d) : f[p] \in Int /\ f[p] = CyclesIn(d)[p]
        BY <1>2, <2>3 DEF CyclesIn, CycleOf
      <3> HIDE DEF f
      <3>3. SumFunctionOnSet(f, DoneIn(d)) = SumFunctionOnSet(CyclesIn(d), DoneIn(d))
        BY <2>3, <3>2, SumsAgree
      <3>4. QED
        BY <3>1, <3>3
    <2>5. QED
      BY <2>1, <2>2, <2>3, <2>4
  <1>5. SumFunction(f) = SumFunctionOnSet(f, S)
    BY DEF SumFunction
  <1>6. Average(S, CycleOf) = Ratio(SumFunctionOnSet(f, S), Cardinality(S))
    BY <1>5 DEF Average
  <1> HIDE DEF S, f, of
  <1>7. WeightedAverage(R, "cycle", "merged") = Ratio(SumFunctionOnSet(f, S), Cardinality(S))
    BY <1>1, <1>2, <1>3, <1>4, AverageOfParts
  <1>8. QED
    BY <1>6, <1>7 DEF S

\* A count of a range is that of its days.
LEMMA TotalOfParts ==
  ASSUME NEW S, IsFiniteSet(S), NEW B, IsFiniteSet(B), NEW of, \A x \in S : of[x] \in B,
         NEW R, DOMAIN R = B, NEW count, \A d \in B : R[d][count] = Cardinality(PartOf(S, of, d))
  PROVE  Total(R, count) = Cardinality(S)
  <1> DEFINE n == [d \in B |-> R[d][count]]
  <1>1. \A d \in B : n[d] = Cardinality(PartOf(S, of, d))
    OBVIOUS
  <1>2. Total(R, count) = SumFunctionOnSet(n, B)
    BY DEF Total, SumFunction
  <1> HIDE DEF n
  <1>3. QED
    BY <1>1, <1>2, PartsCountUp

LEMMA SizesOfRows ==
  ASSUME RawTypes, NEW B \in SUBSET Days, NEW R, OfRows(R, B)
  PROVE  /\ Total(R, "created") = Cardinality(CreatedIn(B))
         /\ WeightedAverage(R, "size", "created") = Average(CreatedIn(B), SizeOf)
  <1> DEFINE S == CreatedIn(B)
             f == [p \in S |-> SizeOf(p)]
             of == [p \in S |-> Day(prs[p].created)]
  <1>1. IsFiniteSet(S) /\ IsFiniteSet(B)
    BY CountsAreExact, DaysAreFinite DEF CreatedIn
  <1>2. \A p \in S : f[p] \in Int /\ of[p] \in B
    BY DEF RawTypes, IsStored, CreatedIn, SizeOf
  <1>3. DOMAIN R = B
    BY DEF OfRows
  <1>4. ASSUME NEW d \in B
        PROVE  /\ R[d]["created"] = Cardinality(PartOf(S, of, d)) /\ Exact(R[d]["created"])
               /\ R[d]["size"] = Ratio(SumFunctionOnSet(f, PartOf(S, of, d)), R[d]["created"])
    <2>1. PartOf(S, of, d) = CreatedIn({d})
      BY DEF PartOf, CreatedIn
    <2>2. R[d].created = Cardinality(CreatedIn({d}))
          /\ R[d].size = Ratio(SumFunction(SizesIn(d)), Cardinality(CreatedIn({d})))
      BY DEF OfRows, RowIs, Found, Everything
    <2>3. Exact(Cardinality(CreatedIn({d}))) /\ IsFiniteSet(CreatedIn({d})) /\ CreatedIn({d}) \subseteq S
      <3>1. CreatedIn({d}) \in SUBSET DOMAIN prs /\ CreatedIn({d}) \subseteq S
        BY DEF CreatedIn
      <3>2. QED
        BY <3>1, CountsAreExact
    <2>4. SumFunction(SizesIn(d)) = SumFunctionOnSet(f, CreatedIn({d}))
      <3>1. SumFunction(SizesIn(d)) = SumFunctionOnSet(SizesIn(d), CreatedIn({d}))
        BY DEF SumFunction, SizesIn
      <3>2. \A p \in CreatedIn({d}) : f[p] \in Int /\ f[p] = SizesIn(d)[p]
        BY <1>2, <2>3 DEF SizesIn, SizeOf
      <3> HIDE DEF f
      <3>3. SumFunctionOnSet(f, CreatedIn({d})) = SumFunctionOnSet(SizesIn(d), CreatedIn({d}))
        BY <2>3, <3>2, SumsAgree
      <3>4. QED
        BY <3>1, <3>3
    <2>5. QED
      BY <2>1, <2>2, <2>3, <2>4
  <1>5. SumFunction(f) = SumFunctionOnSet(f, S)
    BY DEF SumFunction
  <1>6. Average(S, SizeOf) = Ratio(SumFunctionOnSet(f, S), Cardinality(S))
    BY <1>5 DEF Average
  <1> HIDE DEF S, f, of
  <1>7. Total(R, "created") = Cardinality(S)
    BY <1>1, <1>2, <1>3, <1>4, TotalOfParts
  <1>8. WeightedAverage(R, "size", "created") = Ratio(SumFunctionOnSet(f, S), Cardinality(S))
    BY <1>1, <1>2, <1>3, <1>4, AverageOfParts
  <1>9. QED
    BY <1>6, <1>7, <1>8 DEF S

\* One review was asked for.
LEMMA SamplesAreExact ==
  ASSUME RawTypes, NEW P
  PROVE  IsFiniteSet(Samples(P)) /\ Exact(Cardinality(Samples(P)))
  <1>1. Samples(P) \subseteq reviews /\ IsFiniteSet(reviews)
    BY DEF Samples, RawTypes
  <1>2. \A r, s \in Samples(P) : r = s
    BY DEF Samples, RawTypes
  <1>3. Exact(0) /\ Exact(1)
    BY MetricsAssumption DEF Exact
  <1>4. CASE Samples(P) = {}
    BY <1>3, <1>4, FS_EmptySet
  <1>5. CASE Samples(P) # {}
    <2>1. PICK r \in Samples(P) : TRUE
      BY <1>5
    <2>2. Samples(P) = {r}
      BY <1>2, <2>1
    <2>3. QED
      BY <1>3, <2>2, FS_Singleton
  <1>6. QED
    BY <1>4, <1>5

LEMMA WaitsOfRows ==
  ASSUME RawTypes, NEW B \in SUBSET Days, NEW R, OfRows(R, B)
  PROVE  WeightedAverage(R, "wait", "samples") = Average(Samples(CreatedIn(B)), WaitOf)
  <1> DEFINE S == Samples(CreatedIn(B))
             f == [r \in S |-> WaitOf(r)]
             of == [r \in S |-> Day(prs[r.pr].created)]
  <1>1. IsFiniteSet(S) /\ IsFiniteSet(B)
    BY SamplesAreExact, DaysAreFinite
  <1>2. \A r \in S : f[r] \in Int /\ of[r] \in B
    BY DEF RawTypes, CreatedIn, Samples, WaitOf
  <1>3. DOMAIN R = B
    BY DEF OfRows
  <1>4. ASSUME NEW d \in B
        PROVE  /\ R[d]["samples"] = Cardinality(PartOf(S, of, d)) /\ Exact(R[d]["samples"])
               /\ R[d]["wait"] = Ratio(SumFunctionOnSet(f, PartOf(S, of, d)), R[d]["samples"])
    <2> DEFINE U == Samples(CreatedIn({d}))
    <2>1. PartOf(S, of, d) = U /\ U \subseteq S
      BY DEF PartOf, CreatedIn, Samples
    <2>2. R[d].samples = Cardinality(U) /\ R[d].wait = Ratio(SumFunction(WaitsIn(d)), Cardinality(U))
      BY DEF OfRows, RowIs, Found, Everything
    <2>3. Exact(Cardinality(U)) /\ IsFiniteSet(U)
      BY SamplesAreExact
    <2>4. SumFunction(WaitsIn(d)) = SumFunctionOnSet(f, U)
      <3>1. SumFunction(WaitsIn(d)) = SumFunctionOnSet(WaitsIn(d), U)
        BY DEF SumFunction, WaitsIn
      <3>2. \A r \in U : f[r] \in Int /\ f[r] = WaitsIn(d)[r]
        BY <1>2, <2>1 DEF WaitsIn, WaitOf
      <3> HIDE DEF f, U
      <3>3. SumFunctionOnSet(f, U) = SumFunctionOnSet(WaitsIn(d), U)
        BY <2>3, <3>2, SumsAgree
      <3>4. QED
        BY <3>1, <3>3
    <2>5. QED
      BY <2>1, <2>2, <2>3, <2>4
  <1>5. SumFunction(f) = SumFunctionOnSet(f, S)
    BY DEF SumFunction
  <1>6. Average(S, WaitOf) = Ratio(SumFunctionOnSet(f, S), Cardinality(S))
    BY <1>5 DEF Average
  <1> HIDE DEF S, f, of
  <1>7. WeightedAverage(R, "wait", "samples") = Ratio(SumFunctionOnSet(f, S), Cardinality(S))
    BY <1>1, <1>2, <1>3, <1>4, AverageOfParts
  <1>8. QED
    BY <1>6, <1>7 DEF S

LEMMA ReviewedOfRows ==
  ASSUME RawTypes, NEW B \in SUBSET Days, NEW R, OfRows(R, B)
  PROVE  Total(R, "reviewed") = Cardinality({p \in CreatedIn(B) : Reviewed(p)})
  <1> DEFINE S == {p \in CreatedIn(B) : Reviewed(p)}
             of == [p \in S |-> Day(prs[p].created)]
  <1>1. IsFiniteSet(S) /\ IsFiniteSet(B)
    BY CountsAreExact, DaysAreFinite DEF CreatedIn
  <1>2. DOMAIN R = B /\ \A p \in S : of[p] \in B
    BY DEF OfRows, CreatedIn
  <1>3. \A d \in B : R[d]["reviewed"] = Cardinality(PartOf(S, of, d))
    <2>1. SUFFICES ASSUME NEW d \in B PROVE R[d]["reviewed"] = Cardinality(PartOf(S, of, d))
      OBVIOUS
    <2>2. PartOf(S, of, d) = {p \in CreatedIn({d}) : Reviewed(p)}
      BY DEF PartOf, CreatedIn
    <2>3. R[d].reviewed = Cardinality({p \in CreatedIn({d}) : Reviewed(p)})
      BY DEF OfRows, RowIs, Found, Everything
    <2>4. QED
      BY <2>2, <2>3
  <1> HIDE DEF S, of
  <1>4. Total(R, "reviewed") = Cardinality(S)
    BY <1>1, <1>2, <1>3, TotalOfParts
  <1>5. QED
    BY <1>4 DEF S

LEMMA DeploymentsAreFinite ==
  ASSUME RawTypes, NEW D \in SUBSET DOMAIN deployments
  PROVE  IsFiniteSet(D)
  <1>1. DOMAIN deployments = Deployments /\ IsFiniteSet(Deployments)
    BY MetricsAssumption DEF RawTypes
  <1>2. QED
    BY <1>1, FS_Subset

LEMMA DeploymentsOfRows ==
  ASSUME RawTypes, NEW B \in SUBSET Days, NEW R, OfRows(R, B), NEW s \in {"success", "failed"}
  PROVE  Total(R, s) = Cardinality(OfStatus(DeployedIn(B), s))
  <1> DEFINE S == OfStatus(DeployedIn(B), s)
             of == [x \in S |-> Day(deployments[x].at)]
  <1>1. IsFiniteSet(S) /\ IsFiniteSet(B)
    BY DeploymentsAreFinite, DaysAreFinite DEF OfStatus, DeployedIn
  <1>2. DOMAIN R = B /\ \A x \in S : of[x] \in B
    BY DEF OfRows, OfStatus, DeployedIn
  <1>3. \A d \in B : R[d][s] = Cardinality(PartOf(S, of, d))
    <2>1. SUFFICES ASSUME NEW d \in B PROVE R[d][s] = Cardinality(PartOf(S, of, d))
      OBVIOUS
    <2>2. PartOf(S, of, d) = OfStatus(DeployedIn({d}), s)
      BY DEF PartOf, OfStatus, DeployedIn
    <2>3. /\ R[d].success = Cardinality(OfStatus(DeployedIn({d}), "success"))
          /\ R[d].failed = Cardinality(OfStatus(DeployedIn({d}), "failed"))
      BY DEF OfRows, RowIs, Found, Everything
    <2>4. QED
      BY <2>2, <2>3
  <1> HIDE DEF S, of
  <1>4. Total(R, s) = Cardinality(S)
    BY <1>1, <1>2, <1>3, TotalOfParts
  <1>5. QED
    BY <1>4 DEF S

-----------------------------------------------------------------------------
(* The answers.                                                               *)

LEMMA RangeIs ==
  ASSUME NEW b \in Bounds
  PROVE  b \in SUBSET Days /\ b # {} /\ IsFiniteSet(b)
  <1>1. b \in SUBSET Days /\ b # {}
    BY MetricsAssumption DEF Bounds, Days
  <1>2. QED
    BY <1>1, DaysAreFinite

LEMMA RowsOfRange ==
  ASSUME Calculated, NEW b, b \subseteq fresh
  PROVE  OfRows(ListMetricsDaily(b), b)
  <1>1. b \cap DOMAIN rows = b
    BY DEF Calculated
  <1>2. ListMetricsDaily(b) = [d \in b |-> rows[d]]
    BY <1>1 DEF ListMetricsDaily, Restrict
  <1>3. QED
    BY <1>2 DEF OfRows, Calculated

Labeled(b, i, l) == {d \in b : IntervalLabel(d, i) = l}

LEMMA LabelsAre ==
  ASSUME NEW b, NEW i, NEW R
  PROVE  DOMAIN GroupByInterval(b, i, R) = {IntervalLabel(d, i) : d \in b}
  BY DEF GroupByInterval

LEMMA GroupsAre ==
  ASSUME NEW b, NEW i, NEW R, DOMAIN R = b, NEW l \in DOMAIN GroupByInterval(b, i, R)
  PROVE  GroupByInterval(b, i, R)[l] = [d \in Labeled(b, i, l) |-> R[d]]
  <1>1. GroupByInterval(b, i, R)[l] = Restrict(R, {d \in DOMAIN R : IntervalLabel(d, i) = l})
    BY DEF GroupByInterval
  <1>2. {d \in DOMAIN R : IntervalLabel(d, i) = l} = Labeled(b, i, l)
    BY DEF Labeled
  <1>3. QED
    BY <1>1, <1>2 DEF Restrict

LEMMA GroupsOfRows ==
  ASSUME NEW b, NEW i, NEW R, OfRows(R, b), NEW l \in DOMAIN GroupByInterval(b, i, R)
  PROVE  OfRows(GroupByInterval(b, i, R)[l], Labeled(b, i, l))
  <1>1. DOMAIN R = b
    BY DEF OfRows
  <1>2. GroupByInterval(b, i, R)[l] = [d \in Labeled(b, i, l) |-> R[d]]
    BY <1>1, GroupsAre
  <1>3. QED
    BY <1>2 DEF OfRows, Labeled

\* Averages.
LEMMA CycleAnswers ==
  ASSUME RawTypes, Calculated, NEW b \in Bounds, b \subseteq fresh, NEW i, NEW t
  PROVE  /\ GetDashboardSummary(b, t).cycle = Average(MergedIn(b), CycleOf)
         /\ GetPullRequestMetrics(b, i).cycle = GetDashboardSummary(b, t).cycle
         /\ GetPullRequestMetrics(b, i).size = Average(CreatedIn(b), SizeOf)
         /\ \A l \in DOMAIN GetPullRequestMetrics(b, i).trend :
              GetPullRequestMetrics(b, i).trend[l] = Average(MergedIn(Labeled(b, i, l)), CycleOf)
  <1> DEFINE R == ListMetricsDaily(b)
             G == GroupByInterval(b, i, R)
  <1>1. b \in SUBSET Days /\ OfRows(R, b)
    BY RangeIs, RowsOfRange
  <1>2. /\ GetDashboardSummary(b, t).cycle = WeightedAverage(R, "cycle", "merged")
        /\ GetPullRequestMetrics(b, i).cycle = WeightedAverage(R, "cycle", "merged")
        /\ GetPullRequestMetrics(b, i).size = WeightedAverage(R, "size", "created")
        /\ GetPullRequestMetrics(b, i).trend = [l \in DOMAIN G |-> WeightedAverage(G[l], "cycle", "merged")]
    BY DEF GetDashboardSummary, GetPullRequestMetrics, AggregateSummary, AggregatePullRequestMetrics
  <1>3. \A l \in DOMAIN G : OfRows(G[l], Labeled(b, i, l)) /\ Labeled(b, i, l) \in SUBSET Days
    BY <1>1, GroupsOfRows DEF Labeled
  <1> HIDE DEF R, G
  <1>4. \A l \in DOMAIN G : WeightedAverage(G[l], "cycle", "merged") = Average(MergedIn(Labeled(b, i, l)), CycleOf)
    BY <1>3, CyclesOfRows
  <1>5. /\ WeightedAverage(R, "cycle", "merged") = Average(MergedIn(b), CycleOf)
        /\ WeightedAverage(R, "size", "created") = Average(CreatedIn(b), SizeOf)
    BY <1>1, CyclesOfRows, SizesOfRows
  <1>6. QED
    BY <1>2, <1>4, <1>5

LEMMA WaitAnswers ==
  ASSUME RawTypes, Calculated, NEW b \in Bounds, b \subseteq fresh, NEW i, NEW t
  PROVE  /\ GetDashboardSummary(b, t).wait = Average(Samples(CreatedIn(b)), WaitOf)
         /\ GetReviewMetrics(b, i).wait = GetDashboardSummary(b, t).wait
         /\ \A l \in DOMAIN GetReviewMetrics(b, i).trend :
              GetReviewMetrics(b, i).trend[l] = Average(Samples(CreatedIn(Labeled(b, i, l))), WaitOf)
         /\ GetDashboardSummary(b, t).coverage = GetReviewMetrics(b, i).coverage
  <1> DEFINE R == ListMetricsDaily(b)
             G == GroupByInterval(b, i, R)
  <1>1. b \in SUBSET Days /\ OfRows(R, b)
    BY RangeIs, RowsOfRange
  <1>2. /\ GetDashboardSummary(b, t).wait = WeightedAverage(R, "wait", "samples")
        /\ GetReviewMetrics(b, i).wait = WeightedAverage(R, "wait", "samples")
        /\ GetReviewMetrics(b, i).trend = [l \in DOMAIN G |-> WeightedAverage(G[l], "wait", "samples")]
        /\ GetDashboardSummary(b, t).coverage = GetReviewMetrics(b, i).coverage
    BY DEF GetDashboardSummary, GetReviewMetrics, AggregateSummary, AggregateReviewMetrics
  <1>3. \A l \in DOMAIN G : OfRows(G[l], Labeled(b, i, l)) /\ Labeled(b, i, l) \in SUBSET Days
    BY <1>1, GroupsOfRows DEF Labeled
  <1> HIDE DEF R, G
  <1>4. \A l \in DOMAIN G : WeightedAverage(G[l], "wait", "samples")
                              = Average(Samples(CreatedIn(Labeled(b, i, l))), WaitOf)
    BY <1>3, WaitsOfRows
  <1>5. WeightedAverage(R, "wait", "samples") = Average(Samples(CreatedIn(b)), WaitOf)
    BY <1>1, WaitsOfRows
  <1>6. QED
    BY <1>2, <1>4, <1>5

\* Frequencies: there are no more business days than days.
LEMMA MoreOften ==
  ASSUME NEW k \in Nat, NEW m \in Nat \ {0}, NEW n \in Nat \ {0}, m <= n
  PROVE  Ratio(k, m) >= Ratio(k, n)
  <1>1. PICK a \in Nat : a = Scale * k
    BY MetricsAssumption, SMT
  <1>2. a \div m \in Int /\ a \div n \in Int /\ a >= n * (a \div n) /\ a < m * (a \div m) + m
        /\ a \div n >= 0 /\ a \div m >= 0
    BY <1>1, SMT
  <1>3. m * (a \div n) <= n * (a \div n)
    BY <1>2, SMT
  <1>4. a \div m >= a \div n
    <2>1. PICK p \in Int, q \in Int : p = a \div m /\ q = a \div n
      BY <1>2
    <2>2. m * q < m * (p + 1)
      BY <1>1, <1>2, <1>3, <2>1, SMT
    <2>3. q < p + 1
      BY <2>1, <2>2, SMT
    <2>4. QED
      BY <2>1, <2>3
  <1>5. QED
    BY <1>1, <1>4 DEF Ratio

LEMMA FrequencyAnswers ==
  ASSUME RawTypes, Calculated, NEW b \in Bounds, b \subseteq fresh, NEW i, NEW t
  PROVE  /\ GetDeploymentMetrics(b, i, t, "all").failureRate = GetDashboardSummary(b, t).failureRate
         /\ GetDeploymentMetrics(b, i, t, "all").frequency = GetDashboardSummary(b, t).frequency
         /\ t = "business" =>
              \/ GetDashboardSummary(b, t).frequency >= GetDashboardSummary(b, "calendar").frequency
              \/ DayCount(b, t) = 0
         /\ ~GetDashboardSummary(b, t).data.partial
  <1> DEFINE R == ListMetricsDaily(b)
             k == Total(R, "success")
  <1>1. b \in SUBSET Days /\ b # {} /\ IsFiniteSet(b) /\ OfRows(R, b)
    BY RangeIs, RowsOfRange
  <1>2. GetDeploymentMetrics(b, i, t, "all") = AggregateDeploymentMetrics(b, i, t, R)
    BY MetricsAssumption DEF GetDeploymentMetrics
  <1>3. \A u : GetDashboardSummary(b, u).frequency = Ratio(k, DayCount(b, u))
    BY DEF GetDashboardSummary, AggregateSummary
  <1>4. k \in Nat
    <2>1. k = Cardinality(OfStatus(DeployedIn(b), "success"))
      <3> HIDE DEF R
      <3>1. QED
        BY <1>1, DeploymentsOfRows
    <2>2. OfStatus(DeployedIn(b), "success") \in SUBSET DOMAIN deployments
      BY DEF OfStatus, DeployedIn
    <2>3. QED
      BY <2>1, <2>2, DeploymentsAreFinite, FS_CardinalityType
  <1>5. ASSUME DayCount(b, "business") # 0
        PROVE  Ratio(k, DayCount(b, "business")) >= Ratio(k, DayCount(b, "calendar"))
    <2>1. DayCount(b, "business") = Cardinality({d \in b : BusinessDay(d)}) /\ DayCount(b, "calendar") = Cardinality(b)
      BY DEF DayCount, Quantify
    <2>2. /\ DayCount(b, "business") \in Nat /\ DayCount(b, "calendar") \in Nat
          /\ DayCount(b, "business") <= DayCount(b, "calendar")
      BY <1>1, <2>1, FS_Subset, FS_CardinalityType
    <2> HIDE DEF k
    <2>3. PICK m \in Nat, n \in Nat : m = DayCount(b, "business") /\ n = DayCount(b, "calendar")
      BY <2>2
    <2>4. Ratio(k, m) >= Ratio(k, n)
      BY <1>4, <1>5, <2>2, <2>3, MoreOften
    <2>5. QED
      BY <2>3, <2>4
  <1>6. ~GetDashboardSummary(b, t).data.partial
    <2>1. DOMAIN R = b /\ Cardinality(b) \in Nat
      BY <1>1, FS_CardinalityType DEF OfRows
    <2>2. ~(Cardinality(DOMAIN R) < Cardinality(b))
      BY <2>1
    <2>3. QED
      BY <2>2 DEF GetDashboardSummary, AggregateSummary, DataCoverage
  <1>7. /\ AggregateDeploymentMetrics(b, i, t, R).failureRate = GetDashboardSummary(b, t).failureRate
        /\ AggregateDeploymentMetrics(b, i, t, R).frequency = GetDashboardSummary(b, t).frequency
    BY DEF AggregateDeploymentMetrics, GetDashboardSummary, AggregateSummary
  <1>8. QED
    BY <1>2, <1>3, <1>5, <1>6, <1>7

\* Deployments that succeeded, of a range, of a week or month of it, and of an environment.
Succeeded(b) == OfStatus(DeployedIn(b), "success")
SucceededIn(b, e) == OfStatus(ListDeployments(b, e), "success")

LEMMA SucceededAre ==
  ASSUME RawTypes, NEW b
  PROVE  IsFiniteSet(Succeeded(b)) /\ \A e : IsFiniteSet(SucceededIn(b, e))
  <1>1. Succeeded(b) \in SUBSET DOMAIN deployments /\ \A e : SucceededIn(b, e) \in SUBSET DOMAIN deployments
    BY DEF Succeeded, SucceededIn, OfStatus, DeployedIn, ListDeployments
  <1>2. QED
    BY <1>1, DeploymentsAreFinite

LEMMA DeploymentAnswers ==
  ASSUME RawTypes, Calculated, NEW b \in Bounds, b \subseteq fresh, NEW i, NEW t
  PROVE  LET D == GetDeploymentMetrics(b, i, t, "all")
         IN /\ D.count = Cardinality(Succeeded(b))
            /\ DOMAIN D.trend = {IntervalLabel(d, i) : d \in b}
            /\ \A l \in DOMAIN D.trend : D.trend[l] = Cardinality(Succeeded(Labeled(b, i, l)))
  <1> DEFINE R == ListMetricsDaily(b)
             G == GroupByInterval(b, i, R)
  <1>1. b \in SUBSET Days /\ OfRows(R, b)
    BY RangeIs, RowsOfRange
  <1>2. GetDeploymentMetrics(b, i, t, "all") = AggregateDeploymentMetrics(b, i, t, R)
    BY MetricsAssumption DEF GetDeploymentMetrics
  <1>3. /\ AggregateDeploymentMetrics(b, i, t, R).count = Total(R, "success")
        /\ AggregateDeploymentMetrics(b, i, t, R).trend = [l \in DOMAIN G |-> Total(G[l], "success")]
    BY DEF AggregateDeploymentMetrics
  <1>4. \A l \in DOMAIN G : OfRows(G[l], Labeled(b, i, l)) /\ Labeled(b, i, l) \in SUBSET Days
    BY <1>1, GroupsOfRows DEF Labeled
  <1>5. DOMAIN G = {IntervalLabel(d, i) : d \in b}
    BY LabelsAre
  <1> HIDE DEF R, G
  <1>6. \A l \in DOMAIN G : Total(G[l], "success") = Cardinality(Succeeded(Labeled(b, i, l)))
    BY <1>4, DeploymentsOfRows DEF Succeeded
  <1>7. Total(R, "success") = Cardinality(Succeeded(b))
    BY <1>1, DeploymentsOfRows DEF Succeeded
  <1>8. QED
    BY <1>2, <1>3, <1>5, <1>6, <1>7

LEMMA EnvironmentAnswers ==
  ASSUME RawTypes, NEW b \in Bounds, NEW i, NEW t, NEW e \in Environments
  PROVE  LET E == GetDeploymentMetrics(b, i, t, e)
         IN /\ E.count = Cardinality(SucceededIn(b, e))
            /\ DOMAIN E.trend = {IntervalLabel(d, i) : d \in b}
            /\ \A l \in DOMAIN E.trend : E.trend[l] = Cardinality(SucceededIn(Labeled(b, i, l), e))
  <1> DEFINE of(d, s) == Cardinality({x \in OfStatus(ListDeployments(b, e), s) : Day(deployments[x].at) = d})
             R == [d \in b |-> [ZeroRow EXCEPT !.success = of(d, "success"), !.failed = of(d, "failed")]]
             G == GroupByInterval(b, i, R)
             day == [x \in SucceededIn(b, e) |-> Day(deployments[x].at)]
  <1>1. b \in SUBSET Days
    BY RangeIs
  <1>2. GetDeploymentMetrics(b, i, t, e) = AggregateDeploymentMetrics(b, i, t, R)
    BY DEF GetDeploymentMetrics, DeploymentMetricsFromRaw
  <1>3. /\ AggregateDeploymentMetrics(b, i, t, R).count = Total(R, "success")
        /\ AggregateDeploymentMetrics(b, i, t, R).trend = [l \in DOMAIN G |-> Total(G[l], "success")]
    BY DEF AggregateDeploymentMetrics
  <1>4. \A d \in b : R[d].success = Cardinality({x \in SucceededIn(b, e) : day[x] = d})
    <2>1. SUFFICES ASSUME NEW d \in b
                   PROVE  R[d].success = Cardinality({x \in SucceededIn(b, e) : day[x] = d})
      OBVIOUS
    <2>2. R[d].success = of(d, "success")
      BY DEF ZeroRow
    <2>3. {x \in OfStatus(ListDeployments(b, e), "success") : Day(deployments[x].at) = d}
            = {x \in SucceededIn(b, e) : day[x] = d}
      BY DEF SucceededIn
    <2>4. QED
      BY <2>2, <2>3
  <1>5. DOMAIN R = b
    OBVIOUS
  <1>6. \A x \in SucceededIn(b, e) : day[x] = Day(deployments[x].at) /\ day[x] \in b
    BY DEF SucceededIn, OfStatus, ListDeployments, DeployedIn
  <1> HIDE DEF R, day
  <1>7. DOMAIN G = {IntervalLabel(d, i) : d \in b}
    BY LabelsAre
  <1>8. \A l \in DOMAIN G : G[l] = [d \in Labeled(b, i, l) |-> R[d]]
    BY <1>5, GroupsAre
  <1> HIDE DEF G
  <1>9. Total(R, "success") = Cardinality(SucceededIn(b, e))
    <2>1. IsFiniteSet(b) /\ IsFiniteSet(SucceededIn(b, e))
      BY RangeIs, SucceededAre
    <2>2. \A d \in b : R[d]["success"] = Cardinality(PartOf(SucceededIn(b, e), day, d))
      BY <1>4 DEF PartOf
    <2>3. QED
      BY <1>5, <1>6, <2>1, <2>2, TotalOfParts
  <1>10. ASSUME NEW l \in DOMAIN G
         PROVE  Total(G[l], "success") = Cardinality(SucceededIn(Labeled(b, i, l), e))
    <2> DEFINE B == Labeled(b, i, l)
               S == SucceededIn(B, e)
    <2>1. IsFiniteSet(B) /\ IsFiniteSet(S)
      BY RangeIs, FS_Subset, SucceededAre DEF Labeled
    <2>2. \A x \in S : x \in SucceededIn(b, e) /\ day[x] \in B
      BY <1>6 DEF SucceededIn, OfStatus, ListDeployments, DeployedIn, Labeled
    <2>3. \A d \in B : G[l][d]["success"] = Cardinality(PartOf(S, day, d))
      <3>1. SUFFICES ASSUME NEW d \in B PROVE G[l][d]["success"] = Cardinality(PartOf(S, day, d))
        OBVIOUS
      <3>2. d \in b /\ G[l][d] = R[d]
        BY <1>8 DEF Labeled
      <3>3. PartOf(S, day, d) = {x \in SucceededIn(b, e) : day[x] = d}
        BY <1>6, <2>2, <3>2 DEF PartOf, SucceededIn, OfStatus, ListDeployments, DeployedIn, Labeled
      <3>4. QED
        BY <1>4, <3>2, <3>3
    <2>4. DOMAIN G[l] = B
      BY <1>8
    <2> HIDE DEF B, S
    <2>5. Total(G[l], "success") = Cardinality(S)
      BY <2>1, <2>2, <2>3, <2>4, TotalOfParts
    <2>6. QED
      BY <2>5 DEF S, B
  <1>11. QED
    BY <1>2, <1>3, <1>7, <1>9, <1>10

LEMMA NamesAre ==
  /\ IsFiniteSet(Names) /\ \A e \in Environments : LowerCase[e] \in Names
  /\ \A name \in Names : Spelled(name) \in Environments /\ LowerCase[Spelled(name)] = name
  <1>1. IsFiniteSet(Environments)
    BY MetricsAssumption
  <1>2. IsFiniteSet(Names)
    BY <1>1, FiniteImage DEF Names
  <1>3. QED
    BY <1>2 DEF Names, Spelled

LEMMA EnvironmentsAddUp ==
  ASSUME RawTypes, NEW B, NEW count, DOMAIN count = Names,
         \A name \in Names : count[name] = Cardinality(SucceededIn(B, Spelled(name)))
  PROVE  SumFunction(count) = Cardinality(Succeeded(B))
  <1> DEFINE S == Succeeded(B)
             of == [x \in S |-> LowerCase[deployments[x].env]]
  <1>1. IsFiniteSet(S) /\ IsFiniteSet(Names)
    BY SucceededAre, NamesAre
  <1>2. \A x \in S : of[x] \in Names
    BY NamesAre DEF Succeeded, OfStatus, DeployedIn, RawTypes
  <1>3. \A name \in Names : count[name] = Cardinality(PartOf(S, of, name))
    <2>1. \A name \in Names : PartOf(S, of, name) = SucceededIn(B, Spelled(name))
      BY NamesAre DEF PartOf, Succeeded, SucceededIn, OfStatus, DeployedIn, ListDeployments
    <2>2. QED
      BY <2>1
  <1> HIDE DEF S, of
  <1>4. SumFunctionOnSet(count, Names) = Cardinality(S)
    BY <1>1, <1>2, <1>3, PartsCountUp
  <1>5. QED
    BY <1>4 DEF SumFunction, S

LEMMA LabelsAddUp ==
  ASSUME RawTypes, NEW b \in Bounds, NEW i, NEW count, DOMAIN count = {IntervalLabel(d, i) : d \in b},
         \A l \in DOMAIN count : count[l] = Cardinality(Succeeded(Labeled(b, i, l)))
  PROVE  SumFunction(count) = Cardinality(Succeeded(b))
  <1> DEFINE S == Succeeded(b)
             of == [x \in S |-> IntervalLabel(Day(deployments[x].at), i)]
             label == [d \in b |-> IntervalLabel(d, i)]
             L == DOMAIN count
  <1>1. IsFiniteSet(S)
    BY SucceededAre
  <1>2. IsFiniteSet(L)
    <2>1. L = {label[d] : d \in b}
      OBVIOUS
    <2>2. IsFiniteSet(b)
      BY RangeIs
    <2> HIDE DEF label, L
    <2>3. QED
      BY <2>1, <2>2, FiniteImage
  <1>3. \A x \in S : of[x] \in L
    BY DEF Succeeded, OfStatus, DeployedIn
  <1>4. \A l \in L : count[l] = Cardinality(PartOf(S, of, l))
    <2>1. \A l \in L : PartOf(S, of, l) = Succeeded(Labeled(b, i, l))
      BY DEF PartOf, Succeeded, OfStatus, DeployedIn, Labeled
    <2>2. QED
      BY <2>1
  <1> HIDE DEF S, of
  <1>5. SumFunctionOnSet(count, L) = Cardinality(S)
    BY <1>1, <1>2, <1>3, <1>4, PartsCountUp
  <1>6. QED
    BY <1>5 DEF SumFunction, S

ByName(b, i, t) == [name \in Names |-> GetDeploymentMetrics(b, i, t, Spelled(name))]

LEMMA DeploymentsAddUp ==
  ASSUME RawTypes, Calculated, NEW b \in Bounds, b \subseteq fresh, NEW i, NEW t
  PROVE  LET D == GetDeploymentMetrics(b, i, t, "all")
             E == ByName(b, i, t)
         IN /\ D.count = SumFunction(D.trend)
            /\ D.count = SumFunction([name \in Names |-> E[name].count])
            /\ \A l \in DOMAIN D.trend :
                 D.trend[l] = SumFunction([name \in Names |-> E[name].trend[l]])
  <1> DEFINE D == GetDeploymentMetrics(b, i, t, "all")
             E == ByName(b, i, t)
  <1>1. /\ D.count = Cardinality(Succeeded(b))
        /\ DOMAIN D.trend = {IntervalLabel(d, i) : d \in b}
        /\ \A l \in DOMAIN D.trend : D.trend[l] = Cardinality(Succeeded(Labeled(b, i, l)))
    BY DeploymentAnswers
  <1>2. \A name \in Names :
          /\ E[name].count = Cardinality(SucceededIn(b, Spelled(name)))
          /\ DOMAIN E[name].trend = {IntervalLabel(d, i) : d \in b}
          /\ \A l \in DOMAIN E[name].trend :
               E[name].trend[l] = Cardinality(SucceededIn(Labeled(b, i, l), Spelled(name)))
    BY EnvironmentAnswers, NamesAre DEF ByName
  <1> HIDE DEF D, E
  <1>3. D.count = SumFunction(D.trend)
    BY <1>1, LabelsAddUp
  <1>4. D.count = SumFunction([name \in Names |-> E[name].count])
    <2> DEFINE count == [name \in Names |-> E[name].count]
    <2>1. DOMAIN count = Names
          /\ \A name \in Names : count[name] = Cardinality(SucceededIn(b, Spelled(name)))
      BY <1>2
    <2> HIDE DEF count
    <2>2. SumFunction(count) = Cardinality(Succeeded(b))
      BY <2>1, EnvironmentsAddUp
    <2>3. QED
      BY <1>1, <2>2 DEF count
  <1>5. ASSUME NEW l \in DOMAIN D.trend
        PROVE  D.trend[l] = SumFunction([name \in Names |-> E[name].trend[l]])
    <2> DEFINE count == [name \in Names |-> E[name].trend[l]]
    <2>1. DOMAIN count = Names
          /\ \A name \in Names : count[name] = Cardinality(SucceededIn(Labeled(b, i, l), Spelled(name)))
      BY <1>1, <1>2
    <2> HIDE DEF count
    <2>2. SumFunction(count) = Cardinality(Succeeded(Labeled(b, i, l)))
      BY <2>1, EnvironmentsAddUp
    <2>3. QED
      BY <1>1, <2>2 DEF count
  <1>6. QED
    BY <1>3, <1>4, <1>5 DEF D, E

\* Who made how many of something, of those who made any.
CountsBy(S, of, P) == [u \in {v \in P : PartOf(S, of, v) # {}} |-> Cardinality(PartOf(S, of, u))]

LEMMA CountsByAre ==
  ASSUME NEW S, IsFiniteSet(S), NEW of, NEW P, IsFiniteSet(P), NEW count, count = CountsBy(S, of, P)
  PROVE  /\ SumFunction(count) = Cardinality({x \in S : of[x] \in P})
         /\ IsFiniteSet(DOMAIN count) /\ DOMAIN count \subseteq P
         /\ \A u \in DOMAIN count : count[u] \in Nat \ {0}
         /\ \A x \in S : of[x] \in P => of[x] \in DOMAIN count
  <1> DEFINE U == {v \in P : PartOf(S, of, v) # {}}
             T == {x \in S : of[x] \in P}
  <1>1. DOMAIN count = U /\ \A u \in U : count[u] = Cardinality(PartOf(S, of, u))
    BY DEF CountsBy
  <1>2. IsFiniteSet(U) /\ IsFiniteSet(T)
    BY FS_Subset
  <1>3. ASSUME NEW u \in U PROVE count[u] \in Nat \ {0}
    <2>1. IsFiniteSet(PartOf(S, of, u)) /\ PartOf(S, of, u) # {}
      BY FS_Subset DEF PartOf
    <2>2. Cardinality(PartOf(S, of, u)) \in Nat /\ Cardinality(PartOf(S, of, u)) # 0
      BY <2>1, FS_CardinalityType, FS_EmptySet
    <2>3. QED
      BY <1>1, <2>2
  <1>4. \A x \in S : of[x] \in P => of[x] \in U
    BY DEF PartOf
  <1>5. \A u \in U : PartOf(T, of, u) = PartOf(S, of, u)
    BY DEF PartOf
  <1>6. \A x \in T : of[x] \in U
    BY <1>4
  <1>7. \A u \in U : count[u] = Cardinality(PartOf(T, of, u))
    BY <1>1, <1>5
  <1>8. U \subseteq P
    OBVIOUS
  <1> HIDE DEF U, T
  <1>9. SumFunctionOnSet(count, U) = Cardinality(T)
    BY <1>2, <1>6, <1>7, PartsCountUp
  <1>10. QED
    BY <1>1, <1>2, <1>3, <1>4, <1>8, <1>9 DEF SumFunction, T

LEMMA ContributorsAre ==
  ASSUME RawTypes, NEW b \in Bounds
  PROVE  SumFunction(ListContributors(b)) <= Cardinality(CreatedIn(b))
  <1> DEFINE S == CreatedIn(b)
             of == [p \in S |-> prs[p].author]
             T == {p \in S : of[p] \in People \ Bots}
  <1>1. IsFiniteSet(S) /\ IsFiniteSet(People \ Bots)
    BY CountsAreExact, MetricsAssumption, FS_Subset DEF CreatedIn
  <1>2. ListContributors(b) = CountsBy(S, of, People \ Bots)
    <2>1. \A u : {p \in CreatedIn(b) : prs[p].author = u} = PartOf(S, of, u)
      BY DEF PartOf
    <2> HIDE DEF S, of
    <2>2. QED
      BY <2>1 DEF ListContributors, CountsBy
  <1>3. Cardinality(T) <= Cardinality(S)
    BY <1>1, FS_Subset
  <1> HIDE DEF S, of
  <1>4. SumFunction(ListContributors(b)) = Cardinality(T)
    BY <1>1, <1>2, CountsByAre
  <1>5. QED
    BY <1>3, <1>4 DEF S

\* Reviews by persons, of the pull requests of a range.
ReviewsOf(b) == {r \in reviews : r.pr \in CreatedIn(b) /\ Human(r)}

LEMMA ReviewersAre ==
  ASSUME RawTypes, NEW b \in Bounds
  PROVE  /\ SumFunction(ListReviewers(b)) = Cardinality(ReviewsOf(b))
         /\ IsFiniteSet(DOMAIN ListReviewers(b)) /\ DOMAIN ListReviewers(b) \subseteq People
         /\ \A u \in DOMAIN ListReviewers(b) : ListReviewers(b)[u] \in Nat \ {0}
         /\ \A r \in ReviewsOf(b) : r.by \in DOMAIN ListReviewers(b)
  <1> DEFINE S == {r \in reviews : r.pr \in CreatedIn(b)}
             of == [r \in S |-> r.by]
             P == People \ Bots
             count == ListReviewers(b)
  <1>1. IsFiniteSet(S) /\ IsFiniteSet(P) /\ P \subseteq People
    BY MetricsAssumption, FS_Subset DEF RawTypes
  <1>2. count = CountsBy(S, of, P)
    <2>1. \A u : {r \in reviews : r.pr \in CreatedIn(b) /\ r.by = u} = PartOf(S, of, u)
      BY DEF PartOf
    <2> HIDE DEF S, of
    <2>2. QED
      BY <2>1 DEF ListReviewers, CountsBy
  <1>3. {r \in S : of[r] \in P} = ReviewsOf(b)
    BY DEF ReviewsOf, Human, RawTypes
  <1>4. \A r \in ReviewsOf(b) : r \in S /\ of[r] = r.by /\ of[r] \in P
    BY DEF ReviewsOf, Human, RawTypes
  <1> HIDE DEF S, of, P, count
  <1>5. /\ SumFunction(count) = Cardinality({r \in S : of[r] \in P})
        /\ IsFiniteSet(DOMAIN count) /\ DOMAIN count \subseteq P
        /\ \A u \in DOMAIN count : count[u] \in Nat \ {0}
        /\ \A r \in S : of[r] \in P => of[r] \in DOMAIN count
    BY ONLY <1>1, <1>2, CountsByAre
  <1>6. /\ SumFunction(count) = Cardinality(ReviewsOf(b)) /\ DOMAIN count \subseteq People
        /\ \A r \in ReviewsOf(b) : r.by \in DOMAIN count
    BY <1>1, <1>3, <1>4, <1>5
  <1>7. QED
    BY <1>5, <1>6 DEF count

\* What was reviewed has reviews, and they are of what was reviewed.
LEMMA ReviewedAre ==
  ASSUME RawTypes, NEW b \in Bounds
  PROVE  /\ IsFiniteSet(ReviewsOf(b))
         /\ Cardinality({p \in CreatedIn(b) : Reviewed(p)}) <= Cardinality(ReviewsOf(b))
         /\ ReviewsOf(b) = {} <=> {p \in CreatedIn(b) : Reviewed(p)} = {}
  <1> DEFINE S == ReviewsOf(b)
             of == [r \in S |-> r.pr]
  <1>1. IsFiniteSet(S)
    BY FS_Subset DEF RawTypes, ReviewsOf
  <1>2. {p \in CreatedIn(b) : Reviewed(p)} = {of[r] : r \in S}
    BY DEF Reviewed, ReviewsOf
  <1>3. {of[r] : r \in S} = {} <=> S = {}
    OBVIOUS
  <1> HIDE DEF S, of
  <1>4. Cardinality({of[r] : r \in S}) <= Cardinality(S)
    BY <1>1, FiniteImage
  <1>5. QED
    BY <1>1, <1>2, <1>3, <1>4 DEF S

\* With no more people than the unit has parts, someone's share is not rounded to nothing.
LEMMA TopShare ==
  ASSUME NEW count, NEW U, DOMAIN count = U, IsFiniteSet(U), Cardinality(U) <= Scale,
         \A u \in U : count[u] \in Nat \ {0}
  PROVE  Max({0} \cup Range(Shares(count))) > 0 <=> U # {}
  <1> DEFINE n == SumFunction(count)
             share == [u \in U |-> Ratio(count[u], n)]
             X == {0} \cup {share[u] : u \in U}
  <1>1. {0} \cup Range(Shares(count)) = X
    BY DEF Range, Shares
  <1>2. n = SumFunctionOnSet(count, U)
    BY DEF SumFunction
  <1>3. Scale \in Nat \ {0} /\ Cardinality(U) \in Nat
    BY MetricsAssumption, FS_CardinalityType
  <1>4. \A u \in U : share[u] = Ratio(count[u], n)
    OBVIOUS
  <1>5. n \in Nat
    BY <1>2, SumOfSubset
  <1>6. IsFiniteSet(X)
    <2> HIDE DEF share
    <2>1. IsFiniteSet({share[u] : u \in U})
      BY FiniteImage
    <2>2. QED
      BY <2>1, FS_AddElement
  <1> HIDE DEF n
  <1>7. X \subseteq Int
    BY <1>3, <1>5 DEF Ratio
  <1>8. \A u \in U : share[u] \in X
    OBVIOUS
  <1>9. U = {} => X = {0}
    OBVIOUS
  <1>10. X # {}
    OBVIOUS
  <1> HIDE DEF X, share
  <1>11. Max(X) \in X /\ (\A y \in X : Max(X) >= y) /\ Max(X) \in Int
    BY <1>6, <1>7, <1>10, Extremes
  <1>12. U = {} => Max(X) = 0
    BY <1>9, <1>11
  <1>13. ASSUME U # {}
         PROVE  Max(X) > 0
    <2> DEFINE C == {count[u] : u \in U}
    <2>1. IsFiniteSet(C) /\ C # {} /\ C \subseteq Int
      <3>1. C # {} /\ C \subseteq Int
        BY <1>13
      <3>2. QED
        BY <3>1, FiniteImage
    <2>2. PICK v \in U : \A u \in U : count[v] >= count[u]
      <3>1. Max(C) \in C /\ \A y \in C : Max(C) >= y
        <4> HIDE DEF C
        <4>1. QED
          BY <2>1, Extremes
      <3>2. QED
        BY <3>1
    <2> DEFINE m == count[v]
               one == [u \in U |-> 1]
               all == [u \in U |-> m]
    <2>3. \A u \in U : one[u] = 1 /\ all[u] = m * one[u] /\ count[u] <= all[u] /\ all[u] \in Int
      BY <2>2
    <2>4. m \in Nat \ {0} /\ m \in Int
      OBVIOUS
    <2> HIDE DEF one, all, m
    <2>5. SumFunctionOnSet(one, U) = Cardinality(U)
      BY <2>3, SumOfOnes
    <2>6. SumFunctionOnSet(all, U) = m * SumFunctionOnSet(one, U)
      BY <2>3, <2>4, SumsTimes
    <2>7. SumFunctionOnSet(count, U) <= SumFunctionOnSet(all, U)
      BY <2>3, SumsCompare
    <2>8. n <= m * Cardinality(U) /\ m * Cardinality(U) <= m * Scale
      BY <1>2, <1>3, <2>4, <2>5, <2>6, <2>7, SMT
    <2>9. n >= 1
      <3>1. SumFunctionOnSet(count, U) = count[v] + SumFunctionOnSet(count, U \ {v})
        BY SumTakes
      <3>2. SumFunctionOnSet(count, U \ {v}) \in Nat
        BY SumOfSubset
      <3>3. QED
        BY <1>2, <2>4, <3>1, <3>2 DEF m
    <2>10. (Scale * m) \div n >= 1
      BY <1>3, <1>5, <2>4, <2>8, <2>9, SMT
    <2>11. share[v] >= 1 /\ share[v] \in X /\ share[v] \in Int
      BY <1>4, <1>7, <1>8, <2>9, <2>10 DEF Ratio, m
    <2>12. QED
      BY <1>11, <2>11
  <1>14. QED
    BY <1>1, <1>11, <1>12, <1>13

\* How much was reviewed.
LEMMA ReviewAnswers ==
  ASSUME RawTypes, Calculated, NEW b \in Bounds, b \subseteq fresh, NEW t
  PROVE  /\ WorkloadDistribution(b).pullRequests <= Total(ListMetricsDaily(b), "created")
         /\ WorkloadDistribution(b).reviews >= Total(ListMetricsDaily(b), "reviewed")
         /\ WorkloadDistribution(b).reviewer > 0 <=> GetDashboardSummary(b, t).coverage > 0
  <1> DEFINE R == ListMetricsDaily(b)
             W == WorkloadDistribution(b)
             P == {p \in CreatedIn(b) : Reviewed(p)}
  <1>1. b \in SUBSET Days /\ OfRows(R, b)
    BY RangeIs, RowsOfRange
  <1>2. /\ W.pullRequests = SumFunction(ListContributors(b)) /\ W.reviews = SumFunction(ListReviewers(b))
        /\ W.reviewer = Max({0} \cup Range(Shares(ListReviewers(b))))
    BY DEF WorkloadDistribution
  <1>3. GetDashboardSummary(b, t).coverage = Ratio(Total(R, "reviewed"), Total(R, "created"))
    BY DEF GetDashboardSummary, AggregateSummary
  <1> HIDE DEF R, W
  <1>4. /\ Total(R, "created") = Cardinality(CreatedIn(b))
        /\ Total(R, "reviewed") = Cardinality(P)
    BY <1>1, SizesOfRows, ReviewedOfRows
  <1>5. W.pullRequests <= Total(R, "created")
    BY <1>2, <1>4, ContributorsAre
  <1>6. W.reviews >= Total(R, "reviewed")
    <2>1. Cardinality(P) <= Cardinality(ReviewsOf(b)) /\ IsFiniteSet(ReviewsOf(b))
      BY ReviewedAre
    <2>2. IsFiniteSet(P)
      BY CountsAreExact DEF CreatedIn
    <2>3. Cardinality(P) \in Nat /\ Cardinality(ReviewsOf(b)) \in Nat
      BY <2>1, <2>2, FS_CardinalityType
    <2>4. QED
      BY <1>2, <1>4, <2>1, <2>3, ReviewersAre
  <1>7. W.reviewer > 0 <=> P # {}
    <2> DEFINE U == DOMAIN ListReviewers(b)
    <2>1. /\ IsFiniteSet(U) /\ U \subseteq People
          /\ \A u \in U : ListReviewers(b)[u] \in Nat \ {0}
          /\ \A r \in ReviewsOf(b) : r.by \in U
      BY ReviewersAre
    <2>2. Cardinality(U) <= Scale
      <3>1. IsFiniteSet(People) /\ Cardinality(People) <= Scale /\ Scale \in Nat
        BY MetricsAssumption
      <3> HIDE DEF U
      <3>2. Cardinality(U) <= Cardinality(People) /\ Cardinality(U) \in Nat /\ Cardinality(People) \in Nat
        BY <2>1, <3>1, FS_Subset, FS_CardinalityType
      <3>3. QED
        BY <3>1, <3>2
    <2>3. W.reviewer > 0 <=> U # {}
      BY <1>2, <2>1, <2>2, TopShare
    <2>4. U # {} <=> ReviewsOf(b) # {}
      <3>1. ReviewsOf(b) # {} => U # {}
        BY <2>1
      <3>2. U # {} => ReviewsOf(b) # {}
        BY DEF ListReviewers, ReviewsOf, Human
      <3>3. QED
        BY <3>1, <3>2
    <2>5. ReviewsOf(b) # {} <=> P # {}
      BY ReviewedAre
    <2>6. QED
      BY <2>3, <2>4, <2>5
  <1>8. Ratio(Cardinality(P), Cardinality(CreatedIn(b))) > 0 <=> P # {}
    <2>1. CreatedIn(b) \in SUBSET DOMAIN prs /\ P \in SUBSET CreatedIn(b)
      BY DEF CreatedIn
    <2> HIDE DEF P
    <2>2. IsFiniteSet(CreatedIn(b)) /\ Exact(Cardinality(CreatedIn(b)))
      BY <2>1, CountsAreExact
    <2>3. IsFiniteSet(P) /\ Cardinality(P) <= Cardinality(CreatedIn(b)) /\ Cardinality(P) \in Nat
          /\ Cardinality(CreatedIn(b)) \in Nat
      BY <2>1, <2>2, FS_Subset, FS_CardinalityType
    <2>4. P = {} <=> Cardinality(P) = 0
      BY <2>3, FS_EmptySet
    <2>5. PICK k \in Nat, n \in Nat : k = Cardinality(P) /\ n = Cardinality(CreatedIn(b))
      BY <2>3
    <2>6. k <= n /\ (n = 0 \/ Scale % n = 0) /\ Scale \in Nat \ {0}
      BY <2>2, <2>3, <2>5, MetricsAssumption DEF Exact
    <2>7. Ratio(k, n) > 0 <=> k # 0
      <3>1. CASE k = 0
        <4>1. Ratio(0, n) = 0
          BY <2>6, SMT DEF Ratio
        <4>2. QED
          BY <3>1, <4>1
      <3>2. CASE k # 0
        <4>1. n >= 1 /\ n <= Scale
          BY <2>6, <3>2, SMT
        <4>2. Scale * k >= n
          BY <2>6, <3>2, <4>1, SMT
        <4>3. (Scale * k) \div n > 0
          BY <2>6, <4>1, <4>2, SMT
        <4>4. QED
          BY <3>2, <4>1, <4>3 DEF Ratio
      <3>3. QED
        BY <3>1, <3>2
    <2>8. QED
      BY <2>4, <2>5, <2>7
  <1>9. QED
    BY <1>3, <1>4, <1>5, <1>6, <1>7, <1>8 DEF R, W

\* What a range is made of is among what changed files in it.
LEMMA HotspotAnswers ==
  ASSUME RawTypes, NEW b \in Bounds
  PROVE  SumFunction(AggregateHotspots(ListFileChanges(b)))
           >= SumFunction([p \in CreatedIn(b) \cup MergedIn(b) |-> SizeOf(p)])
  <1> DEFINE F == ListFileChanges(b)
             C == CreatedIn(b) \cup MergedIn(b)
             size == [p \in F |-> SizeOf(p)]
             own == [p \in C |-> SizeOf(p)]
             file == [p \in F |-> prs[p].file]
             T == {file[p] : p \in F}
             H == AggregateHotspots(F)
  <1>1. b \in SUBSET Days /\ b # {} /\ IsFiniteSet(b)
    BY RangeIs
  <1>2. F \in SUBSET DOMAIN prs
    BY DEF ListFileChanges
  <1>3. IsFiniteSet(F)
    BY <1>2, CountsAreExact
  <1>4. C \subseteq F
    <2>1. b \subseteq Int
      BY <1>1, MetricsAssumption DEF Days
    <2>2. Min(b) \in Int /\ Max(b) \in Int /\ \A d \in b : Min(b) <= d /\ d <= Max(b) /\ d \in Int
      BY <1>1, <2>1, Extremes
    <2>3. \A p \in CreatedIn(b) : p \in F
      BY <2>2 DEF CreatedIn, ListFileChanges
    <2>4. ASSUME NEW p \in MergedIn(b)
          PROVE  p \in F
      <3>1. p \in DOMAIN prs /\ Day(prs[p].merged) \in b /\ IsStored(prs[p])
        BY DEF MergedIn, RawTypes
      <3>2. prs[p].merged # None
        BY <1>1, <3>1, NoDay
      <3>3. prs[p].created \in Nat /\ prs[p].merged \in Nat /\ prs[p].created <= prs[p].merged
        BY <3>1, <3>2 DEF IsStored
      <3>4. PerDay \in Nat \ {0}
        BY MetricsAssumption
      <3>5. /\ Day(prs[p].created) = prs[p].created \div PerDay
            /\ Day(prs[p].merged) = prs[p].merged \div PerDay
        BY <3>3 DEF Day, None
      <3>6. prs[p].created \div PerDay <= prs[p].merged \div PerDay
        <4>1. \A a, c \in Nat, k \in Nat \ {0} : a <= c => a \div k <= c \div k
          BY SMT
        <4>2. QED
          BY <3>3, <3>4, <4>1
      <3>7. Day(prs[p].created) <= Max(b) /\ Day(prs[p].merged) >= Min(b)
        <4>1. prs[p].created \div PerDay \in Int /\ prs[p].merged \div PerDay \in Int
          BY <3>3, <3>4, SMT
        <4>2. QED
          BY <2>2, <3>1, <3>5, <3>6, <4>1
      <3>8. QED
        BY <3>1, <3>7 DEF ListFileChanges
    <2>5. QED
      BY <2>3, <2>4
  <1>5. \A p \in F : size[p] \in Nat /\ size[p] \in Int /\ file[p] \in T
    BY <1>2 DEF RawTypes, IsStored, SizeOf
  <1>6. \A p \in C : own[p] = size[p]
    BY <1>4
  <1>7. DOMAIN H = T
    BY DEF AggregateHotspots
  <1>8. \A x \in T : H[x] = SumFunctionOnSet(size, PartOf(F, file, x))
    <2>1. SUFFICES ASSUME NEW x \in T PROVE H[x] = SumFunctionOnSet(size, PartOf(F, file, x))
      OBVIOUS
    <2> DEFINE U == {q \in F : prs[q].file = x}
               of == [p \in U |-> SizeOf(p)]
    <2>2. H[x] = SumFunction(of)
      BY DEF AggregateHotspots
    <2>3. SumFunction(of) = SumFunctionOnSet(of, U)
      BY DEF SumFunction
    <2>4. PartOf(F, file, x) = U
      BY DEF PartOf
    <2>5. IsFiniteSet(U) /\ \A p \in U : of[p] \in Int /\ of[p] = size[p]
      BY <1>3, <1>5, FS_Subset
    <2> HIDE DEF U, of, size, H
    <2>6. SumFunctionOnSet(of, U) = SumFunctionOnSet(size, U)
      BY <2>5, SumsAgree
    <2>7. QED
      BY <2>2, <2>3, <2>4, <2>6
  <1>9. SumFunction(H) = SumFunctionOnSet(H, T)
    BY <1>7 DEF SumFunction
  <1>10. SumFunction(own) = SumFunctionOnSet(own, C)
    BY DEF SumFunction
  <1>11. IsFiniteSet(T)
    <2> HIDE DEF file, F
    <2>1. QED
      BY <1>3, FiniteImage
  <1> HIDE DEF F, C, size, own, file, T, H
  <1>12. SumFunctionOnSet(SumsOfParts(size, F, file, T), T) = SumFunctionOnSet(size, F)
    BY <1>3, <1>5, <1>11, PartsAddUp
  <1>13. SumFunctionOnSet(H, T) = SumFunctionOnSet(SumsOfParts(size, F, file, T), T)
    <2> DEFINE G == SumsOfParts(size, F, file, T)
    <2>1. \A x \in T : G[x] = H[x]
      BY <1>8 DEF SumsOfParts
    <2>2. ASSUME NEW x \in T
          PROVE  H[x] \in Int
      <3> DEFINE U == PartOf(F, file, x)
      <3>1. IsFiniteSet(U) /\ \A p \in U : size[p] \in Int
        BY <1>3, <1>5, FS_Subset DEF PartOf
      <3> HIDE DEF U
      <3>2. SumFunctionOnSet(size, U) \in Int
        BY ONLY <3>1, SumStep
      <3>3. QED
        BY <1>8, <3>2 DEF U
    <2> HIDE DEF G
    <2>3. SumFunctionOnSet(H, T) = SumFunctionOnSet(G, T)
      BY <1>11, <2>1, <2>2, SumsAgree
    <2>4. QED
      BY <2>3 DEF G
  <1>14. SumFunctionOnSet(own, C) = SumFunctionOnSet(size, C)
    <2>1. IsFiniteSet(C) /\ \A p \in C : own[p] \in Int /\ own[p] = size[p]
      BY <1>3, <1>4, <1>5, <1>6, FS_Subset
    <2>2. QED
      BY <2>1, SumsAgree
  <1>15. SumFunctionOnSet(size, C) <= SumFunctionOnSet(size, F) /\ SumFunctionOnSet(size, C) \in Nat
         /\ SumFunctionOnSet(size, F) \in Nat
    BY <1>3, <1>4, <1>5, SumOfSubset
  <1>16. SumFunction(H) >= SumFunction(own)
    BY <1>9, <1>10, <1>12, <1>13, <1>14, <1>15
  <1>17. QED
    BY <1>16 DEF H, own, C, F

-----------------------------------------------------------------------------

LEMMA AnswersFollow == MetricInv => AnswersAreRaw
  <1> SUFFICES ASSUME MetricInv, NEW b \in Bounds, b \subseteq fresh, NEW i \in Intervals,
                      NEW t \in {"calendar", "business"}
               PROVE  LET S == GetDashboardSummary(b, t)
                          P == GetPullRequestMetrics(b, i)
                          R == GetReviewMetrics(b, i)
                          D == GetDeploymentMetrics(b, i, t, "all")
                          E == [name \in Names |-> GetDeploymentMetrics(b, i, t, Spelled(name))]
                          W == WorkloadDistribution(b)
                          rowsOf == ListMetricsDaily(b)
                          in(label) == {d \in b : IntervalLabel(d, i) = label}
                          waits(B) == Average(Samples(CreatedIn(B)), WaitOf)
                      IN /\ S.cycle = Average(MergedIn(b), CycleOf) /\ P.cycle = S.cycle
                         /\ P.size = Average(CreatedIn(b), SizeOf)
                         /\ \A l \in DOMAIN P.trend : P.trend[l] = Average(MergedIn(in(l)), CycleOf)
                         /\ S.wait = waits(b) /\ R.wait = S.wait
                         /\ \A l \in DOMAIN R.trend : R.trend[l] = waits(in(l))
                         /\ S.coverage = R.coverage
                         /\ D.count = SumFunction(D.trend)
                         /\ D.count = SumFunction([name \in Names |-> E[name].count])
                         /\ \A l \in DOMAIN D.trend :
                              D.trend[l] = SumFunction([name \in Names |-> E[name].trend[l]])
                         /\ D.failureRate = S.failureRate /\ D.frequency = S.frequency
                         /\ t = "business" => S.frequency >= GetDashboardSummary(b, "calendar").frequency
                                              \/ DayCount(b, t) = 0
                         /\ ~S.data.partial
                         /\ W.pullRequests <= Total(rowsOf, "created") /\ W.reviews >= Total(rowsOf, "reviewed")
                         /\ (W.reviewer > 0) = (S.coverage > 0)
                         /\ SumFunction(AggregateHotspots(ListFileChanges(b)))
                              >= SumFunction([p \in CreatedIn(b) \cup MergedIn(b) |-> SizeOf(p)])
    BY DEF AnswersAreRaw
  <1>1. RawTypes /\ Calculated
    BY RangeIs DEF MetricInv
  <1> DEFINE S == GetDashboardSummary(b, t)
             P == GetPullRequestMetrics(b, i)
             R == GetReviewMetrics(b, i)
             D == GetDeploymentMetrics(b, i, t, "all")
             E == [name \in Names |-> GetDeploymentMetrics(b, i, t, Spelled(name))]
             W == WorkloadDistribution(b)
  <1>2. /\ S.cycle = Average(MergedIn(b), CycleOf) /\ P.cycle = S.cycle
        /\ P.size = Average(CreatedIn(b), SizeOf)
        /\ \A l \in DOMAIN P.trend : P.trend[l] = Average(MergedIn(Labeled(b, i, l)), CycleOf)
    BY <1>1, CycleAnswers
  <1>3. /\ S.wait = Average(Samples(CreatedIn(b)), WaitOf) /\ R.wait = S.wait
        /\ \A l \in DOMAIN R.trend : R.trend[l] = Average(Samples(CreatedIn(Labeled(b, i, l))), WaitOf)
        /\ S.coverage = R.coverage
    BY <1>1, WaitAnswers
  <1>4. /\ D.count = SumFunction(D.trend)
        /\ D.count = SumFunction([name \in Names |-> E[name].count])
        /\ \A l \in DOMAIN D.trend : D.trend[l] = SumFunction([name \in Names |-> E[name].trend[l]])
    <2>1. E = ByName(b, i, t)
      BY DEF ByName
    <2> HIDE DEF E
    <2>2. QED
      BY <1>1, <2>1, DeploymentsAddUp
  <1>5. /\ D.failureRate = S.failureRate /\ D.frequency = S.frequency
        /\ t = "business" => S.frequency >= GetDashboardSummary(b, "calendar").frequency
                             \/ DayCount(b, t) = 0
        /\ ~S.data.partial
    BY <1>1, FrequencyAnswers
  <1>6. /\ W.pullRequests <= Total(ListMetricsDaily(b), "created")
        /\ W.reviews >= Total(ListMetricsDaily(b), "reviewed")
        /\ (W.reviewer > 0) = (S.coverage > 0)
    BY <1>1, ReviewAnswers
  <1>7. SumFunction(AggregateHotspots(ListFileChanges(b)))
          >= SumFunction([p \in CreatedIn(b) \cup MergedIn(b) |-> SizeOf(p)])
    BY <1>1, HotspotAnswers
  <1> HIDE DEF S, P, R, D, E, W
  <1>8. \A l \in DOMAIN P.trend : P.trend[l] = Average(MergedIn({d \in b : IntervalLabel(d, i) = l}), CycleOf)
    BY <1>2 DEF Labeled
  <1>9. \A l \in DOMAIN R.trend :
          R.trend[l] = Average(Samples(CreatedIn({d \in b : IntervalLabel(d, i) = l})), WaitOf)
    BY <1>3 DEF Labeled
  <1>10. QED
    BY <1>2, <1>3, <1>4, <1>5, <1>6, <1>7, <1>8, <1>9 DEF S, P, R, D, E, W

\* Every answer put together from rows that are up to date is what is stored of the range
\* (metrics AggregateSummary and its like, WeightedAverage), and answers agree.
THEOREM AnswersRaw == Spec => []AnswersAreRaw
  <1>1. Init => MetricInv
    BY MetricStart
  <1>2. MetricInv /\ [Next]_vars => MetricInv'
    BY MetricSteps
  <1>3. MetricInv => AnswersAreRaw
    BY AnswersFollow
  <1>4. QED
    BY <1>1, <1>2, <1>3, PTL DEF Spec
===============================================================================
