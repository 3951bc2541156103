------------------------------ MODULE PullRequests ------------------------------
(***************************************************************************)
(* One pull request and what is stored of it. GitHub's copy goes through     *)
(* versions; events of any of them arrive in any order and any number of     *)
(* times (githubwebhook), and a sync stores the ones it meets when it asks   *)
(* (syncjob). All of them end in the same two upserts, and pullrequest       *)
(* answers from the rows.                                                    *)
(***************************************************************************)
EXTENDS Integers, Sequences, FiniteSetsExt

CONSTANTS ReviewIds, MaxVersions, MaxStores

ASSUME PullRequestsAssumption == ReviewIds \subseteq Int /\ IsFiniteSet(ReviewIds)

VARIABLES
  versions,    \* GitHub's copy, at each of its instants
  pull,        \* the row of pull_requests, if any
  reviewRows,  \* the rows of pull_request_reviews
  taken,       \* history: the snapshots that were stored, of the pull request
  takenReviews,\* history: and of each review
  stores       \* of MaxStores

pullVars == <<versions, pull, reviewRows, taken, takenReviews, stores>>

Null == -1
Now == Len(versions)
Opened == [state |-> "open", created |-> 1, merged |-> Null, closed |-> Null, size |-> 1,
           draft |-> TRUE]

-----------------------------------------------------------------------------
(* GitHub.                                                                   *)

Version(pr, submitted) ==
  /\ Now < MaxVersions
  /\ versions' = Append(versions, [pr |-> pr, reviews |-> submitted])
  /\ UNCHANGED <<pull, reviewRows, taken, takenReviews, stores>>

Change ==
  LET V == versions[Now]
  IN \/ Version([V.pr EXCEPT !.size = @ + 1], V.reviews)
     \/ V.pr.draft /\ Version([V.pr EXCEPT !.draft = FALSE], V.reviews)
     \/ V.pr.state = "open" /\ Version([V.pr EXCEPT !.state = "closed", !.closed = Now + 1], V.reviews)
     \/ V.pr.state = "open" /\ Version([V.pr EXCEPT !.state = "closed", !.closed = Now + 1,
                                                    !.merged = Now + 1], V.reviews)
     \/ V.pr.state = "closed" /\ V.pr.merged = Null
          /\ Version([V.pr EXCEPT !.state = "open", !.closed = Null], V.reviews)

\* A review is submitted, or the time it was submitted at stays when it is dismissed.
Submit(r) ==
  LET V == versions[Now]
  IN \/ r \notin DOMAIN V.reviews
          /\ Version(V.pr, [s \in DOMAIN V.reviews \cup {r} |->
               IF s = r THEN [at |-> Now + 1, state |-> "approved"] ELSE V.reviews[s]])
     \/ r \in DOMAIN V.reviews /\ V.reviews[r].state = "approved"
          /\ Version(V.pr, [V.reviews EXCEPT ![r].state = "dismissed"])

-----------------------------------------------------------------------------
(* The upserts.                                                              *)

\* LEAST and GREATEST pass over nulls.
Least(a, b) == IF a = Null THEN b ELSE IF b = Null THEN a ELSE Min({a, b})
Greatest(a, b) == Max({a, b})

\* A mutated upsert whose state is that of the last snapshot.
UpsertPullRequestLast(row, in) ==
  IF row = <<>> THEN in
  ELSE [in EXCEPT !.created = Least(row.created, @), !.merged = Greatest(row.merged, @),
                  !.closed = Greatest(row.closed, @)]

\* A merge or a close is kept from what does not know of it: what is older, and also what
\* is newer, when the pull request was opened again.
UpsertPullRequest(row, in) ==
  IF row = <<>> THEN in
  ELSE [in EXCEPT
    !.state = IF \/ row.merged # Null /\ in.merged = Null
                 \/ row.closed # Null /\ in.closed = Null /\ in.state = "open"
              THEN row.state ELSE @,
    !.created = Least(row.created, @), !.merged = Greatest(row.merged, @),
    !.closed = Greatest(row.closed, @)]

UpsertPullRequestReview(row, in) ==
  IF row = <<>> THEN in
  ELSE [in EXCEPT !.requested = Least(row.requested, @), !.first = Least(row.first, @),
                  !.submitted = Greatest(row.submitted, @),
                  !.state = IF in.submitted # Null /\ in.submitted >= row.submitted
                            THEN @ ELSE row.state]

RowOfReview(id) == IF id \in DOMAIN reviewRows THEN reviewRows[id] ELSE <<>>

\* What is stored of a pull request and of some of its reviews, together.
Store(in, inReviews) ==
  /\ stores < MaxStores /\ stores' = stores + 1
  /\ pull' = UpsertPullRequest(pull, in)
  /\ reviewRows' = [r \in DOMAIN inReviews \cup DOMAIN reviewRows |->
       IF r \in DOMAIN inReviews THEN UpsertPullRequestReview(RowOfReview(r), inReviews[r])
       ELSE reviewRows[r]]
  /\ taken' = taken \cup {in}
  /\ takenReviews' = takenReviews \cup {[id |-> r, in |-> inReviews[r]] : r \in DOMAIN inReviews}
  /\ UNCHANGED versions

ReviewRow(review, first) ==
  [requested |-> Null, first |-> first, submitted |-> review.at, state |-> review.state]

-----------------------------------------------------------------------------
(* Who stores.                                                               *)

\* An event of any version; its retry is the same again.
ProjectPullRequest(k) == Store(versions[k].pr, <<>>)

\* The pull request of a review's event may come without sizes, which are then 0.
ProjectReview(k, r) ==
  LET review == versions[k].reviews[r]
  IN /\ r \in DOMAIN versions[k].reviews
     /\ \E size \in {0, versions[k].pr.size} :
          Store([versions[k].pr EXCEPT !.size = size], [s \in {r} |-> ReviewRow(review, review.at)])

\* A sync asks for the page, then for the pull request, then for its reviews.
BuildPullRequestInput(detail, fallback) ==
  [detail EXCEPT !.closed = IF @ = Null THEN fallback.closed ELSE @,
                 !.merged = IF @ = Null THEN fallback.merged ELSE @,
                 !.draft = @ \/ fallback.draft]
\* All of those it has began with the first of them.
BuildReviewInputs(submitted) ==
  LET first == Min({submitted[r].at : r \in DOMAIN submitted})
  IN [r \in DOMAIN submitted |-> ReviewRow(submitted[r], first)]

\* What is older than the cutoff is left out, the pull request with all of its reviews, or
\* a review; a full sync has none, which is 0.
SyncReviews(submitted, cutoff) ==
  [r \in {s \in DOMAIN submitted : submitted[s].at >= cutoff} |-> submitted[r]]
SyncPullRequest(page, detail, later, cutoff) ==
  /\ cutoff <= page /\ page <= detail /\ detail <= later
  /\ Store(BuildPullRequestInput(versions[detail].pr, versions[page].pr),
           BuildReviewInputs(SyncReviews(versions[later].reviews, cutoff)))

-----------------------------------------------------------------------------
(* The answer (pullrequest.GetByID). The reviewers are no bots.              *)

ComputeCycleTime == IF pull.merged = Null \/ pull.merged < pull.created THEN Null
                    ELSE pull.merged - pull.created

\* By the response that came first, of those that were asked for; of responses at one
\* time, any that listReviews has first.
ComputeReviewWait ==
  LET asked == {r \in DOMAIN reviewRows :
        reviewRows[r].requested # Null /\ reviewRows[r].first >= reviewRows[r].requested}
      first == Min({reviewRows[r].first : r \in asked})
  IN IF asked = {} THEN {Null}
     ELSE {first - reviewRows[r].requested : r \in {s \in asked : reviewRows[s].first = first}}

\* A mutated order, in which a review is submitted before it starts.
TimelinePrioritySwapped == [created |-> 0, requested |-> 1, started |-> 3, submitted |-> 2,
                            merged |-> 4, closed |-> 5]

\* Of events at one time.
TimelinePriority == [created |-> 0, requested |-> 1, started |-> 2, submitted |-> 3,
                     merged |-> 4, closed |-> 5]
Happened(type, of, at) == IF at = Null THEN {} ELSE {[type |-> type, of |-> of, at |-> at]}
Events ==
  Happened("created", 0, pull.created)
  \cup (IF pull.merged # Null THEN Happened("merged", 0, pull.merged)
        ELSE Happened("closed", 0, pull.closed))
  \cup UNION {Happened("requested", r, reviewRows[r].requested)
              \cup Happened("started", r, reviewRows[r].first)
              \cup Happened("submitted", r, reviewRows[r].submitted) : r \in DOMAIN reviewRows}

\* All of them are submitted.
ListReviewsBefore(r, s) ==
  /\ {r, s} \subseteq DOMAIN reviewRows
  /\ \/ reviewRows[r].submitted < reviewRows[s].submitted
     \/ reviewRows[r].submitted = reviewRows[s].submitted /\ r < s

\* The sort is stable: events that are alike stay as their reviews are listed.
Earlier(e, f) ==
  \/ e.at < f.at
  \/ /\ e.at = f.at
     /\ \/ TimelinePriority[e.type] < TimelinePriority[f.type]
        \/ e.type = f.type /\ ListReviewsBefore(e.of, f.of)
PlaceInTimeline(e) == Cardinality({f \in Events : f = e \/ Earlier(f, e)})
BuildTimeline == [i \in 1 .. Cardinality(Events) |-> CHOOSE e \in Events : PlaceInTimeline(e) = i]

\* Sizes by units of what counts as large; reworked files are left out.
BuildRiskIndicator ==
  LET score == (IF pull.size >= 2 THEN 4 ELSE IF pull.size >= 1 THEN 2 ELSE 0)
               + (IF reviewRows = <<>> /\ ~pull.draft THEN 2 ELSE 0)
  IN IF score >= 4 THEN "high" ELSE IF score >= 2 THEN "medium" ELSE "low"

-----------------------------------------------------------------------------

PullRequestsInit ==
  /\ versions = <<[pr |-> Opened, reviews |-> <<>>]>>
  /\ pull = <<>> /\ reviewRows = <<>> /\ taken = {} /\ takenReviews = {} /\ stores = 0

PullRequestsNext ==
  \/ Change
  \/ \E r \in ReviewIds : Submit(r)
  \/ \E k \in 1 .. Now : ProjectPullRequest(k) \/ \E r \in ReviewIds : ProjectReview(k, r)
  \/ \E page, detail, later \in 1 .. Now, cutoff \in 0 .. Now :
       SyncPullRequest(page, detail, later, cutoff)

-----------------------------------------------------------------------------

\* The order in which a pull request's snapshots are stored, and how often, changes
\* neither when it was created, merged and closed nor that it is: the row is the least
\* that all of them allow, and a merge or close once stored is never undone. (A sync
\* that asks while the pull request is opened again may store an open one that has been
\* closed; then either state may be left.)
SnapshotsConverge ==
  pull # <<>> =>
    LET closedOnes == {s \in taken : s.state = "closed"}
        mixed == \E s \in taken : s.state = "open" /\ s.closed # Null
    IN /\ pull.created = Min({s.created : s \in taken})
       /\ pull.merged = Max({s.merged : s \in taken})
       /\ pull.closed = Max({s.closed : s \in taken})
       /\ pull.merged # Null => pull.state = "closed"
       /\ ~mixed => (pull.state = "closed") = (closedOnes # {})
       /\ \A r \in DOMAIN reviewRows :
            LET of == {t.in : t \in {u \in takenReviews : u.id = r}}
            IN /\ reviewRows[r].first = Min({in.first : in \in of})
               /\ reviewRows[r].submitted = Max({in.submitted : in \in of})
               /\ \E in \in of : in.state = reviewRows[r].state /\ in.submitted = reviewRows[r].submitted

\* The answer tells the pull request's story in the order it happened, whatever was
\* stored when: created first, a review begun before it was submitted, merged or closed at
\* most once and after it was created; and it has a cycle time exactly when it tells of a
\* merge.
TimelineInOrder ==
  pull # <<>> =>
    LET T == BuildTimeline
        ends == {i \in DOMAIN T : T[i].type \in {"merged", "closed"}}
    IN /\ \A i \in 1 .. Len(T) - 1 : T[i].at <= T[i + 1].at
       /\ T[1].type = "created" /\ Cardinality(ends) <= 1
       /\ \A r \in DOMAIN reviewRows : \E i, j \in DOMAIN T :
            /\ i < j /\ T[i].type = "started" /\ T[j].type = "submitted"
            /\ T[i].of = r /\ T[j].of = r
       /\ (ComputeCycleTime # Null) = (\E i \in ends : T[i].type = "merged" /\ i > 1)
       /\ ComputeReviewWait = {Null}
       /\ BuildRiskIndicator = "low" => pull.draft \/ reviewRows # <<>>
=============================================================================
