----------------------------- MODULE SyncPages -----------------------------
(***************************************************************************)
(* What the sync jobs of one repository copy from GitHub: sync options,    *)
(* the cutoff taken from last_synced_at, the page loops of the resources,  *)
(* the checkpoints a retried job resumes from, and the rows they store     *)
(* (internal/syncjob). SyncJobs has the queue these jobs wait in.          *)
(***************************************************************************)
EXTENDS Integers, FiniteSets

CONSTANTS
  MaxCount,  \* bound: MaxCount[k], the items GitHub ever has of resource k
  PerPage,   \* items of a page (100); a page of reviews holds one
  MaxReview, \* bound: reviews ever submitted for a pull request
  FilePages, \* pages of the files of a pull request
  Jobs,      \* bound: jobs ever enqueued
  Runners,   \* goroutines: runs of this repository that may overlap
  Froms,     \* dates a request may give in "from"
  Requests,  \* the options that are asked for
  MaxTime,   \* bound on the clock
  MaxFails,  \* bound on failed runs
  None

\* Resources in the order of run(): pull requests, commits, workflow runs,
\* deployments.
Kinds == 1 .. 4
Pull == 1
Commits == 2
LastKind == 4

Time == 0 .. MaxTime
PageNo == Nat \ {0}
Parts == 1 .. MaxReview + FilePages
AllFiles == 1 .. FilePages
Lists == {"reviews", "changed_files"}

ASSUME BoundsAssumption ==
  /\ MaxCount \in [Kinds -> Nat] /\ PerPage \in Nat \ {0}
  /\ MaxReview \in Nat /\ FilePages \in Nat \ {0}
  /\ MaxTime \in Nat \ {0} /\ MaxFails \in Nat /\ Froms \subseteq Time \ {0}
Options == [mode : {"full", "incremental"}, from : Froms \cup {None}]
ASSUME RequestsAssumption == Requests \subseteq Options
ASSUME NoneAssumption == None \notin Jobs \cup Int \cup {"full", "incremental"}

\* <<k, i, 0>> is item i of resource k, in the order of creation; <<Pull, i, q>>
\* is review q of pull request i.
Items(k) == {<<k, i, 0>> : i \in 1 .. MaxCount[k]}
Pulls == Items(Pull)
Reviews(x) == {<<Pull, x[2], q>> : q \in 1 .. MaxReview}
PullOf(y) == <<Pull, y[2], 0>>
Listed == UNION {Items(k) : k \in Kinds}
Review == UNION {Reviews(x) : x \in Pulls}
Item == Listed \cup Review

VARIABLES
  now,         \* the clock
  updated,     \* GitHub: when an item changed last; 0 before it exists
  job,         \* sync_jobs and the sync_checkpoints of each job
  lastSynced,  \* repositories.last_synced_at; 0 before the first sync
  stored,      \* the version of an item in the database; 0 if none
  files,       \* the pages of a pull request's files in the database
  runner,      \* where each goroutine is in run()
  missed,      \* history: items whose last change no run was obliged to see
  cut,         \* history: <<l, x>> whose list l a failed run left half fetched
  fails        \* failed runs left

vars == <<now, updated, job, lastSynced, stored, files, runner, missed, cut, fails>>

Row == [status : {"absent", "pending", "running", "completed", "failed"},
        asked  : Options,                                 \* the request
        mode   : {"full", "incremental", None},           \* checkpoint job, mode
        from   : Froms \cup {None},                       \* checkpoint job, from
        page   : [Kinds -> PageNo \cup {None}],           \* checkpoint k, page
        part   : [Lists -> [Pulls -> Parts \cup {None}]], \* checkpoint l, pull_x
        first  : Time]                                    \* history: its first start

AbsentRow == [status |-> "absent", asked |-> [mode |-> "incremental", from |-> None],
              mode |-> None, from |-> None, page |-> [k \in Kinds |-> None],
              part |-> [l \in Lists |-> [x \in Pulls |-> None]], first |-> 0]

\* kind, page, next and batch are the page at hand, its successor (0 at the end)
\* and its items still to store; item, version, part and got the pull request at
\* hand, as it was fetched, and the pages of the list being fetched.
Goroutine == [at : {"free", "list", "pull", "reviews", "bundle", "files", "replace",
                    "checkpoint", "complete"},
              job : Jobs \cup {None}, cutoff : Time, from : Froms \cup {None},
              kind : Kinds, page : PageNo, next : Nat, batch : SUBSET Listed,
              item : Pulls \cup {None}, version : Time, part : Parts,
              got : SUBSET Parts, done : Time]

Free == [at |-> "free", job |-> None, cutoff |-> 0, from |-> None, kind |-> Pull,
         page |-> 1, next |-> 0, batch |-> {}, item |-> None, version |-> 0,
         part |-> 1, got |-> {}, done |-> 0]

TypeOK ==
  /\ now \in Time \ {0}
  /\ updated \in [Item -> Time]
  /\ job \in [Jobs -> Row]
  /\ lastSynced \in Time
  /\ stored \in [Item -> Time]
  /\ files \in [Pulls -> SUBSET AllFiles]
  /\ runner \in [Runners -> Goroutine]
  /\ missed \in SUBSET Item
  /\ cut \in SUBSET (Lists \X Pulls)
  /\ fails \in 0 .. MaxFails

Init ==
  /\ now = 1
  /\ updated = [x \in Item |-> 0]
  /\ job = [j \in Jobs |-> AbsentRow]
  /\ lastSynced = 0
  /\ stored = [x \in Item |-> 0]
  /\ files = [x \in Pulls |-> {}]
  /\ runner = [g \in Runners |-> Free]
  /\ missed = {}
  /\ cut = {}
  /\ fails = MaxFails

-----------------------------------------------------------------------------
(* GitHub (external), as the client uses it.                                 *)

Exists(x) == updated[x] # 0
Count(k) == Cardinality({x \in Items(k) : Exists(x)})

\* Listings are newest first: a page is cut from the end of 1 .. Count(k).
Page(k, p) == {x \in Items(k) : Exists(x) /\ (Count(k) - x[2]) \div PerPage = p - 1}
NextPage(k, p) == IF p * PerPage < Count(k) THEN p + 1 ELSE 0
Newest(S) == CHOOSE x \in S : \A y \in S : y[2] <= x[2]

Tick ==
  /\ now < MaxTime
  /\ now' = now + 1
  /\ UNCHANGED <<updated, job, lastSynced, stored, files, runner, missed, cut, fails>>

\* A pull request, a workflow run or a deployment is created, or changes.
Change(x) ==
  /\ x[1] # Commits
  /\ \A y \in Items(x[1]) : y[2] < x[2] => Exists(y)
  /\ updated' = [updated EXCEPT ![x] = now]
  /\ missed' = missed \ {x}
  /\ UNCHANGED <<now, job, lastSynced, stored, files, runner, cut, fails>>

\* A commit, whose date is that of its author, is pushed. No run needs to see one
\* that is older than its push.
PushCommit(x, date) ==
  /\ ~Exists(x)
  /\ \A y \in Items(Commits) : y[2] < x[2] => Exists(y)
  /\ updated' = [updated EXCEPT ![x] = date]
  /\ missed' = IF date < now THEN missed \cup {x} ELSE missed
  /\ UNCHANGED <<now, job, lastSynced, stored, files, runner, cut, fails>>

\* A review is submitted: its pull request changes with it.
SubmitReview(y) ==
  /\ Exists(PullOf(y)) /\ ~Exists(y)
  /\ \A z \in Reviews(y) : z[3] < y[3] => Exists(z)
  /\ updated' = [updated EXCEPT ![y] = now, ![PullOf(y)] = now]
  /\ missed' = missed \ {y, PullOf(y)}
  /\ UNCHANGED <<now, job, lastSynced, stored, files, runner, cut, fails>>

-----------------------------------------------------------------------------
(* Requests. Their races are the subject of SyncJobs.                        *)

HasActiveJob == \E j \in Jobs : job[j].status \in {"pending", "running"}

\* Enqueue up to store.Create: the worker may take the job from here on.
Enqueue(j, options) ==
  /\ job[j].status = "absent"
  /\ ~HasActiveJob
  /\ job' = [job EXCEPT ![j] = [AbsentRow EXCEPT !.status = "pending", !.asked = options]]
  /\ UNCHANGED <<now, updated, lastSynced, stored, files, runner, missed, cut, fails>>

\* The two statements of persistSyncOptions.
PersistMode(j) ==
  /\ job[j].status # "absent"
  /\ job[j].mode = None
  /\ job' = [job EXCEPT ![j].mode = job[j].asked.mode]
  /\ UNCHANGED <<now, updated, lastSynced, stored, files, runner, missed, cut, fails>>

PersistFrom(j) ==
  /\ job[j].mode # None
  /\ job[j].from = None
  /\ job[j].asked.from # None
  /\ job' = [job EXCEPT ![j].from = job[j].asked.from]
  /\ UNCHANGED <<now, updated, lastSynced, stored, files, runner, missed, cut, fails>>

\* A webhook's job is inserted with its mode, and beside any other job.
EnqueueWebhookSync(j) ==
  /\ job[j].status = "absent"
  /\ job' = [job EXCEPT ![j] = [AbsentRow EXCEPT
                !.status = "pending", !.mode = "full",
                !.asked = [mode |-> "full", from |-> None]]]
  /\ UNCHANGED <<now, updated, lastSynced, stored, files, runner, missed, cut, fails>>

Retry(j) ==
  /\ job[j].status = "failed"
  /\ ~HasActiveJob
  /\ job' = [job EXCEPT ![j].status = "pending"]
  /\ UNCHANGED <<now, updated, lastSynced, stored, files, runner, missed, cut, fails>>

-----------------------------------------------------------------------------
(* A run.                                                                    *)

At(g, at) == runner[g].at = at
JobOf(g) == job[runner[g].job]

\* A mutated resumePage that answers the zero value.
ResumeAtZero(checkpoint) == IF checkpoint = None THEN 0 ELSE checkpoint

\* resumePage: a checkpoint without a value means the first page.
Resume(checkpoint) == IF checkpoint = None THEN 1 ELSE checkpoint

\* resolveSyncCutoff; 0 stands for none.
Cutoff(row) ==
  IF row.mode = "full" THEN 0
  ELSE IF row.from # None THEN row.from ELSE lastSynced

\* A mutated filter that drops what changed at the cutoff.
IncludeAfter(x, cutoff) == updated[x] > cutoff

\* The includes of service.go: "not before the cutoff".
Include(x, cutoff) == updated[x] >= cutoff

\* loadSyncOptions, MarkRunning, GetRepositoryTarget and the metadata.
Start(g, j) ==
  /\ At(g, "free")
  /\ job[j].status = "pending"
  /\ \A h \in Runners : runner[h].job # j
  /\ job' = [job EXCEPT ![j].status = "running",
                        ![j].first = IF @ = 0 THEN now ELSE @]
  /\ runner' = [runner EXCEPT ![g] =
       [Free EXCEPT !.at = "list", !.job = j, !.cutoff = Cutoff(job[j]),
                    !.from = IF job[j].mode = "full" THEN None ELSE job[j].from,
                    !.page = Resume(job[j].page[Pull])]]
  /\ UNCHANGED <<now, updated, lastSynced, stored, files, missed, cut, fails>>

\* A mutated page loop that moves its checkpoint before it stores the page.
ListPullsCheckpointFirst(g) ==
  LET r == runner[g] IN
  /\ At(g, "list")
  /\ r.kind = Pull
  /\ job' = [job EXCEPT ![r.job].page[Pull] =
               IF NextPage(Pull, r.page) = 0 THEN None ELSE NextPage(Pull, r.page)]
  /\ runner' = [runner EXCEPT
       ![g].at = "pull", ![g].next = NextPage(Pull, r.page),
       ![g].batch = {x \in Page(Pull, r.page) : Include(x, r.cutoff)}]
  /\ UNCHANGED <<now, updated, lastSynced, stored, files, missed, cut, fails>>

\* ListPullRequests, and the items of the page that the cutoff lets through.
ListPulls(g) ==
  LET r == runner[g] IN
  /\ At(g, "list")
  /\ r.kind = Pull
  /\ runner' = [runner EXCEPT
       ![g].at = "pull", ![g].next = NextPage(Pull, r.page),
       ![g].batch = {x \in Page(Pull, r.page) : Include(x, r.cutoff)}]
  /\ UNCHANGED <<now, updated, job, lastSynced, stored, files, missed, cut, fails>>

\* GetPullRequest of the next item, newest first.
GetPull(g) ==
  LET r == runner[g] IN
  /\ At(g, "pull")
  /\ r.batch # {}
  /\ LET x == Newest(r.batch) IN
       runner' = [runner EXCEPT
         ![g].at = "reviews", ![g].item = x, ![g].version = updated[x],
         ![g].batch = @ \ {x}, ![g].got = {},
         ![g].part = Resume(JobOf(g).part["reviews"][x])]
  /\ UNCHANGED <<now, updated, job, lastSynced, stored, files, missed, cut, fails>>

EndPulls(g) ==
  /\ At(g, "pull")
  /\ runner[g].batch = {}
  /\ runner' = [runner EXCEPT ![g].at = "checkpoint"]
  /\ UNCHANGED <<now, updated, job, lastSynced, stored, files, missed, cut, fails>>

\* One page of the reviews or of the files is fetched. Unless it was the last
\* one, the checkpoint moves on; what was fetched so far is in memory only.
FetchPart(g, l, last, got, then) ==
  LET r == runner[g] IN
  /\ job' = [job EXCEPT ![r.job].part[l][r.item] = IF last THEN None ELSE r.part + 1]
  /\ runner' = [runner EXCEPT
       ![g].at = IF last THEN then ELSE @, ![g].part = IF last THEN 1 ELSE @ + 1,
       ![g].got = @ \cup got]
  /\ UNCHANGED <<now, updated, lastSynced, stored, files, missed, cut, fails>>

\* syncReviews, which the cutoff filters too.
FetchReview(g) ==
  LET r == runner[g]
      y == <<Pull, r.item[2], r.part>>
      count == Cardinality({z \in Reviews(r.item) : Exists(z)}) IN
  /\ At(g, "reviews")
  /\ FetchPart(g, "reviews", r.part >= count,
               IF r.part <= count /\ Include(y, r.cutoff) THEN {r.part} ELSE {}, "bundle")

\* UpsertPullRequestBundle: the pull request as fetched, and the reviews at hand
\* added to those there are. Then the files, from their checkpoint.
UpsertBundle(g) ==
  LET r == runner[g] IN
  /\ At(g, "bundle")
  /\ stored' = [x \in Item |-> IF x = r.item THEN r.version
                               ELSE IF x \in Reviews(r.item) /\ x[3] \in r.got THEN updated[x]
                               ELSE stored[x]]
  /\ runner' = [runner EXCEPT
       ![g].at = "files", ![g].got = {},
       ![g].part = Resume(JobOf(g).part["changed_files"][r.item])]
  /\ UNCHANGED <<now, updated, job, lastSynced, files, missed, cut, fails>>

\* A mutated last page of the files that leaves its number in the checkpoint.
FetchFilesKeepsPage(g) ==
  LET r == runner[g] IN
  /\ At(g, "files")
  /\ job' = [job EXCEPT ![r.job].part["changed_files"][r.item] =
               IF r.part = FilePages THEN r.part ELSE r.part + 1]
  /\ runner' = [runner EXCEPT
       ![g].at = IF r.part = FilePages THEN "replace" ELSE @,
       ![g].part = IF r.part = FilePages THEN 1 ELSE @ + 1,
       ![g].got = @ \cup {r.part}]
  /\ UNCHANGED <<now, updated, lastSynced, stored, files, missed, cut, fails>>

\* syncPullRequestFiles.
FetchFiles(g) ==
  /\ At(g, "files")
  /\ FetchPart(g, "changed_files", runner[g].part = FilePages, {runner[g].part}, "replace")

\* ReplacePullRequestFiles: the files at hand instead of those there are.
ReplaceFiles(g) ==
  LET r == runner[g] IN
  /\ At(g, "replace")
  /\ files' = [files EXCEPT ![r.item] = r.got]
  /\ runner' = [runner EXCEPT ![g].at = "pull", ![g].item = None, ![g].version = 0,
                              ![g].got = {}]
  /\ UNCHANGED <<now, updated, job, lastSynced, stored, missed, cut, fails>>

\* A page of commits, workflow runs or deployments: one batch of upserts.
\* Deployments without a status, which the loop skips, are no items here.
SyncEvents(g) ==
  LET r == runner[g]
      batch == {x \in Page(r.kind, r.page) : Include(x, r.cutoff)} IN
  /\ At(g, "list")
  /\ r.kind # Pull
  /\ stored' = [x \in Item |-> IF x \in batch THEN updated[x] ELSE stored[x]]
  /\ runner' = [runner EXCEPT ![g].at = "checkpoint", ![g].next = NextPage(r.kind, r.page)]
  /\ UNCHANGED <<now, updated, job, lastSynced, files, missed, cut, fails>>

\* storeProgressCheckpoint, or completeCheckpoint and the next resource. After
\* the last resource run() reads the clock for last_synced_at.
MoveCheckpoint(g) ==
  LET r == runner[g] IN
  /\ At(g, "checkpoint")
  /\ job' = [job EXCEPT ![r.job].page[r.kind] = IF r.next = 0 THEN None ELSE r.next]
  /\ \/ /\ r.next # 0
        /\ runner' = [runner EXCEPT ![g].at = "list", ![g].page = r.next, ![g].next = 0]
     \/ /\ r.next = 0 /\ r.kind < LastKind
        /\ runner' = [runner EXCEPT
             ![g].at = "list", ![g].kind = r.kind + 1,
             ![g].page = Resume(JobOf(g).page[r.kind + 1])]
     \/ /\ r.next = 0 /\ r.kind = LastKind
        /\ runner' = [runner EXCEPT ![g].at = "complete", ![g].done = now]
  /\ UNCHANGED <<now, updated, lastSynced, stored, files, missed, cut, fails>>

\* What a run that ends at r.done need not have seen: what changed since its
\* job first started, and what "from" passed over.
Unseen(r) ==
  {x \in Item : /\ Exists(x)
                /\ \/ job[r.job].first <= updated[x] /\ updated[x] < r.done
                   \/ r.from # None /\ lastSynced <= updated[x] /\ updated[x] < r.from}

\* store.Complete.
Complete(g) ==
  LET r == runner[g] IN
  /\ At(g, "complete")
  /\ lastSynced' = r.done
  /\ job' = [job EXCEPT ![r.job].status = "completed"]
  /\ missed' = missed \cup Unseen(r)
  /\ runner' = [runner EXCEPT ![g] = Free]
  /\ UNCHANGED <<now, updated, stored, files, cut, fails>>

Fetching == [reviews |-> "reviews", changed_files |-> "files"]

\* An error, a cancellation or a timeout anywhere in the run.
Fail(g) ==
  LET r == runner[g] IN
  /\ ~At(g, "free")
  /\ fails > 0
  /\ fails' = fails - 1
  /\ job' = [job EXCEPT ![r.job].status = "failed"]
  /\ cut' = cut \cup {<<l, r.item>> : l \in {m \in Lists : r.part > 1 /\ At(g, Fetching[m])}}
  /\ runner' = [runner EXCEPT ![g] = Free]
  /\ UNCHANGED <<now, updated, lastSynced, stored, files, missed>>

-----------------------------------------------------------------------------
Next ==
  \/ Tick
  \/ \E x \in Listed : Change(x)
  \/ \E x \in Items(Commits), date \in 1 .. now : PushCommit(x, date)
  \/ \E y \in Review : SubmitReview(y)
  \/ \E j \in Jobs :
       \/ \E options \in Requests : Enqueue(j, options)
       \/ PersistMode(j) \/ PersistFrom(j) \/ EnqueueWebhookSync(j) \/ Retry(j)
  \/ \E g \in Runners :
       \/ \E j \in Jobs : Start(g, j)
       \/ ListPulls(g) \/ GetPull(g) \/ EndPulls(g)
       \/ FetchReview(g) \/ UpsertBundle(g) \/ FetchFiles(g) \/ ReplaceFiles(g)
       \/ SyncEvents(g) \/ MoveCheckpoint(g) \/ Complete(g) \/ Fail(g)

Spec == Init /\ [][Next]_vars
-----------------------------------------------------------------------------
\* A job that started no later than x changed, and has not completed.
Unfinished(j, x) ==
  job[j].status \in {"pending", "running", "failed"} /\ job[j].first \in 1 .. updated[x]

\* A change that last_synced_at says is in the database, and that no run can be
\* excused for: it did not come between the first start of a job and the end of
\* the run that completed it, no job that started before it is unfinished, and no
\* explicit "from" passed it over.
Due(x) ==
  /\ Exists(x) /\ updated[x] < lastSynced
  /\ x \notin missed
  /\ \A j \in Jobs : ~Unfinished(j, x)

\* Every change that is due is in the database. The next incremental run looks at
\* nothing older than last_synced_at, so what is missing then stays missing. It
\* rests on the filter, on storing a page before its checkpoint moves, and on
\* listings that only ever push items to later pages.
DueIsStored == \A x \in Listed : Due(x) => stored[x] = updated[x]

HasItsReviews(x) == \A y \in Reviews(x) : Due(y) => stored[y] = updated[y]
HasItsFiles(x) == files[x] = AllFiles

\* The reviews and the files of such a pull request are in the database, unless a
\* run failed between two pages of them: the page a retried job resumes from is
\* the only one it fetches again.
WholeUnlessCut ==
  \A x \in Pulls : Due(x) =>
    /\ HasItsReviews(x) \/ <<"reviews", x>> \in cut
    /\ HasItsFiles(x) \/ <<"changed_files", x>> \in cut

\* README.md:192, "manual sync persists repository metadata, pull requests,
\* reviews, commits, workflow runs, deployments, and file changes", with
\* docs/05-database-design.dbml:311, a checkpoint allows a sync "to resume without
\* restarting the entire repository sync": a pull request that completed syncs
\* covered has its reviews and files.
ResumedSyncIsWhole == \A x \in Pulls : Due(x) => HasItsReviews(x) /\ HasItsFiles(x)
=============================================================================
