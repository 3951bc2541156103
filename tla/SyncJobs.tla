------------------------------ MODULE SyncJobs ------------------------------
(***************************************************************************)
(* The PostgreSQL-backed sync queue: API requests that enqueue, retry and  *)
(* cancel jobs, webhooks that insert jobs, and the polling worker whose    *)
(* goroutines run them (internal/syncjob, and the insert of                *)
(* internal/githubwebhook).                                                *)
(*                                                                         *)
(* Every database statement that commits on its own is one action: none of *)
(* the UPDATEs of sync_jobs looks at the status it overwrites, so what a   *)
(* request or a goroutine read before is what its write relies on.         *)
(***************************************************************************)
EXTENDS Integers, FiniteSets

CONSTANTS
  Repos,       \* rows of repositories
  Keys,        \* values of the Idempotency-Key header
  Clients,     \* concurrent API requests
  Runners,     \* goroutines of one worker batch; |Runners| is the concurrency
  None,        \* no job, no repository, no key
  MaxJobs,     \* bound: jobs ever inserted
  BatchSize,   \* LIMIT of ListPendingSyncJobs
  MaxPages,    \* bound: units of work (pages, or pull requests) of a resource
  MaxRetries,  \* bound: retries accepted
  MaxFaults    \* bound: timeouts, failed statements and process stops

Jobs == 1 .. MaxJobs   \* ids stand in for created_at: a smaller id is older

ASSUME NoneAssumption == None \notin Jobs \cup Repos \cup Keys
ASSUME BoundsAssumption ==
  /\ MaxJobs \in Nat /\ BatchSize \in Nat
  /\ MaxPages \in Nat \ {0} /\ MaxRetries \in Nat /\ MaxFaults \in Nat

VARIABLES
  job,        \* sync_jobs
  repo,       \* repositories: is it a valid target, and initial_sync_status
  worker,     \* processOnce: between two batches, or the ids still to start
  runner,     \* where each goroutine is in ProcessPending
  client,     \* where each API request is
  published,  \* jobs whose repository.sync.completed event went out
  orphaned,   \* history: left 'running' by a goroutine that ended in a fault
  late,       \* history: units persisted for a job while it is canceled
  budget      \* what is left of MaxRetries and MaxFaults

vars == <<job, repo, worker, runner, client, published, orphaned, late, budget>>

Active == {"pending", "running"}
Status == Active \cup {"completed", "failed", "canceled"}

\* The four resources of run(), in order. The percentage stored between them is
\* left out: its UPDATE writes neither status nor anything that is read back.
Stages == 1 .. 4
LastStage == 4

Row == [status : Status \cup {"absent"},
        repo   : Repos \cup {None},
        key    : Keys \cup {None}]

AbsentRow == [status |-> "absent", repo |-> None, key |-> None]

RepoRow == [target : BOOLEAN,
            sync   : {"selected", "syncing", "synced", "sync_failed"}]

\* Positions of a goroutine before MarkRunning, and after it.
Waiting == {"load", "check", "mark"}
Working == {"target", "checkTarget", "metadata", "enter", "page", "fetch",
            "publish", "complete", "fail", "failRepo"}
Goroutine == [at : {"free"} \cup Waiting \cup Working, job : Jobs \cup {None},
              stage : Stages, page : 1 .. MaxPages]
Free == [at |-> "free", job |-> None, stage |-> 1, page |-> 1]

Request == [at   : {"idle", "create", "conflict", "created",
                    "retry", "retried", "cancel", "canceled"},
            job  : Jobs \cup {None},
            repo : Repos \cup {None},
            key  : Keys \cup {None}]
Idle == [at |-> "idle", job |-> None, repo |-> None, key |-> None]

TypeOK ==
  /\ job \in [Jobs -> Row]
  /\ repo \in [Repos -> RepoRow]
  /\ worker \in [phase : {"idle", "batch"}, batch : SUBSET Jobs]
  /\ runner \in [Runners -> Goroutine]
  /\ client \in [Clients -> Request]
  /\ published \in SUBSET Jobs
  /\ orphaned \in SUBSET Jobs
  /\ late \in [Jobs -> Nat]
  /\ budget \in [retries : 0 .. MaxRetries, faults : 0 .. MaxFaults]

Init ==
  /\ job = [j \in Jobs |-> AbsentRow]
  /\ repo = [r \in Repos |-> [target |-> TRUE, sync |-> "selected"]]
  /\ worker = [phase |-> "idle", batch |-> {}]
  /\ runner = [g \in Runners |-> Free]
  /\ client = [c \in Clients |-> Idle]
  /\ published = {}
  /\ orphaned = {}
  /\ late = [j \in Jobs |-> 0]
  /\ budget = [retries |-> MaxRetries, faults |-> MaxFaults]

HasActiveJob(r) == \E j \in Jobs : job[j].repo = r /\ job[j].status \in Active

\* j is the id the next INSERT gets.
NextId(j) ==
  /\ job[j].status = "absent"
  /\ \A k \in Jobs : k < j => job[k].status # "absent"

\* One UPDATE of sync_jobs or of repositories, each by primary key. The count of
\* units persisted while canceled starts again with every status.
SetStatus(j, status) ==
  /\ job' = [job EXCEPT ![j].status = status]
  /\ late' = [late EXCEPT ![j] = 0]
SetSync(r, sync) == repo' = [repo EXCEPT ![r].sync = sync]

ClientAt(c, at) == client[c].at = at
Continue(c, at) == client' = [client EXCEPT ![c].at = at]
Return(c) == client' = [client EXCEPT ![c] = Idle]

-----------------------------------------------------------------------------
(* API requests. Each ends in Idle; one whose connection closes stops       *)
(* between two statements (Abandon).                                        *)

\* Enqueue up to HasActiveJob: the target is valid and no job is active.
EnqueueChecked(c, r, k) ==
  /\ ClientAt(c, "idle")
  /\ repo[r].target
  /\ ~HasActiveJob(r)
  /\ client' = [client EXCEPT ![c] = [at |-> "create", job |-> None, repo |-> r,
                                      key |-> k]]
  /\ UNCHANGED <<job, repo, worker, runner, published, orphaned, late, budget>>

\* Enqueue that answers 409: the repository has an active job. (A request without
\* a key that is answered so leaves nothing to look at.)
EnqueueConflict(c, r, k) ==
  /\ ClientAt(c, "idle")
  /\ repo[r].target
  /\ HasActiveJob(r)
  /\ client' = [client EXCEPT ![c] = [at |-> "conflict", job |-> None, repo |-> r,
                                      key |-> k]]
  /\ UNCHANGED <<job, repo, worker, runner, published, orphaned, late, budget>>

\* store.Create: the job that holds the key already, whatever its status and its
\* repository, or a new pending row. The unique index on the key, and the lookup
\* after a failed insert, make two creations with one key agree on one row.
Create(c) ==
  /\ ClientAt(c, "create")
  /\ \/ \E j \in Jobs :
          /\ client[c].key # None /\ job[j].key = client[c].key
          /\ Return(c)
          /\ UNCHANGED job
     \/ /\ client[c].key = None \/ \A j \in Jobs : job[j].key # client[c].key
        /\ \E j \in Jobs :
             /\ NextId(j)
             /\ job' = [job EXCEPT ![j] =
                          [status |-> "pending", repo |-> client[c].repo,
                           key |-> client[c].key]]
             /\ Continue(c, "created")
  /\ UNCHANGED <<repo, worker, runner, published, orphaned, late, budget>>

\* The second statement of store.Create, then persistSyncOptions, which writes
\* sync_checkpoints only.
MarkSyncing(c) ==
  /\ ClientAt(c, "created")
  /\ SetSync(client[c].repo, "syncing")
  /\ Return(c)
  /\ UNCHANGED <<job, worker, runner, published, orphaned, late, budget>>

\* Retry up to its write: the job is failed and no job of the repository active.
RetryChecked(c, j) ==
  /\ ClientAt(c, "idle")
  /\ job[j].status = "failed"
  /\ ~HasActiveJob(job[j].repo)
  /\ client' = [client EXCEPT ![c] = [at |-> "retry", job |-> j,
                                      repo |-> job[j].repo, key |-> None]]
  /\ UNCHANGED <<job, repo, worker, runner, published, orphaned, late, budget>>

Retry(c) ==
  LET j == client[c].job IN
  /\ ClientAt(c, "retry")
  /\ budget.retries > 0
  /\ budget' = [budget EXCEPT !.retries = @ - 1]
  /\ SetStatus(j, "pending")
  /\ orphaned' = orphaned \ {j}
  /\ Continue(c, "retried")
  /\ UNCHANGED <<repo, worker, runner, published>>

\* The second statement of store.Retry.
MarkRetrySyncing(c) ==
  /\ ClientAt(c, "retried")
  /\ SetSync(client[c].repo, "syncing")
  /\ Return(c)
  /\ UNCHANGED <<job, worker, runner, published, orphaned, late, budget>>

\* Cancel up to its write; Disconnect reaches it for every active job.
CancelChecked(c, j) ==
  /\ ClientAt(c, "idle")
  /\ job[j].status \in Active
  /\ client' = [client EXCEPT ![c] = [at |-> "cancel", job |-> j,
                                      repo |-> job[j].repo, key |-> None]]
  /\ UNCHANGED <<job, repo, worker, runner, published, orphaned, late, budget>>

\* The status constant of a mutated Cancel is spelled the British way.
CancelMisspelled(c) ==
  /\ ClientAt(c, "cancel")
  /\ SetStatus(client[c].job, "cancelled")
  /\ Continue(c, "canceled")
  /\ UNCHANGED <<repo, worker, runner, published, orphaned, budget>>

\* A second cancellation of a job changes nothing.
Cancel(c) ==
  LET j == client[c].job IN
  /\ ClientAt(c, "cancel")
  /\ IF job[j].status = "canceled" THEN UNCHANGED <<job, late>> ELSE SetStatus(j, "canceled")
  /\ orphaned' = orphaned \ {j}
  /\ Continue(c, "canceled")
  /\ UNCHANGED <<repo, worker, runner, published, budget>>

\* The second statement of store.Cancel.
MarkSelected(c) ==
  /\ ClientAt(c, "canceled")
  /\ SetSync(client[c].repo, "selected")
  /\ Return(c)
  /\ UNCHANGED <<job, worker, runner, published, orphaned, late, budget>>

\* The request context ends (or the 409 is written): no further statement runs.
Abandon(c) ==
  /\ ~ClientAt(c, "idle")
  /\ Return(c)
  /\ UNCHANGED <<job, repo, worker, runner, published, orphaned, late, budget>>

-----------------------------------------------------------------------------
(* Other writers: webhooks, and what makes a repository a valid target.      *)

\* EnqueueWebhookSync: one transaction that looks neither at the jobs there are
\* nor at the installation; is_active was read before it.
EnqueueWebhookSync(r) ==
  /\ \E j \in Jobs :
       /\ NextId(j)
       /\ job' = [job EXCEPT ![j] = [status |-> "pending", repo |-> r, key |-> None]]
  /\ UNCHANGED <<repo, worker, runner, client, published, orphaned, late, budget>>

\* The repository is deactivated or its installation disconnected, or either
\* is undone: validateRepositoryTarget answers differently from here on.
ToggleTarget(r) ==
  /\ repo' = [repo EXCEPT ![r].target = ~@]
  /\ UNCHANGED <<job, worker, runner, client, published, orphaned, late, budget>>

-----------------------------------------------------------------------------
(* The worker: one batch at a time, its ids started oldest first.            *)

Pending == {j \in Jobs : job[j].status = "pending"}
Oldest(S, n) == {j \in S : Cardinality({k \in S : k < j}) < n}
AllFree == \A g \in Runners : runner[g].at = "free"

\* A mutated processOnce that does not wait for its goroutines.
ListPendingIDsEagerly ==
  /\ worker' = [phase |-> "batch", batch |-> Oldest(Pending, BatchSize)]
  /\ UNCHANGED <<job, repo, runner, client, published, orphaned, late, budget>>

ListPendingIDs ==
  /\ worker.phase = "idle"
  /\ worker' = [phase |-> "batch", batch |-> Oldest(Pending, BatchSize)]
  /\ UNCHANGED <<job, repo, runner, client, published, orphaned, late, budget>>

\* The semaphore has room: the goroutine of the next id starts.
StartJob(g) ==
  /\ worker.phase = "batch"
  /\ runner[g].at = "free"
  /\ \E j \in worker.batch :
       /\ \A k \in worker.batch : j <= k
       /\ worker' = [worker EXCEPT !.batch = @ \ {j}]
       /\ runner' = [runner EXCEPT ![g] = [at |-> "load", job |-> j, stage |-> 1, page |-> 1]]
  /\ UNCHANGED <<job, repo, client, published, orphaned, late, budget>>

\* wg.Wait() returns; the next iteration starts at the next tick.
BatchDone ==
  /\ worker.phase = "batch"
  /\ worker.batch = {}
  /\ AllFree
  /\ worker' = [worker EXCEPT !.phase = "idle"]
  /\ UNCHANGED <<job, repo, runner, client, published, orphaned, late, budget>>

-----------------------------------------------------------------------------
(* A goroutine in ProcessPending and run().                                  *)

At(g, at) == runner[g].at = at
Goto(g, at) == runner' = [runner EXCEPT ![g].at = at]
Reach(g, at, stage, page) ==
  runner' = [runner EXCEPT ![g] = [at |-> at, job |-> runner[g].job,
                                   stage |-> stage, page |-> page]]
Finish(g) == runner' = [runner EXCEPT ![g] = Free]
JobOf(g) == job[runner[g].job]

\* A mutated early return that keeps its slot of the semaphore.
LoadJobKeepsSlot(g) ==
  /\ At(g, "load")
  /\ JobOf(g).status = "pending"
  /\ Goto(g, "check")
  /\ UNCHANGED <<job, repo, worker, client, published, orphaned, late, budget>>

\* ProcessPending reads the job: a job that is not pending any more is left alone.
LoadJob(g) ==
  /\ At(g, "load")
  /\ IF JobOf(g).status = "pending" THEN Goto(g, "check") ELSE Finish(g)
  /\ UNCHANGED <<job, repo, worker, client, published, orphaned, late, budget>>

\* ensureNotCanceled of run(): a canceled job ends the run without a write.
EnsureNotCanceled(g, from, to) ==
  /\ At(g, from)
  /\ IF JobOf(g).status = "canceled" THEN Finish(g) ELSE Goto(g, to)
  /\ UNCHANGED <<job, repo, worker, client, published, orphaned, late, budget>>

CheckBeforeStart(g)    == EnsureNotCanceled(g, "check", "mark")
CheckBeforeMetadata(g) == EnsureNotCanceled(g, "checkTarget", "metadata")

MarkRunning(g) ==
  /\ At(g, "mark")
  /\ SetStatus(runner[g].job, "running")
  /\ Goto(g, "target")
  /\ UNCHANGED <<repo, worker, client, published, orphaned, budget>>

\* GetRepositoryTarget and validateRepositoryTarget, once more.
LoadTarget(g) ==
  /\ At(g, "target")
  /\ Goto(g, IF repo[JobOf(g).repo].target THEN "checkTarget" ELSE "fail")
  /\ UNCHANGED <<job, repo, worker, client, published, orphaned, late, budget>>

\* GetRepository, SyncRepositoryMetadata and progress 25.
SyncMetadata(g) ==
  /\ At(g, "metadata")
  /\ Goto(g, "enter")
  /\ UNCHANGED <<job, repo, worker, client, published, orphaned, late, budget>>

\* run() looks for a cancellation before pull requests and before commits only.
EnterStage(g) ==
  /\ At(g, "enter")
  /\ IF runner[g].stage <= 2 /\ JobOf(g).status = "canceled"
     THEN Finish(g)
     ELSE Goto(g, "page")
  /\ UNCHANGED <<job, repo, worker, client, published, orphaned, late, budget>>

\* A mutated page loop without its cancellation check.
CheckPageNever(g) ==
  /\ At(g, "page")
  /\ Goto(g, "fetch")
  /\ UNCHANGED <<job, repo, worker, client, published, orphaned, late, budget>>

\* ensureNotCanceled inside a page loop: its error goes to failJob like any other.
CheckPage(g) ==
  /\ At(g, "page")
  /\ Goto(g, IF JobOf(g).status = "canceled" THEN "fail" ELSE "fetch")
  /\ UNCHANGED <<job, repo, worker, client, published, orphaned, late, budget>>

\* One unit between two checks: fetched, persisted, checkpoint moved. The last
\* unit of a resource ends it, and stores the progress.
PersistPage(g) ==
  LET j == runner[g].job IN
  /\ At(g, "fetch")
  /\ late' = IF job[j].status = "canceled" THEN [late EXCEPT ![j] = @ + 1] ELSE late
  /\ \/ /\ runner[g].page < MaxPages
        /\ Reach(g, "page", runner[g].stage, runner[g].page + 1)
     \/ /\ runner[g].stage < LastStage
        /\ Reach(g, "enter", runner[g].stage + 1, 1)
     \/ runner[g].stage = LastStage /\ Goto(g, "publish")
  /\ UNCHANGED <<job, repo, worker, client, published, orphaned, budget>>

\* A mutated run() that completes the job whatever the publisher answers.
PublishBestEffort(g) ==
  /\ At(g, "publish")
  /\ \/ published' = published \cup {runner[g].job}
     \/ UNCHANGED published
  /\ Goto(g, "complete")
  /\ UNCHANGED <<job, repo, worker, client, orphaned, late, budget>>

\* PublishRepositorySyncCompleted, before the job completes: every publisher of
\* the composite accepts it, or one fails with or without the event being out.
Publish(g) ==
  /\ At(g, "publish")
  /\ \/ /\ published' = published \cup {runner[g].job}
        /\ Goto(g, "complete") \/ Goto(g, "fail")
     \/ /\ Goto(g, "fail")
        /\ UNCHANGED published
  /\ UNCHANGED <<job, repo, worker, client, orphaned, late, budget>>

\* One transaction: last_synced_at, initial_sync_status and the job.
Complete(g) ==
  LET j == runner[g].job IN
  /\ At(g, "complete")
  /\ SetStatus(j, "completed")
  /\ SetSync(job[j].repo, "synced")
  /\ Finish(g)
  /\ UNCHANGED <<worker, client, published, orphaned, budget>>

\* A GitHub or database error in run() that is handed to failJob.
StepFails(g) ==
  /\ runner[g].at \in {"target", "metadata", "page", "fetch"}
  /\ Goto(g, "fail")
  /\ UNCHANGED <<job, repo, worker, client, published, orphaned, late, budget>>

\* A mutated failJob that logs the error and does not store it.
MarkFailedLogOnly(g) ==
  /\ At(g, "fail")
  /\ Finish(g)
  /\ UNCHANGED <<job, repo, worker, client, published, orphaned, late, budget>>

\* The first statement of store.MarkFailed.
MarkFailed(g) ==
  /\ At(g, "fail")
  /\ SetStatus(runner[g].job, "failed")
  /\ Goto(g, "failRepo")
  /\ UNCHANGED <<repo, worker, client, published, orphaned, budget>>

\* Its second statement.
MarkRepositoryFailed(g) ==
  /\ At(g, "failRepo")
  /\ SetSync(JobOf(g).repo, "sync_failed")
  /\ Finish(g)
  /\ UNCHANGED <<job, worker, client, published, orphaned, late, budget>>

-----------------------------------------------------------------------------
(* Faults. jobTimeout cancels the context failJob itself writes with, and an *)
(* error of UpdateProgress, Complete or MarkFailed is only returned.         *)

LeftRunning(gs) == {runner[g].job : g \in {h \in gs : /\ ~At(h, "free")
                                                      /\ JobOf(h).status = "running"}}

Fault == budget.faults > 0 /\ budget' = [budget EXCEPT !.faults = @ - 1]

\* A goroutine ends without a further write.
LoseRunner(g) ==
  /\ ~At(g, "free")
  /\ Fault
  /\ orphaned' = orphaned \cup LeftRunning({g})
  /\ Finish(g)
  /\ UNCHANGED <<job, repo, worker, client, published, late>>

\* The process stops, and starts again: close() waits for no goroutine.
Restart ==
  /\ Fault
  /\ orphaned' = orphaned \cup LeftRunning(Runners)
  /\ runner' = [g \in Runners |-> Free]
  /\ worker' = [phase |-> "idle", batch |-> {}]
  /\ client' = [c \in Clients |-> Idle]
  /\ UNCHANGED <<job, repo, published, late>>

-----------------------------------------------------------------------------
ClientStep(c) ==
  \/ \E r \in Repos, k \in Keys \cup {None} : EnqueueChecked(c, r, k)
  \/ \E r \in Repos, k \in Keys : EnqueueConflict(c, r, k)
  \/ \E j \in Jobs : RetryChecked(c, j) \/ CancelChecked(c, j)
  \/ Create(c) \/ MarkSyncing(c)
  \/ Retry(c) \/ MarkRetrySyncing(c)
  \/ Cancel(c) \/ MarkSelected(c)
  \/ Abandon(c)

RunnerStep(g) ==
  \/ LoadJob(g) \/ CheckBeforeStart(g) \/ MarkRunning(g)
  \/ LoadTarget(g) \/ CheckBeforeMetadata(g) \/ SyncMetadata(g)
  \/ EnterStage(g) \/ CheckPage(g) \/ PersistPage(g)
  \/ Publish(g) \/ Complete(g)
  \/ StepFails(g) \/ MarkFailed(g) \/ MarkRepositoryFailed(g)

Next ==
  \/ \E c \in Clients : ClientStep(c)
  \/ \E r \in Repos : EnqueueWebhookSync(r) \/ ToggleTarget(r)
  \/ ListPendingIDs
  \/ \E g \in Runners : StartJob(g) \/ RunnerStep(g) \/ LoseRunner(g)
  \/ BatchDone
  \/ Restart

Spec == Init /\ [][Next]_vars

\* The worker's loop and its goroutines run; requests, webhooks and faults may
\* stop for ever.
Fairness ==
  /\ WF_vars(ListPendingIDs) /\ WF_vars(BatchDone)
  /\ \A g \in Runners : WF_vars(StartJob(g)) /\ WF_vars(RunnerStep(g))

FairSpec == Spec /\ Fairness
-----------------------------------------------------------------------------
(* Safety.                                                                   *)

Held(j) == \E g \in Runners : runner[g].job = j

\* No job is ever run by two goroutines at once. Nothing in the database says
\* who runs a job: it holds because processOnce waits for the goroutines of a
\* batch before it lists again, whatever is retried and canceled meanwhile.
NoDoubleRun ==
  \A g, h \in Runners : g # h /\ runner[g].job # None => runner[g].job # runner[h].job

\* A job that reads 'running' has a goroutine at work on it, unless that one
\* ended in a fault: every other way out of run() stores another status first.
\* It matters because a job left 'running' blocks its repository (HasActiveJob).
RunningHasRunner ==
  \A j \in Jobs : job[j].status = "running" => Held(j) \/ j \in orphaned

\* A job that reads 'completed' has had its event published, also when it
\* was retried or canceled by a request that had read it long before.
CompletedWasPublished ==
  \A j \in Jobs : job[j].status = "completed" => j \in published

\* From the moment a job reads 'canceled', at most the unit in flight is still
\* persisted: the page loops look at the status before each unit.
CancelIsPrompt == \A j \in Jobs : late[j] <= 1

\* A completed job changes only by a request (retry, cancel): no goroutine
\* writes its own verdict over the 'completed' of another.
CompletedOnlyChangedByRequest ==
  [][\A j \in Jobs : job[j].status = "completed" =>
       job'[j].status \in {"completed", "pending", "canceled"}]_vars

(* Liveness.                                                                 *)

Settled(j) == job[j].status \in {"completed", "failed", "canceled"} \/ j \in orphaned

\* Every job that is waiting or running reaches a final status, or is left
\* 'running' by a fault: the LIMIT of the listing and the jobs retried in front
\* of it hold a job up only as long as there are retries.
EveryJobSettles ==
  \A j \in Jobs : job[j].status \in Active ~> Settled(j)

(* What the documentation says and the code does not do.                     *)

\* docs/03-backend-roadmap.md:202, "repository-scoped mutual exclusion".
OneActivePerRepository ==
  \A r \in Repos : Cardinality({j \in Jobs : job[j].repo = r /\ job[j].status \in Active}) <= 1

\* docs/openapi.yaml:947 and 953, "Cancel a pending or running synchronization
\* job", "Sync job canceled": only a retry takes a job out of 'canceled'.
CancelIsFinal ==
  [][\A j \in Jobs : job[j].status = "canceled" => job'[j].status \in {"canceled", "pending"}]_vars
=============================================================================
