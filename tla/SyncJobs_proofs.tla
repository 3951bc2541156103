-------------------------- MODULE SyncJobs_proofs ---------------------------
(***************************************************************************)
(* Proofs, for every number of repositories, keys, requests, goroutines,   *)
(* jobs, retries and faults, of what the runs of SyncJobs check.           *)
(***************************************************************************)
EXTENDS SyncJobs, TLAPS

-----------------------------------------------------------------------------
(* The inductive invariant, part by part.                                    *)

\* A goroutine has a job exactly while it is not free.
RunnerHasJob == \A g \in Runners : runner[g].at = "free" <=> runner[g].job = None

\* A row that exists names its repository; what a request is about to write to
\* exists.
RowsExist ==
  /\ \A j \in Jobs : job[j].status # "absent" => job[j].repo \in Repos
  /\ \A c \in Clients :
       /\ client[c].at \in {"retry", "cancel"} =>
            client[c].job \in Jobs /\ job[client[c].job].status # "absent"
       /\ client[c].at # "idle" => client[c].repo \in Repos

\* Between two batches nothing is listed and nothing runs, and a listed job has
\* not been started: this is wg.Wait().
BatchApart ==
  /\ worker.phase = "idle" => worker.batch = {} /\ AllFree
  /\ \A j \in worker.batch : ~Held(j)

\* Listed jobs and jobs in hand exist and are not completed.
InHand(j) == j \in worker.batch \/ Held(j)
InHandOpen == \A j \in Jobs : InHand(j) => job[j].status \notin {"absent", "completed"}

\* A job is not 'running' before its goroutine says so, nor after it failed.
NotStarted ==
  /\ \A j \in worker.batch : job[j].status # "running"
  /\ \A g \in Runners :
       runner[g].at \in Waiting \cup {"failRepo"} => job[runner[g].job].status # "running"

PublishedFirst == \A g \in Runners : runner[g].at = "complete" => runner[g].job \in published

\* The count is 0 unless the job is canceled, and 0 while a unit is in flight.
LateCounts ==
  /\ \A j \in Jobs : late[j] # 0 => late[j] = 1 /\ job[j].status = "canceled"
  /\ \A g \in Runners : runner[g].at = "fetch" => late[runner[g].job] = 0

IInv ==
  /\ TypeOK /\ RunnerHasJob /\ RowsExist
  /\ NoDoubleRun /\ BatchApart /\ InHandOpen /\ NotStarted
  /\ RunningHasRunner
  /\ PublishedFirst /\ CompletedWasPublished
  /\ LateCounts

-----------------------------------------------------------------------------
(* What the helpers of the actions do to the types.                          *)

LEMMA GotoType ==
  ASSUME TypeOK, NEW g \in Runners, NEW to \in {"free"} \cup Waiting \cup Working, Goto(g, to)
  PROVE  /\ runner' \in [Runners -> Goroutine]
         /\ runner'[g] = [runner[g] EXCEPT !.at = to]
         /\ runner'[g].at = to /\ runner'[g].job = runner[g].job
         /\ \A h \in Runners \ {g} : runner'[h] = runner[h]
  BY SMT DEF TypeOK, Goto, Goroutine

LEMMA FinishType ==
  ASSUME TypeOK, NEW g \in Runners, Finish(g)
  PROVE  /\ runner' \in [Runners -> Goroutine]
         /\ runner'[g].at = "free" /\ runner'[g].job = None
         /\ \A h \in Runners \ {g} : runner'[h] = runner[h]
<1>1. Free \in Goroutine
  BY BoundsAssumption, SMT DEF Free, Goroutine, Stages
<1> QED
  BY <1>1, SMT DEF TypeOK, Finish, Free

LEMMA SetStatusType ==
  ASSUME TypeOK, NEW j \in Jobs, NEW status \in Status, SetStatus(j, status)
  PROVE  /\ job' \in [Jobs -> Row] /\ late' \in [Jobs -> Nat]
         /\ job'[j].status = status /\ job'[j].repo = job[j].repo /\ late'[j] = 0
         /\ \A k \in Jobs \ {j} : job'[k] = job[k] /\ late'[k] = late[k]
  BY SMT DEF TypeOK, SetStatus, Row

LEMMA SetSyncType ==
  ASSUME TypeOK, NEW r \in Repos, NEW sync \in {"selected", "syncing", "synced", "sync_failed"},
         SetSync(r, sync)
  PROVE  repo' \in [Repos -> RepoRow]
<1>1. repo[r] \in RepoRow
  BY DEF TypeOK
<1>2. [repo[r] EXCEPT !.sync = sync] \in RepoRow
  BY <1>1, SMT DEF RepoRow
<1> QED
  BY <1>2, Zenon DEF TypeOK, SetSync

LEMMA ContinueType ==
  ASSUME TypeOK, NEW c \in Clients, NEW to \in {"created", "retried", "canceled"},
         Continue(c, to)
  PROVE  /\ client' \in [Clients -> Request]
         /\ client'[c].at = to /\ client'[c].repo = client[c].repo
         /\ \A d \in Clients \ {c} : client'[d] = client[d]
  BY SMT DEF TypeOK, Continue, Request

LEMMA ReturnType ==
  ASSUME TypeOK, NEW c \in Clients, Return(c)
  PROVE  /\ client' \in [Clients -> Request]
         /\ client'[c].at = "idle"
         /\ \A d \in Clients \ {c} : client'[d] = client[d]
<1>1. Idle \in Request
  BY SMT DEF Idle, Request
<1> QED
  BY <1>1, SMT DEF TypeOK, Return, Idle

-----------------------------------------------------------------------------
LEMMA InitIInv == Init => IInv
  BY NoneAssumption, BoundsAssumption, SMT
     DEF Init, IInv, TypeOK, RunnerHasJob, RowsExist, NoDoubleRun, BatchApart,
         InHandOpen, InHand, NotStarted, RunningHasRunner, PublishedFirst,
         CompletedWasPublished, LateCounts, Row, RepoRow, AbsentRow, Free, Idle,
         Goroutine, Request, Waiting, Working, Stages, Status, Active, AllFree,
         Held, Jobs

\* A step that leaves the jobs and the worker alone keeps the invariant if it
\* keeps the types and what requests rely on.
LEMMA RequestFrame ==
  ASSUME IInv, TypeOK', RowsExist',
         UNCHANGED <<job, worker, runner, published, orphaned, late>>
  PROVE  IInv'
  BY DEF IInv, RunnerHasJob, NoDoubleRun, BatchApart, InHandOpen, InHand, NotStarted,
         RunningHasRunner, PublishedFirst, CompletedWasPublished, LateCounts,
         AllFree, Held

\* A goroutine that moves on with its job, and writes none.
LEMMA MoveFrame ==
  ASSUME IInv, NEW g \in Runners, NEW to \in Waiting \cup Working,
         runner[g].at # "free",
         runner' \in [Runners -> Goroutine],
         runner'[g].at = to, runner'[g].job = runner[g].job,
         \A h \in Runners \ {g} : runner'[h] = runner[h],
         published \subseteq published', published' \in SUBSET Jobs,
         to \in Waiting \cup {"failRepo"} => JobOf(g).status # "running",
         to = "complete" => runner[g].job \in published',
         to = "fetch" => late[runner[g].job] = 0,
         UNCHANGED <<job, repo, worker, client, orphaned, late, budget>>
  PROVE  IInv'
<1>1. \A h \in Runners : runner'[h].job = runner[h].job
  OBVIOUS
<1>2. \A j \in Jobs : Held(j)' <=> Held(j)
  BY <1>1 DEF Held
<1>3. TypeOK' /\ RowsExist'
  BY DEF IInv, TypeOK, RowsExist
<1>4. RunnerHasJob' /\ NoDoubleRun'
  BY <1>1, SMT DEF IInv, RunnerHasJob, NoDoubleRun, Waiting, Working
<1>5. BatchApart' /\ InHandOpen' /\ RunningHasRunner'
  BY <1>2, SMT DEF IInv, TypeOK, BatchApart, AllFree, InHandOpen, InHand, RunningHasRunner
<1>6. NotStarted'
  BY <1>1, SMT DEF IInv, NotStarted, JobOf
<1>7. PublishedFirst' /\ CompletedWasPublished'
  BY <1>1, SMT DEF IInv, PublishedFirst, CompletedWasPublished
<1>8. LateCounts'
  BY <1>1, SMT DEF IInv, LateCounts
<1> QED
  BY <1>3, <1>4, <1>5, <1>6, <1>7, <1>8 DEF IInv

\* A goroutine that ends, its job not 'running' or known to be left so.
LEMMA EndFrame ==
  ASSUME IInv, NEW g \in Runners, runner[g].at # "free", Finish(g),
         repo' \in [Repos -> RepoRow],
         budget' \in [retries : 0 .. MaxRetries, faults : 0 .. MaxFaults],
         orphaned \subseteq orphaned', orphaned' \in SUBSET Jobs,
         JobOf(g).status = "running" => runner[g].job \in orphaned',
         UNCHANGED <<job, worker, client, published, late>>
  PROVE  IInv'
<1>1. /\ runner' \in [Runners -> Goroutine]
      /\ runner'[g].at = "free" /\ runner'[g].job = None
      /\ \A h \in Runners \ {g} : runner'[h] = runner[h]
  BY FinishType DEF IInv
<1>2. \A j \in Jobs : Held(j)' => Held(j)
  BY <1>1, NoneAssumption DEF Held
<1>3. TypeOK' /\ RowsExist'
  BY <1>1 DEF IInv, TypeOK, RowsExist
<1>4. RunnerHasJob' /\ NoDoubleRun'
  BY <1>1, SMT DEF IInv, RunnerHasJob, NoDoubleRun
<1>5. BatchApart' /\ InHandOpen'
  BY <1>1, <1>2, SMT DEF IInv, TypeOK, BatchApart, AllFree, InHandOpen, InHand
<1>6. RunningHasRunner'
  BY <1>1, NoneAssumption, SMT DEF IInv, RunningHasRunner, Held, JobOf
<1>7. NotStarted'
  BY <1>1, SMT DEF IInv, NotStarted, Waiting
<1>8. PublishedFirst' /\ CompletedWasPublished' /\ LateCounts'
  BY <1>1, SMT DEF IInv, PublishedFirst, CompletedWasPublished, LateCounts
<1> QED
  BY <1>3, <1>4, <1>5, <1>6, <1>7, <1>8 DEF IInv

-----------------------------------------------------------------------------
(* Requests and other writers.                                               *)

LEMMA EnqueueStep ==
  ASSUME IInv, NEW c \in Clients, NEW r \in Repos, NEW k \in Keys \cup {None},
         EnqueueChecked(c, r, k) \/ EnqueueConflict(c, r, k)
  PROVE  IInv'
<1>1. TypeOK'
  BY SMT DEF IInv, TypeOK, EnqueueChecked, EnqueueConflict, Request
<1>2. RowsExist'
  BY SMT DEF IInv, TypeOK, RowsExist, EnqueueChecked, EnqueueConflict
<1> QED
  BY <1>1, <1>2, RequestFrame DEF EnqueueChecked, EnqueueConflict

LEMMA CheckedStep ==
  ASSUME IInv, NEW c \in Clients, NEW j \in Jobs, RetryChecked(c, j) \/ CancelChecked(c, j)
  PROVE  IInv'
<1>1. job[j].status # "absent" /\ job[j].repo \in Repos
  BY SMT DEF IInv, RowsExist, RetryChecked, CancelChecked, Active
<1>2. \E at \in {"retry", "cancel"} :
        client' = [client EXCEPT ![c] = [at |-> at, job |-> j, repo |-> job[j].repo, key |-> None]]
  BY SMT DEF RetryChecked, CancelChecked
<1>3. UNCHANGED <<job, repo, worker, runner, published, orphaned, late, budget>>
  BY DEF RetryChecked, CancelChecked
<1>4. TypeOK'
  BY <1>1, <1>2, <1>3, SMT DEF IInv, TypeOK, Request
<1>5. RowsExist'
  BY <1>1, <1>2, <1>3, SMT DEF IInv, TypeOK, RowsExist
<1> QED
  BY <1>3, <1>4, <1>5, RequestFrame

LEMMA ReturnStep ==
  ASSUME IInv, NEW c \in Clients,
         MarkSyncing(c) \/ MarkRetrySyncing(c) \/ MarkSelected(c) \/ Abandon(c)
  PROVE  IInv'
<1>1. /\ Return(c)
      /\ UNCHANGED <<job, worker, runner, published, orphaned, late, budget>>
  BY DEF MarkSyncing, MarkRetrySyncing, MarkSelected, Abandon
<1>2. repo' \in [Repos -> RepoRow]
  <2>1. CASE Abandon(c)
    BY <2>1 DEF Abandon, IInv, TypeOK
  <2>2. CASE ~Abandon(c)
    <3>1. client[c].repo \in Repos
      BY <2>2, SMT DEF IInv, RowsExist, MarkSyncing, MarkRetrySyncing, MarkSelected, ClientAt
    <3> QED
      BY <2>2, <3>1, SetSyncType DEF IInv, MarkSyncing, MarkRetrySyncing, MarkSelected
  <2> QED
    BY <2>1, <2>2
<1>3. /\ client' \in [Clients -> Request]
      /\ client'[c].at = "idle"
      /\ \A d \in Clients \ {c} : client'[d] = client[d]
  BY <1>1, ReturnType DEF IInv
<1>4. TypeOK'
  BY <1>1, <1>2, <1>3 DEF IInv, TypeOK
<1>5. RowsExist'
  BY <1>1, <1>3, SMT DEF IInv, RowsExist
<1> QED
  BY <1>1, <1>4, <1>5, RequestFrame

LEMMA ToggleTargetStep ==
  ASSUME IInv, NEW r \in Repos, ToggleTarget(r)
  PROVE  IInv'
<1>1. [repo[r] EXCEPT !.target = ~@] \in RepoRow
  BY Zenon DEF IInv, TypeOK, RepoRow
<1>2. repo' \in [Repos -> RepoRow]
  BY <1>1, Zenon DEF ToggleTarget, IInv, TypeOK
<1>3. TypeOK' /\ RowsExist'
  BY <1>2 DEF ToggleTarget, IInv, TypeOK, RowsExist
<1> QED
  BY <1>3, RequestFrame DEF ToggleTarget

\* A request's UPDATE of a job that may by now be in any status, also in hand.
LEMMA OverwriteFrame ==
  ASSUME IInv, NEW j \in Jobs, NEW status \in {"pending", "canceled"},
         SetStatus(j, status), TypeOK', RowsExist',
         orphaned' = orphaned \ {j},
         UNCHANGED <<repo, worker, runner, published>>
  PROVE  IInv'
<1>1. /\ job'[j].status = status /\ late'[j] = 0
      /\ \A k \in Jobs \ {j} : job'[k] = job[k] /\ late'[k] = late[k]
  BY SetStatusType DEF IInv, Status, Active
<1>2. RunnerHasJob' /\ NoDoubleRun' /\ BatchApart' /\ PublishedFirst'
  BY DEF IInv, RunnerHasJob, NoDoubleRun, BatchApart, AllFree, Held, PublishedFirst
<1>3. InHandOpen'
  BY <1>1, SMT DEF IInv, InHandOpen, InHand, Held
<1>4. NotStarted'
  BY <1>1, NoneAssumption, SMT DEF IInv, TypeOK, Goroutine, RunnerHasJob, NotStarted, Waiting
<1>5. RunningHasRunner' /\ CompletedWasPublished'
  BY <1>1, SMT DEF IInv, RunningHasRunner, CompletedWasPublished, Held
<1>6. LateCounts'
  BY <1>1, SMT DEF IInv, TypeOK, Goroutine, RunnerHasJob, LateCounts
<1> QED
  BY <1>2, <1>3, <1>4, <1>5, <1>6 DEF IInv

LEMMA RetryStep ==
  ASSUME IInv, NEW c \in Clients, Retry(c)
  PROVE  IInv'
<1> DEFINE j == client[c].job
<1>1. j \in Jobs /\ job[j].status # "absent" /\ client[c].repo \in Repos
  BY SMT DEF IInv, RowsExist, Retry, ClientAt
<1>2. SetStatus(j, "pending") /\ Continue(c, "retried")
  BY DEF Retry
<1>3. /\ job' \in [Jobs -> Row] /\ late' \in [Jobs -> Nat]
      /\ job'[j].repo = job[j].repo
      /\ \A k \in Jobs \ {j} : job'[k] = job[k]
  BY <1>1, <1>2, SetStatusType DEF IInv, Status, Active
<1>4. /\ client' \in [Clients -> Request]
      /\ client'[c].at = "retried" /\ client'[c].repo = client[c].repo
      /\ \A d \in Clients \ {c} : client'[d] = client[d]
  BY <1>2, ContinueType DEF IInv
<1>5. UNCHANGED <<repo, worker, runner, published>> /\ orphaned' = orphaned \ {j}
  BY DEF Retry
<1>6. budget' \in [retries : 0 .. MaxRetries, faults : 0 .. MaxFaults]
  BY BoundsAssumption, SMT DEF IInv, TypeOK, Retry
<1>7. job'[j].status = "pending"
  BY <1>1, <1>2, SetStatusType DEF IInv, Status, Active
<1> HIDE DEF j
<1>8. TypeOK'
  BY <1>3, <1>4, <1>5, <1>6 DEF IInv, TypeOK
<1>9. RowsExist'
  BY <1>1, <1>3, <1>4, <1>7, SMT DEF IInv, TypeOK, RowsExist
<1> QED
  BY <1>1, <1>2, <1>5, <1>8, <1>9, OverwriteFrame

LEMMA CancelStep ==
  ASSUME IInv, NEW c \in Clients, Cancel(c)
  PROVE  IInv'
<1> DEFINE j == client[c].job
<1>1. j \in Jobs /\ job[j].status # "absent" /\ client[c].repo \in Repos
  BY SMT DEF IInv, RowsExist, Cancel, ClientAt
<1>2. /\ client' \in [Clients -> Request]
      /\ client'[c].at = "canceled" /\ client'[c].repo = client[c].repo
      /\ \A d \in Clients \ {c} : client'[d] = client[d]
  BY ContinueType DEF IInv, Cancel
<1>3. /\ UNCHANGED <<repo, worker, runner, published, budget>>
      /\ orphaned' = orphaned \ {j}
  BY DEF Cancel
<1>4. CASE job[j].status = "canceled"
  <2>1. UNCHANGED <<job, late>>
    BY <1>4 DEF Cancel
  <2>2. TypeOK' /\ RowsExist'
    <3>1. TypeOK'
      BY <1>2, <1>3, <2>1 DEF IInv, TypeOK
    <3>2. RowsExist'
      BY <1>1, <1>2, <2>1, SMT DEF IInv, RowsExist
    <3> QED
      BY <3>1, <3>2
  <2>3. RunningHasRunner'
    BY <1>3, <1>4, <2>1, SMT DEF IInv, RunningHasRunner, Held
  <2> QED
    BY <1>3, <2>1, <2>2, <2>3
       DEF IInv, RunnerHasJob, NoDoubleRun, BatchApart, InHandOpen, InHand, NotStarted,
           PublishedFirst, CompletedWasPublished, LateCounts, AllFree, Held
<1>5. CASE job[j].status # "canceled"
  <2>1. SetStatus(j, "canceled")
    BY <1>5 DEF Cancel
  <2>2. /\ job' \in [Jobs -> Row] /\ late' \in [Jobs -> Nat]
        /\ job'[j].status = "canceled" /\ job'[j].repo = job[j].repo
        /\ \A k \in Jobs \ {j} : job'[k] = job[k]
    BY <1>1, <2>1, SetStatusType DEF IInv, Status, Active
  <2> HIDE DEF j
  <2>3. TypeOK'
    BY <1>2, <1>3, <2>2 DEF IInv, TypeOK
  <2>4. RowsExist'
    BY <1>1, <1>2, <2>2, SMT DEF IInv, TypeOK, RowsExist
  <2> QED
    BY <1>1, <1>3, <2>1, <2>3, <2>4, OverwriteFrame
<1> QED
  BY <1>4, <1>5

\* A new row: no goroutine and no batch knows it yet.
LEMMA InsertFrame ==
  ASSUME IInv, NEW j \in Jobs, NEW r \in Repos, NEW k \in Keys \cup {None},
         job[j].status = "absent",
         job' = [job EXCEPT ![j] = [status |-> "pending", repo |-> r, key |-> k]],
         client' \in [Clients -> Request],
         UNCHANGED <<repo, worker, runner, published, orphaned, late, budget>>,
         RowsExist'
  PROVE  IInv'
<1>1. [status |-> "pending", repo |-> r, key |-> k] \in Row
  BY SMT DEF Row, Status, Active
<1>2. /\ job' \in [Jobs -> Row] /\ job'[j].status = "pending"
      /\ \A i \in Jobs \ {j} : job'[i] = job[i]
  BY <1>1, SMT DEF IInv, TypeOK
<1>3. TypeOK'
  BY <1>2 DEF IInv, TypeOK
<1>4. ~InHand(j)
  BY DEF IInv, InHandOpen
<1>5. RunnerHasJob' /\ NoDoubleRun' /\ BatchApart' /\ PublishedFirst'
  BY DEF IInv, RunnerHasJob, NoDoubleRun, BatchApart, AllFree, Held, PublishedFirst
<1>6. InHandOpen'
  BY <1>2, SMT DEF IInv, InHandOpen, InHand, Held
<1>7. NotStarted'
  BY <1>2, NoneAssumption, SMT DEF IInv, TypeOK, Goroutine, RunnerHasJob, NotStarted, Waiting
<1>8. RunningHasRunner' /\ CompletedWasPublished'
  BY <1>2, SMT DEF IInv, RunningHasRunner, CompletedWasPublished, Held
<1>9. LateCounts'
  BY <1>2, SMT DEF IInv, LateCounts
<1> QED
  BY <1>3, <1>5, <1>6, <1>7, <1>8, <1>9 DEF IInv

LEMMA CreateStep ==
  ASSUME IInv, NEW c \in Clients, Create(c)
  PROVE  IInv'
<1>1. client[c].repo \in Repos /\ client[c].key \in Keys \cup {None}
  BY SMT DEF IInv, TypeOK, Request, RowsExist, Create, ClientAt
<1>2. CASE Return(c) /\ UNCHANGED job
  <2>1. UNCHANGED <<job, repo, worker, runner, published, orphaned, late, budget>>
    BY <1>2 DEF Create
  <2>2. /\ client' \in [Clients -> Request]
        /\ client'[c].at = "idle"
        /\ \A d \in Clients \ {c} : client'[d] = client[d]
    BY <1>2, ReturnType DEF IInv
  <2>3. TypeOK'
    BY <2>1, <2>2 DEF IInv, TypeOK
  <2>4. RowsExist'
    BY <2>1, <2>2, SMT DEF IInv, RowsExist
  <2> QED
    BY <2>1, <2>3, <2>4, RequestFrame
<1>3. CASE ~(Return(c) /\ UNCHANGED job)
  <2>1. PICK j \in Jobs :
          /\ NextId(j)
          /\ job' = [job EXCEPT ![j] = [status |-> "pending", repo |-> client[c].repo,
                                       key |-> client[c].key]]
          /\ Continue(c, "created")
    BY <1>3 DEF Create
  <2>2. UNCHANGED <<repo, worker, runner, published, orphaned, late, budget>>
    BY DEF Create
  <2>3. /\ client' \in [Clients -> Request]
        /\ client'[c].at = "created" /\ client'[c].repo = client[c].repo
        /\ \A d \in Clients \ {c} : client'[d] = client[d]
    BY <2>1, ContinueType DEF IInv
  <2>4. job[j].status = "absent"
    BY <2>1 DEF NextId
  <2>5. RowsExist'
    BY <1>1, <2>1, <2>3, SMT DEF IInv, TypeOK, RowsExist
  <2> QED
    BY <1>1, <2>1, <2>2, <2>3, <2>4, <2>5, InsertFrame
<1> QED
  BY <1>2, <1>3

LEMMA EnqueueWebhookSyncStep ==
  ASSUME IInv, NEW r \in Repos, EnqueueWebhookSync(r)
  PROVE  IInv'
<1>1. PICK j \in Jobs :
        /\ NextId(j)
        /\ job' = [job EXCEPT ![j] = [status |-> "pending", repo |-> r, key |-> None]]
  BY DEF EnqueueWebhookSync
<1>2. UNCHANGED <<repo, worker, runner, client, published, orphaned, late, budget>>
  BY DEF EnqueueWebhookSync
<1>3. job[j].status = "absent" /\ client' \in [Clients -> Request]
  BY <1>1, <1>2 DEF NextId, IInv, TypeOK
<1>4. RowsExist'
  BY <1>1, <1>2, SMT DEF IInv, TypeOK, RowsExist
<1> QED
  BY <1>1, <1>2, <1>3, <1>4, InsertFrame

-----------------------------------------------------------------------------
(* The worker.                                                               *)

LEMMA ListPendingIDsStep ==
  ASSUME IInv, ListPendingIDs
  PROVE  IInv'
<1>1. /\ AllFree /\ worker'.phase = "batch"
      /\ UNCHANGED <<job, repo, runner, client, published, orphaned, late, budget>>
  BY DEF IInv, BatchApart, ListPendingIDs
<1>2. worker'.batch \in SUBSET Jobs /\ \A j \in worker'.batch : job[j].status = "pending"
  BY SMT DEF ListPendingIDs, Oldest, Pending
<1>3. worker' \in [phase : {"idle", "batch"}, batch : SUBSET Jobs]
  BY <1>2, SMT DEF ListPendingIDs
<1>4. \A j \in Jobs : ~Held(j)
  BY <1>1, NoneAssumption DEF IInv, RunnerHasJob, AllFree, Held
<1>5. TypeOK' /\ RowsExist' /\ RunnerHasJob' /\ NoDoubleRun'
  BY <1>1, <1>3 DEF IInv, TypeOK, RowsExist, RunnerHasJob, NoDoubleRun
<1>6. BatchApart'
  BY <1>1, <1>2, <1>4, SMT DEF BatchApart, Held
<1>7. InHandOpen'
  BY <1>1, <1>2, <1>4, SMT DEF InHandOpen, InHand, Held
<1>8. NotStarted'
  BY <1>1, <1>2, SMT DEF IInv, NotStarted
<1>9. RunningHasRunner' /\ PublishedFirst' /\ CompletedWasPublished' /\ LateCounts'
  BY <1>1 DEF IInv, RunningHasRunner, Held, PublishedFirst, CompletedWasPublished, LateCounts
<1> QED
  BY <1>5, <1>6, <1>7, <1>8, <1>9 DEF IInv

LEMMA StartJobStep ==
  ASSUME IInv, NEW g \in Runners, StartJob(g)
  PROVE  IInv'
<1>1. PICK j \in worker.batch :
        /\ worker' = [worker EXCEPT !.batch = @ \ {j}]
        /\ runner' = [runner EXCEPT ![g] = [at |-> "load", job |-> j, stage |-> 1, page |-> 1]]
  BY DEF StartJob
<1>2. /\ worker.phase = "batch" /\ runner[g].at = "free" /\ runner[g].job = None
      /\ UNCHANGED <<job, repo, client, published, orphaned, late, budget>>
  BY DEF StartJob, IInv, RunnerHasJob
<1>3. j \in Jobs /\ ~Held(j) /\ job[j].status \notin {"absent", "completed", "running"}
  BY SMT DEF IInv, TypeOK, BatchApart, InHandOpen, InHand, NotStarted
<1>4. [at |-> "load", job |-> j, stage |-> 1, page |-> 1] \in Goroutine
  BY <1>3, BoundsAssumption, SMT DEF Free, Goroutine, Stages, Waiting
<1>5. /\ runner' \in [Runners -> Goroutine]
      /\ runner'[g].at = "load" /\ runner'[g].job = j
      /\ \A h \in Runners \ {g} : runner'[h] = runner[h]
  BY <1>1, <1>4, SMT DEF IInv, TypeOK, Free
<1>6. /\ worker' \in [phase : {"idle", "batch"}, batch : SUBSET Jobs]
      /\ worker'.phase = "batch" /\ worker'.batch = worker.batch \ {j}
  BY <1>1, <1>2, SMT DEF IInv, TypeOK
<1>7. TypeOK' /\ RowsExist'
  BY <1>2, <1>5, <1>6 DEF IInv, TypeOK, RowsExist
<1>8. RunnerHasJob' /\ NoDoubleRun'
  BY <1>3, <1>5, NoneAssumption, SMT DEF IInv, RunnerHasJob, NoDoubleRun, Held
<1>9. BatchApart'
  BY <1>3, <1>5, <1>6, SMT DEF IInv, BatchApart, Held
<1>10. InHandOpen'
  BY <1>2, <1>3, <1>5, <1>6, SMT DEF IInv, InHandOpen, InHand, Held
<1>11. NotStarted'
  BY <1>2, <1>3, <1>5, <1>6, SMT DEF IInv, NotStarted
<1>12. RunningHasRunner'
  BY <1>2, <1>5, NoneAssumption, SMT DEF IInv, RunningHasRunner, Held
<1>13. PublishedFirst' /\ CompletedWasPublished' /\ LateCounts'
  BY <1>2, <1>5, SMT DEF IInv, PublishedFirst, CompletedWasPublished, LateCounts
<1> QED
  BY <1>7, <1>8, <1>9, <1>10, <1>11, <1>12, <1>13 DEF IInv

LEMMA BatchDoneStep ==
  ASSUME IInv, BatchDone
  PROVE  IInv'
<1>1. /\ AllFree /\ worker'.phase = "idle" /\ worker'.batch = {} /\ worker.batch = {}
      /\ worker' \in [phase : {"idle", "batch"}, batch : SUBSET Jobs]
      /\ UNCHANGED <<job, repo, runner, client, published, orphaned, late, budget>>
  BY SMT DEF IInv, TypeOK, BatchDone
<1> QED
  BY <1>1 DEF IInv, TypeOK, RowsExist, RunnerHasJob, NoDoubleRun, BatchApart, AllFree,
              InHandOpen, InHand, NotStarted, RunningHasRunner, Held, PublishedFirst,
              CompletedWasPublished, LateCounts

-----------------------------------------------------------------------------
(* The goroutines.                                                           *)

\* Any step of a goroutine that only goes on to a position from which it has
\* nothing to answer for.
LEMMA GotoStep ==
  ASSUME IInv, NEW g \in Runners, runner[g].at # "free",
         NEW to \in (Waiting \cup Working) \ {"failRepo", "complete", "fetch"},
         Goto(g, to),
         to \in Waiting => JobOf(g).status # "running",
         published \subseteq published', published' \in SUBSET Jobs,
         UNCHANGED <<job, repo, worker, client, orphaned, late, budget>>
  PROVE  IInv'
<1>1. /\ runner' \in [Runners -> Goroutine]
      /\ runner'[g].at = to /\ runner'[g].job = runner[g].job
      /\ \A h \in Runners \ {g} : runner'[h] = runner[h]
  BY GotoType DEF IInv
<1> QED
  BY <1>1, MoveFrame

LEMMA FinishStep ==
  ASSUME IInv, NEW g \in Runners, runner[g].at # "free", Finish(g),
         JobOf(g).status # "running",
         UNCHANGED <<job, repo, worker, client, published, orphaned, late, budget>>
  PROVE  IInv'
  BY EndFrame DEF IInv, TypeOK

LEMMA LoadJobStep ==
  ASSUME IInv, NEW g \in Runners, LoadJob(g)
  PROVE  IInv'
<1>1. /\ runner[g].at = "load" /\ runner[g].at # "free" /\ JobOf(g).status # "running"
      /\ UNCHANGED <<job, repo, worker, client, published, orphaned, late, budget>>
  BY SMT DEF LoadJob, At, IInv, NotStarted, Waiting, JobOf
<1>2. CASE Goto(g, "check")
  BY <1>1, <1>2, GotoStep DEF Waiting, Working, IInv, TypeOK
<1>3. CASE Finish(g)
  BY <1>1, <1>3, FinishStep
<1> QED
  BY <1>2, <1>3 DEF LoadJob

LEMMA EnsureNotCanceledStep ==
  ASSUME IInv, NEW g \in Runners, CheckBeforeStart(g) \/ CheckBeforeMetadata(g)
  PROVE  IInv'
<1>1. /\ runner[g].at # "free"
      /\ UNCHANGED <<job, repo, worker, client, published, orphaned, late, budget>>
  BY SMT DEF CheckBeforeStart, CheckBeforeMetadata, EnsureNotCanceled, At
<1>2. CASE JobOf(g).status = "canceled"
  <2>1. Finish(g)
    BY <1>2 DEF CheckBeforeStart, CheckBeforeMetadata, EnsureNotCanceled
  <2> QED
    BY <1>1, <1>2, <2>1, FinishStep
<1>3. CASE JobOf(g).status # "canceled" /\ CheckBeforeStart(g)
  <2>1. Goto(g, "mark") /\ JobOf(g).status # "running"
    BY <1>3, SMT DEF CheckBeforeStart, EnsureNotCanceled, At, IInv, NotStarted, Waiting, JobOf
  <2> QED
    BY <1>1, <2>1, GotoStep DEF Waiting, Working, IInv, TypeOK
<1>4. CASE JobOf(g).status # "canceled" /\ CheckBeforeMetadata(g)
  <2>1. Goto(g, "metadata")
    BY <1>4 DEF CheckBeforeMetadata, EnsureNotCanceled
  <2> QED
    BY <1>1, <2>1, GotoStep DEF Waiting, Working, IInv, TypeOK
<1> QED
  BY <1>2, <1>3, <1>4

LEMMA ForwardStep ==
  ASSUME IInv, NEW g \in Runners, LoadTarget(g) \/ SyncMetadata(g) \/ StepFails(g)
  PROVE  IInv'
<1>1. /\ runner[g].at # "free"
      /\ UNCHANGED <<job, repo, worker, client, published, orphaned, late, budget>>
  BY SMT DEF LoadTarget, SyncMetadata, StepFails, At
<1>2. \E to \in {"checkTarget", "fail", "enter"} : Goto(g, to)
  BY DEF LoadTarget, SyncMetadata, StepFails
<1> QED
  BY <1>1, <1>2, GotoStep DEF Waiting, Working, IInv, TypeOK

LEMMA EnterStageStep ==
  ASSUME IInv, NEW g \in Runners, EnterStage(g)
  PROVE  IInv'
<1>1. /\ runner[g].at # "free"
      /\ UNCHANGED <<job, repo, worker, client, published, orphaned, late, budget>>
  BY SMT DEF EnterStage, At
<1>2. CASE Goto(g, "page")
  BY <1>1, <1>2, GotoStep DEF Waiting, Working, IInv, TypeOK
<1>3. CASE JobOf(g).status = "canceled" /\ Finish(g)
  BY <1>1, <1>3, FinishStep
<1> QED
  BY <1>2, <1>3 DEF EnterStage

LEMMA CheckPageStep ==
  ASSUME IInv, NEW g \in Runners, CheckPage(g)
  PROVE  IInv'
<1>1. /\ runner[g].at = "page" /\ runner[g].at # "free"
      /\ UNCHANGED <<job, repo, worker, client, published, orphaned, late, budget>>
  BY DEF CheckPage, At
<1>2. CASE JobOf(g).status = "canceled"
  <2>1. Goto(g, "fail")
    BY <1>2 DEF CheckPage
  <2> QED
    BY <1>1, <2>1, GotoStep DEF Waiting, Working, IInv, TypeOK
<1>3. CASE JobOf(g).status # "canceled"
  <2>1. Goto(g, "fetch")
    BY <1>3 DEF CheckPage
  <2>2. /\ runner' \in [Runners -> Goroutine]
        /\ runner'[g].at = "fetch" /\ runner'[g].job = runner[g].job
        /\ \A h \in Runners \ {g} : runner'[h] = runner[h]
    BY <2>1, GotoType DEF IInv, Working
  <2>3. runner[g].job \in Jobs
    BY <1>1, SMT DEF IInv, TypeOK, Goroutine, RunnerHasJob
  <2>4. late[runner[g].job] = 0
    BY <1>3, <2>3 DEF IInv, LateCounts, JobOf
  <2>5. published' \in SUBSET Jobs
    BY <1>1 DEF IInv, TypeOK
  <2> QED
    BY <1>1, <2>2, <2>4, <2>5, MoveFrame DEF Waiting, Working
<1> QED
  BY <1>2, <1>3

\* The unit in flight when a cancellation lands is the last one: the step may
\* count it, and leaves the position at which the count has to be 0.
LEMMA PersistPageStep ==
  ASSUME IInv, NEW g \in Runners, PersistPage(g)
  PROVE  IInv'
<1> DEFINE j == runner[g].job
<1>1. /\ runner[g].at = "fetch" /\ j \in Jobs /\ late[j] = 0
      /\ UNCHANGED <<job, repo, worker, client, published, orphaned, budget>>
  BY SMT DEF PersistPage, At, IInv, TypeOK, Goroutine, RunnerHasJob, LateCounts
<1>2. /\ late' \in [Jobs -> Nat] /\ \A k \in Jobs \ {j} : late'[k] = late[k]
      /\ late'[j] # 0 => late'[j] = 1 /\ job[j].status = "canceled"
  BY <1>1, SMT DEF PersistPage, IInv, TypeOK
<1>3. /\ runner' \in [Runners -> Goroutine]
      /\ runner'[g].at \in {"page", "enter", "publish"} /\ runner'[g].job = j
      /\ \A h \in Runners \ {g} : runner'[h] = runner[h]
  <2>1. runner[g].stage \in 1 .. 4 /\ runner[g].page \in 1 .. MaxPages
    BY SMT DEF IInv, TypeOK, Goroutine, Stages
  <2>2. CASE runner[g].page < MaxPages /\ Reach(g, "page", runner[g].stage, runner[g].page + 1)
    <3>1. [at |-> "page", job |-> j, stage |-> runner[g].stage, page |-> runner[g].page + 1] \in Goroutine
      BY <1>1, <2>1, <2>2, BoundsAssumption, SMT DEF Goroutine, Stages, Working
    <3> QED
      BY <2>2, <3>1, SMT DEF Reach, IInv, TypeOK
  <2>3. CASE runner[g].stage < LastStage /\ Reach(g, "enter", runner[g].stage + 1, 1)
    <3>1. [at |-> "enter", job |-> j, stage |-> runner[g].stage + 1, page |-> 1] \in Goroutine
      BY <1>1, <2>1, <2>3, BoundsAssumption, SMT DEF Goroutine, Stages, Working, LastStage
    <3> QED
      BY <2>3, <3>1, SMT DEF Reach, IInv, TypeOK
  <2>4. CASE Goto(g, "publish")
    BY <2>4, GotoType DEF IInv, Working
  <2> QED
    BY <2>2, <2>3, <2>4 DEF PersistPage
<1> HIDE DEF j
<1>4. \A h \in Runners : runner'[h].job = runner[h].job
  BY <1>3 DEF j
<1>5. TypeOK' /\ RowsExist'
  BY <1>1, <1>2, <1>3 DEF IInv, TypeOK, RowsExist
<1>6. RunnerHasJob' /\ NoDoubleRun'
  BY <1>1, <1>3, <1>4, NoneAssumption, SMT DEF IInv, RunnerHasJob, NoDoubleRun
<1>7. \A k : Held(k)' <=> Held(k)
  BY <1>4 DEF Held
<1>8. InHandOpen' /\ RunningHasRunner'
  BY <1>1, <1>7 DEF IInv, InHandOpen, InHand, RunningHasRunner
<1>9. BatchApart'
  BY <1>1, <1>3, <1>7, SMT DEF IInv, BatchApart, AllFree
<1>10. NotStarted'
  BY <1>1, <1>3, SMT DEF IInv, NotStarted, Waiting
<1>11. PublishedFirst' /\ CompletedWasPublished'
  BY <1>1, <1>3, SMT DEF IInv, PublishedFirst, CompletedWasPublished
<1>12. \A h \in Runners \ {g} : runner[h].at = "fetch" => runner[h].job # j
  BY <1>1, NoneAssumption DEF IInv, NoDoubleRun, j
<1>13. LateCounts'
  <2>1. \A k \in Jobs : late'[k] # 0 => late'[k] = 1 /\ job'[k].status = "canceled"
    BY <1>1, <1>2, SMT DEF IInv, LateCounts
  <2>2. \A h \in Runners : runner'[h].at = "fetch" => late'[runner'[h].job] = 0
    BY <1>2, <1>3, <1>12, SMT DEF IInv, TypeOK, Goroutine, RunnerHasJob, LateCounts
  <2> QED
    BY <2>1, <2>2 DEF LateCounts
<1> QED
  BY <1>5, <1>6, <1>8, <1>9, <1>10, <1>11, <1>13 DEF IInv

LEMMA PublishStep ==
  ASSUME IInv, NEW g \in Runners, Publish(g)
  PROVE  IInv'
<1>1. /\ runner[g].at = "publish" /\ runner[g].at # "free"
      /\ UNCHANGED <<job, repo, worker, client, orphaned, late, budget>>
  BY DEF Publish, At
<1>2. runner[g].job \in Jobs /\ published \in SUBSET Jobs
  BY <1>1, SMT DEF IInv, TypeOK, Goroutine, RunnerHasJob
<1>3. published \subseteq published' /\ published' \in SUBSET Jobs
  BY <1>2 DEF Publish
<1>4. CASE Goto(g, "fail")
  BY <1>1, <1>3, <1>4, GotoStep DEF Waiting, Working
<1>5. CASE published' = published \cup {runner[g].job} /\ Goto(g, "complete")
  <2>1. /\ runner' \in [Runners -> Goroutine]
        /\ runner'[g].at = "complete" /\ runner'[g].job = runner[g].job
        /\ \A h \in Runners \ {g} : runner'[h] = runner[h]
    BY <1>5, GotoType DEF IInv, Working
  <2>2. runner[g].job \in published'
    BY <1>5
  <2> QED
    BY <1>1, <1>3, <2>1, <2>2, MoveFrame DEF Waiting, Working
<1> QED
  BY <1>4, <1>5 DEF Publish

LEMMA MarkRepositoryFailedStep ==
  ASSUME IInv, NEW g \in Runners, MarkRepositoryFailed(g)
  PROVE  IInv'
<1>1. /\ runner[g].at = "failRepo" /\ runner[g].at # "free" /\ Finish(g)
      /\ SetSync(JobOf(g).repo, "sync_failed")
      /\ UNCHANGED <<job, worker, client, published, orphaned, late, budget>>
  BY DEF MarkRepositoryFailed, At
<1>2. JobOf(g).repo \in Repos /\ JobOf(g).status # "running"
  BY <1>1, SMT DEF IInv, TypeOK, Goroutine, RunnerHasJob, RowsExist, InHandOpen, InHand, Held,
                   NotStarted, JobOf
<1>3. repo' \in [Repos -> RepoRow]
  BY <1>1, <1>2, SetSyncType DEF IInv
<1> QED
  BY <1>1, <1>2, <1>3, EndFrame DEF IInv, TypeOK

\* The two verdicts a goroutine stores and goes on with its job.
LEMMA VerdictFrame ==
  ASSUME IInv, NEW g \in Runners, runner[g].at # "free", JobOf(g).status # "absent",
         NEW status \in {"running", "failed"}, NEW to \in {"target", "failRepo"},
         status = "running" => to = "target",
         SetStatus(runner[g].job, status), Goto(g, to),
         UNCHANGED <<repo, worker, client, published, orphaned, budget>>
  PROVE  IInv'
<1> DEFINE j == runner[g].job
<1>1. j \in Jobs /\ j # None
  BY NoneAssumption, SMT DEF IInv, TypeOK, Goroutine, RunnerHasJob
<1>2. /\ job' \in [Jobs -> Row] /\ late' \in [Jobs -> Nat]
      /\ job'[j].status = status /\ job'[j].repo = job[j].repo /\ late'[j] = 0
      /\ \A k \in Jobs \ {j} : job'[k] = job[k] /\ late'[k] = late[k]
  BY <1>1, SetStatusType DEF IInv, Status, Active
<1>3. /\ runner' \in [Runners -> Goroutine]
      /\ runner'[g].at = to /\ runner'[g].job = j
      /\ \A h \in Runners \ {g} : runner'[h] = runner[h]
  BY GotoType DEF IInv, Working
<1>4. job[j].status # "absent" /\ Held(j) /\ j \notin worker.batch
  BY <1>1 DEF JobOf, IInv, BatchApart, Held
<1>5. \A h \in Runners \ {g} : runner[h].job # j
  BY <1>1 DEF IInv, NoDoubleRun
<1> HIDE DEF j
<1>6. \A h \in Runners : runner'[h].job = runner[h].job
  BY <1>3 DEF j
<1>7. \A k : Held(k)' <=> Held(k)
  BY <1>6 DEF Held
<1>8. TypeOK'
  BY <1>2, <1>3 DEF IInv, TypeOK
<1>9. RowsExist'
  BY <1>1, <1>2, <1>4, SMT DEF IInv, TypeOK, RowsExist
<1>10. RunnerHasJob' /\ NoDoubleRun'
  BY <1>1, <1>3, <1>6, SMT DEF IInv, RunnerHasJob, NoDoubleRun
<1>11. BatchApart'
  BY <1>3, <1>4, <1>7, SMT DEF IInv, BatchApart, AllFree, Held, j
<1>12. InHandOpen'
  BY <1>2, <1>7, SMT DEF IInv, InHandOpen, InHand
<1>13. NotStarted'
  <2>1. \A k \in worker'.batch : job'[k].status # "running"
    BY <1>2, <1>4, SMT DEF IInv, TypeOK, NotStarted
  <2>2. \A h \in Runners : runner'[h].at \in Waiting \cup {"failRepo"} =>
           job'[runner'[h].job].status # "running"
    BY <1>2, <1>3, <1>5, NoneAssumption, SMT
       DEF IInv, TypeOK, Goroutine, RunnerHasJob, NotStarted, Waiting
  <2> QED
    BY <2>1, <2>2 DEF NotStarted
<1>14. RunningHasRunner'
  BY <1>2, <1>4, <1>7, SMT DEF IInv, RunningHasRunner
<1>15. PublishedFirst' /\ CompletedWasPublished'
  BY <1>2, <1>3, SMT DEF IInv, PublishedFirst, CompletedWasPublished
<1>16. LateCounts'
  <2>1. \A k \in Jobs : late'[k] # 0 => late'[k] = 1 /\ job'[k].status = "canceled"
    BY <1>2, SMT DEF IInv, LateCounts
  <2>2. \A h \in Runners : runner'[h].at = "fetch" => late'[runner'[h].job] = 0
    BY <1>2, <1>3, <1>5, SMT DEF IInv, TypeOK, Goroutine, RunnerHasJob, LateCounts
  <2> QED
    BY <2>1, <2>2 DEF LateCounts
<1> QED
  BY <1>8, <1>9, <1>10, <1>11, <1>12, <1>13, <1>14, <1>15, <1>16 DEF IInv

LEMMA MarkStep ==
  ASSUME IInv, NEW g \in Runners, MarkRunning(g) \/ MarkFailed(g)
  PROVE  IInv'
<1>1. runner[g].at # "free"
  BY SMT DEF MarkRunning, MarkFailed, At
<1>2. JobOf(g).status # "absent"
  BY <1>1, SMT DEF IInv, TypeOK, Goroutine, RunnerHasJob, InHandOpen, InHand, Held, JobOf
<1> QED
  BY <1>1, <1>2, VerdictFrame DEF MarkRunning, MarkFailed

LEMMA CompleteStep ==
  ASSUME IInv, NEW g \in Runners, Complete(g)
  PROVE  IInv'
<1> DEFINE j == runner[g].job
<1>1. /\ runner[g].at = "complete" /\ SetStatus(j, "completed") /\ Finish(g)
      /\ SetSync(job[j].repo, "synced")
      /\ UNCHANGED <<worker, client, published, orphaned, budget>>
  BY DEF Complete, At
<1>2. j \in Jobs /\ j # None /\ j \in published
  BY <1>1, NoneAssumption, SMT DEF IInv, TypeOK, Goroutine, RunnerHasJob, PublishedFirst
<1>3. job[j].status # "absent" /\ job[j].repo \in Repos /\ j \notin worker.batch
  BY <1>2, SMT DEF IInv, InHandOpen, InHand, Held, RowsExist, BatchApart
<1>4. /\ job' \in [Jobs -> Row] /\ late' \in [Jobs -> Nat]
      /\ job'[j].status = "completed" /\ job'[j].repo = job[j].repo /\ late'[j] = 0
      /\ \A k \in Jobs \ {j} : job'[k] = job[k] /\ late'[k] = late[k]
  BY <1>1, <1>2, SetStatusType DEF IInv, Status
<1>5. /\ runner' \in [Runners -> Goroutine]
      /\ runner'[g].at = "free" /\ runner'[g].job = None
      /\ \A h \in Runners \ {g} : runner'[h] = runner[h]
  BY <1>1, FinishType DEF IInv
<1>6. repo' \in [Repos -> RepoRow]
  BY <1>1, <1>3, SetSyncType DEF IInv
<1>7. \A h \in Runners \ {g} : runner[h].job # j
  BY <1>2 DEF IInv, NoDoubleRun
<1> HIDE DEF j
<1>8. \A k \in Jobs : Held(k)' <=> Held(k) /\ k # j
  BY <1>5, <1>7, NoneAssumption, SMT DEF Held, j
<1>9. TypeOK'
  BY <1>1, <1>4, <1>5, <1>6 DEF IInv, TypeOK
<1>10. RowsExist'
  BY <1>1, <1>2, <1>3, <1>4, SMT DEF IInv, TypeOK, RowsExist
<1>11. RunnerHasJob' /\ NoDoubleRun'
  BY <1>5, SMT DEF IInv, RunnerHasJob, NoDoubleRun
<1>12. BatchApart'
  BY <1>1, <1>5, <1>8, SMT DEF IInv, TypeOK, BatchApart, AllFree
<1>13. InHandOpen'
  BY <1>1, <1>3, <1>4, <1>8, SMT DEF IInv, InHandOpen, InHand
<1>13a. \A h \in Runners : runner'[h].at # "free" =>
          h # g /\ runner'[h] = runner[h] /\ runner[h].job \in Jobs \ {j}
  BY <1>5, <1>7, SMT DEF IInv, TypeOK, Goroutine, RunnerHasJob
<1>14. NotStarted'
  <2>1. \A k \in worker'.batch : job'[k].status # "running"
    BY <1>1, <1>3, <1>4, SMT DEF IInv, TypeOK, NotStarted
  <2>2. \A h \in Runners : runner'[h].at \in Waiting \cup {"failRepo"} =>
           job'[runner'[h].job].status # "running"
    BY <1>4, <1>13a, SMT DEF IInv, NotStarted, Waiting
  <2> QED
    BY <2>1, <2>2 DEF NotStarted
<1>15. RunningHasRunner'
  BY <1>1, <1>4, <1>8, SMT DEF IInv, RunningHasRunner
<1>16. PublishedFirst' /\ CompletedWasPublished'
  BY <1>1, <1>2, <1>4, <1>5, SMT DEF IInv, PublishedFirst, CompletedWasPublished
<1>17. LateCounts'
  <2>1. \A k \in Jobs : late'[k] # 0 => late'[k] = 1 /\ job'[k].status = "canceled"
    BY <1>4, SMT DEF IInv, LateCounts
  <2>2. \A h \in Runners : runner'[h].at = "fetch" => late'[runner'[h].job] = 0
    BY <1>4, <1>13a, SMT DEF IInv, LateCounts
  <2> QED
    BY <2>1, <2>2 DEF LateCounts
<1> QED
  BY <1>9, <1>10, <1>11, <1>12, <1>13, <1>14, <1>15, <1>16, <1>17 DEF IInv

-----------------------------------------------------------------------------
(* Faults.                                                                   *)

LEMMA FaultType ==
  ASSUME TypeOK, Fault
  PROVE  budget' \in [retries : 0 .. MaxRetries, faults : 0 .. MaxFaults]
  BY BoundsAssumption, SMT DEF TypeOK, Fault

LEMMA LeftRunningType ==
  ASSUME IInv, NEW gs \in SUBSET Runners
  PROVE  LeftRunning(gs) \in SUBSET Jobs
  BY SMT DEF IInv, TypeOK, Goroutine, RunnerHasJob, LeftRunning, At

LEMMA LoseRunnerStep ==
  ASSUME IInv, NEW g \in Runners, LoseRunner(g)
  PROVE  IInv'
<1>1. /\ runner[g].at # "free" /\ Fault /\ Finish(g)
      /\ orphaned' = orphaned \cup LeftRunning({g})
      /\ UNCHANGED <<job, repo, worker, client, published, late>>
  BY DEF LoseRunner, At
<1>2. JobOf(g).status = "running" => runner[g].job \in LeftRunning({g})
  BY <1>1 DEF LeftRunning, At
<1>3. orphaned' \in SUBSET Jobs
  BY <1>1, LeftRunningType DEF IInv, TypeOK
<1> QED
  BY <1>1, <1>2, <1>3, FaultType, EndFrame DEF IInv, TypeOK

LEMMA RestartStep ==
  ASSUME IInv, Restart
  PROVE  IInv'
<1>1. /\ Fault /\ orphaned' = orphaned \cup LeftRunning(Runners)
      /\ runner' = [g \in Runners |-> Free]
      /\ worker' = [phase |-> "idle", batch |-> {}]
      /\ client' = [c \in Clients |-> Idle]
      /\ UNCHANGED <<job, repo, published, late>>
  BY DEF Restart
<1>2. Free \in Goroutine /\ Free.at = "free" /\ Free.job = None
  BY BoundsAssumption, SMT DEF Free, Goroutine, Stages
<1>3. Idle \in Request /\ Idle.at = "idle"
  BY SMT DEF Idle, Request
<1>4. \A g \in Runners : runner'[g].at = "free" /\ runner'[g].job = None
  BY <1>1, <1>2
<1>5. TypeOK'
  <2>1. orphaned' \in SUBSET Jobs
    BY <1>1, LeftRunningType DEF IInv, TypeOK
  <2>2. budget' \in [retries : 0 .. MaxRetries, faults : 0 .. MaxFaults]
    BY <1>1, FaultType DEF IInv
  <2>3. runner' \in [Runners -> Goroutine] /\ client' \in [Clients -> Request]
    BY <1>1, <1>2, <1>3
  <2> QED
    BY <1>1, <2>1, <2>2, <2>3, SMT DEF IInv, TypeOK
<1>6. RowsExist'
  BY <1>1, <1>3, SMT DEF IInv, RowsExist
<1>7. RunningHasRunner'
  <2> SUFFICES ASSUME NEW j \in Jobs, job[j].status = "running"
               PROVE  j \in orphaned'
    BY <1>1 DEF RunningHasRunner
  <2>1. CASE j \in orphaned
    BY <1>1, <2>1
  <2>2. CASE Held(j)
    <3>1. PICK g \in Runners : runner[g].job = j
      BY <2>2 DEF Held
    <3>2. runner[g].at # "free"
      BY <3>1, NoneAssumption DEF IInv, RunnerHasJob
    <3> QED
      BY <1>1, <3>1, <3>2 DEF LeftRunning, At, JobOf
  <2> QED
    BY <2>1, <2>2 DEF IInv, RunningHasRunner
<1>8. RunnerHasJob' /\ NoDoubleRun' /\ BatchApart'
  BY <1>1, <1>4, SMT DEF RunnerHasJob, NoDoubleRun, BatchApart, AllFree
<1>9. InHandOpen'
  BY <1>1, <1>4, NoneAssumption, SMT DEF InHandOpen, InHand, Held
<1>10. NotStarted' /\ PublishedFirst' /\ CompletedWasPublished' /\ LateCounts'
  BY <1>1, <1>4, SMT DEF IInv, NotStarted, PublishedFirst, CompletedWasPublished, LateCounts, Waiting
<1> QED
  BY <1>5, <1>6, <1>7, <1>8, <1>9, <1>10 DEF IInv

-----------------------------------------------------------------------------
(* The theorems.                                                             *)

LEMMA NextIInv == IInv /\ [Next]_vars => IInv'
<1> SUFFICES ASSUME IInv, [Next]_vars
             PROVE  IInv'
  OBVIOUS
<1>1. ASSUME NEW c \in Clients, ClientStep(c)
      PROVE  IInv'
  BY <1>1, EnqueueStep, CheckedStep, CreateStep, ReturnStep, RetryStep, CancelStep
     DEF ClientStep
<1>2. ASSUME NEW r \in Repos, EnqueueWebhookSync(r) \/ ToggleTarget(r)
      PROVE  IInv'
  BY <1>2, EnqueueWebhookSyncStep, ToggleTargetStep
<1>3. ASSUME NEW g \in Runners, StartJob(g) \/ RunnerStep(g) \/ LoseRunner(g)
      PROVE  IInv'
  BY <1>3, StartJobStep, LoseRunnerStep, LoadJobStep, EnsureNotCanceledStep, MarkStep,
     ForwardStep, EnterStageStep, CheckPageStep, PersistPageStep, PublishStep,
     CompleteStep, MarkRepositoryFailedStep
     DEF RunnerStep
<1>4. CASE ListPendingIDs \/ BatchDone \/ Restart
  BY <1>4, ListPendingIDsStep, BatchDoneStep, RestartStep
<1>5. CASE UNCHANGED vars
  BY <1>5 DEF vars, IInv, TypeOK, RunnerHasJob, RowsExist, NoDoubleRun, BatchApart,
              InHandOpen, InHand, NotStarted, RunningHasRunner, PublishedFirst,
              CompletedWasPublished, LateCounts, AllFree, Held
<1> QED
  BY <1>1, <1>2, <1>3, <1>4, <1>5 DEF Next

\* Every part of the inductive invariant holds in every reachable state.
THEOREM Inductive == Spec => []IInv
<1>1. Init => IInv
  BY InitIInv
<1>2. IInv /\ [Next]_vars => IInv'
  BY NextIInv
<1> QED
  BY <1>1, <1>2, PTL DEF Spec

\* The tables, the worker, the goroutines and the requests keep their types: in
\* particular every UPDATE by job id or repository id meets a row.
THEOREM TypeCorrect == Spec => []TypeOK
<1>1. IInv => TypeOK
  BY DEF IInv
<1> QED
  BY <1>1, Inductive, PTL

\* For any concurrency and batch size, two goroutines never run one job.
THEOREM OneGoroutinePerJob == Spec => []NoDoubleRun
<1>1. IInv => NoDoubleRun
  BY DEF IInv
<1> QED
  BY <1>1, Inductive, PTL

\* Only a fault leaves a job 'running' without a goroutine.
THEOREM RunningIsHeld == Spec => []RunningHasRunner
<1>1. IInv => RunningHasRunner
  BY DEF IInv
<1> QED
  BY <1>1, Inductive, PTL

\* No job completes without its event.
THEOREM EventBeforeCompletion == Spec => []CompletedWasPublished
<1>1. IInv => CompletedWasPublished
  BY DEF IInv
<1> QED
  BY <1>1, Inductive, PTL

\* A canceled job persists at most the unit in flight, for any number of pages.
THEOREM CancelBound == Spec => []CancelIsPrompt
<1>1. IInv => CancelIsPrompt
  BY SMT DEF IInv, LateCounts, CancelIsPrompt
<1> QED
  BY <1>1, Inductive, PTL

\* A verdict of a goroutine never lands on a completed job.
LEMMA CompletedStep ==
  ASSUME IInv, [Next]_vars, NEW j \in Jobs, job[j].status = "completed"
  PROVE  job'[j].status \in {"completed", "pending", "canceled"}
<1>1. ~InHand(j)
  BY DEF IInv, InHandOpen
<1>2. ASSUME NEW g \in Runners, RunnerStep(g)
      PROVE  job'[j].status = "completed"
  <2>1. runner[g].job # j
    BY <1>1 DEF InHand, Held
  <2>2. CASE MarkRunning(g) \/ MarkFailed(g) \/ Complete(g)
    <3>1. \E status \in Status : SetStatus(runner[g].job, status)
      BY <2>2 DEF MarkRunning, MarkFailed, Complete, Status, Active
    <3>2. runner[g].job \in Jobs
      BY <2>2, SMT DEF MarkRunning, MarkFailed, Complete, At, IInv, TypeOK, Goroutine, RunnerHasJob
    <3> QED
      BY <2>1, <3>1, <3>2, SetStatusType DEF IInv
  <2>3. CASE ~(MarkRunning(g) \/ MarkFailed(g) \/ Complete(g))
    BY <1>2, <2>3
       DEF RunnerStep, LoadJob, CheckBeforeStart, LoadTarget, CheckBeforeMetadata,
           EnsureNotCanceled, SyncMetadata, EnterStage, CheckPage, PersistPage, Publish,
           StepFails, MarkRepositoryFailed
  <2> QED
    BY <2>2, <2>3
<1>3. ASSUME NEW c \in Clients, ClientStep(c)
      PROVE  job'[j].status \in {"completed", "pending", "canceled"}
  <2>1. CASE \E k \in Jobs, status \in {"pending", "canceled"} : SetStatus(k, status)
    <3>1. PICK k \in Jobs, status \in {"pending", "canceled"} : SetStatus(k, status)
      BY <2>1
    <3> QED
      BY <3>1, SetStatusType DEF IInv, Status, Active
  <2>2. CASE Retry(c) \/ Cancel(c)
    <3>1. client[c].job \in Jobs
      BY <2>2, SMT DEF IInv, RowsExist, Retry, Cancel, ClientAt
    <3>2. UNCHANGED job \/ SetStatus(client[c].job, "pending") \/ SetStatus(client[c].job, "canceled")
      BY <2>2 DEF Retry, Cancel
    <3> QED
      BY <2>1, <3>1, <3>2
  <2>3. CASE Create(c)
    <3>1. UNCHANGED job \/ \E k \in Jobs :
            /\ job[k].status = "absent"
            /\ job' = [job EXCEPT ![k] = [status |-> "pending", repo |-> client[c].repo,
                                         key |-> client[c].key]]
      BY <2>3 DEF Create, NextId
    <3> QED
      BY <3>1, SMT DEF IInv, TypeOK
  <2>4. CASE ~(Retry(c) \/ Cancel(c) \/ Create(c))
    BY <1>3, <2>4
       DEF ClientStep, EnqueueChecked, EnqueueConflict, RetryChecked, CancelChecked,
           MarkSyncing, MarkRetrySyncing, MarkSelected, Abandon
  <2> QED
    BY <2>2, <2>3, <2>4
<1>4. ASSUME NEW r \in Repos, EnqueueWebhookSync(r)
      PROVE  job'[j].status = "completed"
  <2>1. PICK k \in Jobs :
          /\ job[k].status = "absent"
          /\ job' = [job EXCEPT ![k] = [status |-> "pending", repo |-> r, key |-> None]]
    BY <1>4 DEF EnqueueWebhookSync, NextId
  <2> QED
    BY <2>1, SMT DEF IInv, TypeOK
<1>5. ASSUME UNCHANGED job
      PROVE  job'[j].status = "completed"
  BY <1>5
<1> QED
  BY <1>2, <1>3, <1>4, <1>5
     DEF Next, ToggleTarget, ListPendingIDs, StartJob, LoseRunner, BatchDone, Restart, vars

\* No goroutine stores its verdict over the 'completed' of another, for any
\* concurrency: what changes a completed job is a request.
THEOREM VerdictsDoNotCollide == Spec => CompletedOnlyChangedByRequest
<1>1. IInv /\ [Next]_vars =>
        [\A j \in Jobs : job[j].status = "completed" =>
           job'[j].status \in {"completed", "pending", "canceled"}]_vars
  BY CompletedStep
<1> QED
  BY <1>1, Inductive, PTL DEF Spec, CompletedOnlyChangedByRequest
=============================================================================
