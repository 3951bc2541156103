------------------------------ MODULE Webhooks ------------------------------
(***************************************************************************)
(* The deliveries GitHub sends (githubwebhook) on top of the connection    *)
(* they change (GithubConnection): the request that stores a delivery, the *)
(* sync job it enqueues, its projection and its installation event, the    *)
(* retries of what failed, and the purge of payloads (datalifecycle).      *)
(***************************************************************************)
EXTENDS GithubConnection, FiniteSetsExt

CONSTANTS
  MaxDeliveries,  \* bound: deliveries GitHub ever creates
  MaxRetries      \* maxWebhookRetries (5)

ASSUME WebhookAssumption == MaxDeliveries \in Nat /\ MaxRetries \in Nat \ {0}

VARIABLES
  sent,      \* GitHub: kind and repository of each delivery, in order of creation
  delivery,  \* webhook_deliveries
  deployed,  \* deployments: the last delivery whose status and date are stored
  lost       \* history: deliveries whose goroutine ended before it was done, or purged

webhookVars == <<sent, delivery, deployed, lost>>
vars == <<gh, inst, gir, repo, queued, proc, budget, chosen, raced, stale,
          sent, delivery, deployed, lost>>

Deliveries == 1 .. MaxDeliveries
InstallationKinds == {"deleted", "suspend", "refresh"}
\* "deployment" stands for the events that are projected, with a date of their own.
Kinds == InstallationKinds \cup {"deployment", "other"}
Payload == [kind : Kinds, r : Repos \cup {None}]

\* known: github_installation_id is set; job: sync_job_id; applied: history.
Row == [status : {"enqueued", "ignored", "processed", "failed", "dead_letter"},
        retries : 0 .. MaxRetries, payload : BOOLEAN, known : BOOLEAN,
        r : Repos \cup {None}, job : BOOLEAN, jobs : Nat, applied : BOOLEAN]
ASSUME NoDeliveryRow == None \notin Row

\* The types of the variables of both modules; attempts stay below the limit.
TypeOK ==
  /\ ConnTypeOK
  /\ sent \in UNION {[1 .. n -> Payload] : n \in 0 .. MaxDeliveries}
  /\ delivery \in [Deliveries -> Row \cup {None}]
  /\ deployed \in [Repos -> [status : 0 .. MaxDeliveries, at : 0 .. MaxDeliveries]]
  /\ lost \in SUBSET Deliveries

Init ==
  /\ ConnInit
  /\ sent = <<>>
  /\ delivery = [d \in Deliveries |-> None]
  /\ deployed = [r \in Repos |-> [status |-> 0, at |-> 0]]
  /\ lost = {}

-----------------------------------------------------------------------------
(* GitHub (external): a change of the installation, or of a repository, and *)
(* the delivery that tells of it.                                           *)

Send(kind, r) ==
  /\ Cardinality(DOMAIN sent) < MaxDeliveries
  /\ LET n == Cardinality(DOMAIN sent) IN
       sent' = [d \in 1 .. n + 1 |-> IF d <= n THEN sent[d] ELSE [kind |-> kind, r |-> r]]

GithubChange ==
  /\ gh.state # "deleted"
  /\ \/ Send("deleted", None) /\ gh' = [gh EXCEPT !.state = "deleted"]
     \/ /\ gh.state # "suspended"
        /\ Send("suspend", None)
        /\ gh' = [gh EXCEPT !.state = "suspended"]
     \/ /\ gh.state = "suspended"
        /\ Send("refresh", None)
        /\ gh' = [gh EXCEPT !.state = "ok"]
     \/ \E rs \in (SUBSET Repos) \ {gh.repos} :
          Send("refresh", None) /\ gh' = [gh EXCEPT !.repos = rs]
  /\ UNCHANGED <<rows, proc, budget, delivery, deployed, lost>>

RepositoryEvent(r) ==
  /\ r \in gh.repos
  /\ Send("deployment", r) \/ Send("other", None)
  /\ UNCHANGED <<rows, gh, proc, budget, delivery, deployed, lost>>

-----------------------------------------------------------------------------
(* Handling a delivery.                                                     *)

KindOf(p) == sent[proc[p].d].kind
IsInstallationEvent(kind) == kind \in InstallationKinds
IsSupportedEvent(kind) == kind = "deployment"

\* GitHub delivers; a second time counts as a fault. FindRepositoryByGithubID: an
\* inactive repository is no repository.
Handle(p, d) ==
  /\ d \in DOMAIN sent
  /\ LET r == sent[d].r IN
       Begin(p, [Idle EXCEPT !.op = "handle", !.at = "store", !.d = d,
                   !.r = IF r # None /\ repo[r] = "active" THEN r ELSE None])
  /\ IF delivery[d] # None \/ \E q \in Procs : proc[q].d = d THEN Spend ELSE UNCHANGED budget
  /\ UNCHANGED <<rows, gh, webhookVars>>

NewRow(p, job) ==
  [status |-> IF job THEN "enqueued" ELSE "ignored", retries |-> 0, payload |-> TRUE,
   known |-> inst # None, r |-> proc[p].r,
   job |-> job, jobs |-> IF job THEN 1 ELSE 0, applied |-> FALSE]

WithJob(p) == IsSupportedEvent(KindOf(p)) /\ proc[p].r # None

\* A mutated insert of the delivery that keeps the job of a duplicate.
EnqueueWebhookSyncKeepsJob(p) ==
  LET d == proc[p].d IN
  /\ At(p, "store")
  /\ IF WithJob(p) THEN Inserted(proc[p].r) ELSE UNCHANGED <<queued, raced>>
  /\ \/ /\ delivery[d] # None
        /\ delivery' = IF WithJob(p) THEN [delivery EXCEPT ![d].jobs = @ + 1] ELSE delivery
        /\ proc' = [proc EXCEPT ![p] = Idle]
     \/ /\ delivery[d] = None
        /\ delivery' = [delivery EXCEPT ![d] = NewRow(p, WithJob(p))]
        /\ Goto(p, IF WithJob(p) THEN "project" ELSE "apply")
  /\ UNCHANGED <<gh, inst, gir, repo, budget, chosen, stale, sent, deployed, lost>>

\* A mutated request that goes on with a delivery it did not insert.
EnqueueWebhookSyncReprocesses(p) ==
  LET d == proc[p].d IN
  /\ At(p, "store")
  /\ delivery' = [delivery EXCEPT ![d] = IF @ = None THEN NewRow(p, WithJob(p)) ELSE @]
  /\ Goto(p, IF WithJob(p) THEN "project" ELSE "apply")
  /\ UNCHANGED <<rows, gh, budget, sent, deployed, lost>>

\* One transaction: the job and its mode, then the delivery. ON CONFLICT DO NOTHING
\* on a duplicate, whose job is rolled back. No repository, no row to reference.
EnqueueWebhookSync(p) ==
  LET d == proc[p].d IN
  /\ At(p, "store")
  /\ \/ /\ delivery[d] # None \/ (proc[p].r # None /\ repo[proc[p].r] = "absent")
        /\ proc' = [proc EXCEPT ![p] = Idle]
        /\ UNCHANGED <<queued, raced, delivery>>
     \/ /\ delivery[d] = None
        /\ proc[p].r # None => repo[proc[p].r] # "absent"
        /\ delivery' = [delivery EXCEPT ![d] = NewRow(p, WithJob(p))]
        /\ IF WithJob(p) THEN Inserted(proc[p].r) ELSE UNCHANGED <<queued, raced>>
        /\ Goto(p, IF WithJob(p) THEN "project" ELSE "apply")
  /\ UNCHANGED <<gh, inst, gir, repo, budget, chosen, stale, sent, deployed, lost>>

\* The upsert of projectDeployment without its comparison of dates.
NewerDeploymentAny(old, d) == [status |-> d, at |-> Max({old.at, d})]

\* The upsert of projectDeployment; d stands for the date of the delivery.
NewerDeployment(old, d) ==
  [status |-> IF d >= old.at THEN d ELSE old.status, at |-> Max({old.at, d})]

\* A request answers after the projection, a retry marks the delivery.
ProjectRepositoryEvent(p) ==
  LET r == proc[p].r IN
  /\ At(p, "project")
  /\ IF repo[r] = "absent"
       THEN Abort(p) /\ UNCHANGED deployed
       ELSE /\ deployed' = [deployed EXCEPT ![r] = NewerDeployment(@, proc[p].d)]
            /\ IF proc[p].op = "retry" THEN Goto(p, "mark")
               ELSE proc' = [proc EXCEPT ![p] = Idle]
  /\ UNCHANGED <<rows, gh, budget, sent, delivery, lost>>

\* processPersistedDelivery and the dispatch of HandleInstallationEvent.
ProcessPersistedDelivery(p) ==
  /\ At(p, "apply")
  /\ IF IsSupportedEvent(KindOf(p))
       THEN proc' = [proc EXCEPT ![p] = Idle]
       ELSE Goto(p, CASE KindOf(p) = "deleted" -> "find to drop"
                      [] KindOf(p) = "suspend" -> "suspend"
                      [] KindOf(p) = "refresh" -> "find to refresh"
                      [] OTHER -> "mark")
  /\ UNCHANGED <<rows, gh, budget, webhookVars>>

DeriveProcessedStatus(row, kind) ==
  IF row.job /\ IsSupportedEvent(kind) THEN "enqueued"
  ELSE IF IsInstallationEvent(kind) THEN "processed" ELSE "ignored"

\* MarkDeliveryStatus. A row that was purged is an error, and cannot be scheduled.
MarkDeliveryStatus(p) ==
  LET d == proc[p].d IN
  /\ At(p, "done") \/ At(p, "mark")
  /\ delivery' = IF delivery[d] = None THEN delivery
                 ELSE [delivery EXCEPT ![d] =
                        [@ EXCEPT !.status = DeriveProcessedStatus(delivery[d], KindOf(p)),
                                  !.applied = At(p, "done")]]
  /\ proc' = [proc EXCEPT ![p] = Idle]
  /\ UNCHANGED <<rows, gh, budget, sent, deployed, lost>>

\* A mutated handler that answers an error and does not write it down.
ScheduleRetryFailureNot(p) ==
  /\ At(p, "failed")
  /\ proc' = [proc EXCEPT ![p] = Idle]
  /\ UNCHANGED <<rows, gh, budget, webhookVars>>

\* A mutated limit that no attempt reaches.
ScheduleRetryFailureForever(p) ==
  LET d == proc[p].d IN
  /\ At(p, "failed")
  /\ delivery' = IF delivery[d] = None THEN delivery
                 ELSE [delivery EXCEPT ![d].status = "failed", ![d].retries = @ + 1]
  /\ proc' = [proc EXCEPT ![p] = Idle]
  /\ UNCHANGED <<rows, gh, budget, sent, deployed, lost>>

ScheduleRetryFailure(p) ==
  LET d == proc[p].d IN
  /\ At(p, "failed")
  /\ delivery' = IF delivery[d] = None THEN delivery
                 ELSE IF delivery[d].retries + 1 >= MaxRetries
                   THEN [delivery EXCEPT ![d].status = "dead_letter"]
                   ELSE [delivery EXCEPT ![d] =
                          [@ EXCEPT !.status = "failed", !.retries = delivery[d].retries + 1]]
  /\ proc' = [proc EXCEPT ![p] = Idle]
  /\ UNCHANGED <<rows, gh, budget, sent, deployed, lost>>

\* ListRetryableDeliveryIDs; the delay of an attempt is in Calculations.
Retryable(d) == delivery[d] # None /\ delivery[d].status = "failed"

\* What Retry does goes by the row as it is read here: an event whose installation
\* was unknown when it came is marked and not applied.
RetryAt(d) ==
  IF delivery[d].r # None /\ IsSupportedEvent(sent[d].kind) THEN "project"
  ELSE IF delivery[d].known /\ IsInstallationEvent(sent[d].kind) THEN "apply"
  ELSE "mark"

\* RetryFailedPending: one delivery of a batch. A payload that was purged cannot be
\* parsed: the error is returned, and the row stays as it is.
Retry(d) ==
  /\ Retryable(d)
  /\ RetryAt(d) = "project" => delivery[d].payload
  /\ proc[Worker].op = "idle"
  /\ proc' = [proc EXCEPT ![Worker] =
       [Idle EXCEPT !.op = "retry", !.d = d, !.r = delivery[d].r, !.at = RetryAt(d)]]
  /\ UNCHANGED <<rows, gh, budget, webhookVars>>

-----------------------------------------------------------------------------
(* Data lifecycle and faults.                                               *)

\* Only the retry of a projection reads the payload again.
CleanupExpiredWebhookPayload(d) ==
  /\ delivery[d] # None /\ delivery[d].payload /\ delivery[d].status = "failed"
  /\ delivery[d].r # None
  /\ delivery' = [delivery EXCEPT ![d].payload = FALSE]
  /\ UNCHANGED <<rows, gh, proc, budget, sent, deployed, lost>>

\* The transaction of PurgeExpiredDisconnectedInstallations: the installation, the
\* repositories it gave access to, their jobs, and the deliveries that name it. It
\* does not look at disconnected_at again.
DeleteInstallation(p) ==
  /\ At(p, "delete")
  /\ inst' = None
  /\ gir' = [r \in Repos |-> None]
  /\ repo' = [r \in Repos |-> IF gir[r] = None THEN repo[r] ELSE "absent"]
  /\ queued' = [r \in Repos |-> IF gir[r] = None THEN queued[r] ELSE 0]
  /\ deployed' = [r \in Repos |-> IF gir[r] = None THEN deployed[r]
                                  ELSE [status |-> 0, at |-> 0]]
  /\ delivery' = [d \in Deliveries |->
       IF delivery[d] = None \/ delivery[d].known THEN None
       ELSE IF delivery[d].r = None THEN delivery[d]
       ELSE [delivery[d] EXCEPT !.r = None, !.job = FALSE]]
  /\ lost' = lost \cup {d \in Deliveries : delivery[d] # None}
  /\ stale' = {"inst", "gir"}
  /\ chosen' = {}
  /\ Succeed(p)
  /\ UNCHANGED <<gh, raced, budget, sent>>

\* A statement of the delivery's own fails: the error goes to scheduleRetryFailure,
\* or, from the statement of scheduleRetryFailure itself, nowhere.
DeliveryFails(p) ==
  /\ proc[p].at \in {"store", "project", "done", "mark", "failed"}
  /\ Spend
  /\ \/ At(p, "failed") \/ At(p, "store")
     \/ proc[p].op = "retry" /\ proc[p].at \in {"done", "mark"}
  /\ proc' = [proc EXCEPT ![p] = Idle]
  /\ lost' = IF proc[p].op = "handle" /\ At(p, "failed") THEN lost \cup {proc[p].d} ELSE lost
  /\ UNCHANGED <<rows, gh, sent, delivery, deployed>>
StatementFails(p) ==
  /\ At(p, "project") \/ (proc[p].op = "handle" /\ proc[p].at \in {"done", "mark"})
  /\ Spend
  /\ Goto(p, "failed")
  /\ UNCHANGED <<rows, gh, webhookVars>>

\* The process stops, or the context of a goroutine ends for good.
GoroutineEnds(p) ==
  /\ proc[p].op # "idle"
  /\ Spend
  /\ proc' = [proc EXCEPT ![p] = Idle]
  /\ lost' = IF proc[p].op = "handle" THEN lost \cup {proc[p].d} ELSE lost
  /\ UNCHANGED <<rows, gh, sent, delivery, deployed>>

-----------------------------------------------------------------------------
Step(p) ==
  \/ ConnStep(p) /\ UNCHANGED webhookVars
  \/ EnqueueWebhookSync(p) \/ ProjectRepositoryEvent(p) \/ ProcessPersistedDelivery(p)
  \/ MarkDeliveryStatus(p) \/ ScheduleRetryFailure(p) \/ DeleteInstallation(p)

Next ==
  \/ GithubChange
  \/ \E r \in Repos : RepositoryEvent(r) \/ (JobEnds(r) /\ UNCHANGED webhookVars)
  \/ \E p \in Procs :
       \/ ConnRequest(p) /\ UNCHANGED webhookVars
       \/ \E d \in Deliveries : Handle(p, d)
  \/ \E d \in Deliveries : Retry(d) \/ CleanupExpiredWebhookPayload(d)
  \/ \E p \in Goroutines :
       \/ Step(p)
       \/ CallFails(p) /\ UNCHANGED webhookVars
       \/ DeliveryFails(p) \/ StatementFails(p) \/ GoroutineEnds(p)

Spec == Init /\ [][Next]_vars
-----------------------------------------------------------------------------
InHand(d) == \E p \in Goroutines : proc[p].d = d /\ proc[p].at # "store"

\* An installation event that was stored, and whose installation was known, has
\* been applied, or is in hand, or waits for a retry, or is a dead letter, unless
\* the goroutine that had it ended: Handle stores the delivery as "ignored" before
\* it applies it, and nothing looks for such a row again.
EventAppliedOrRetried ==
  \A d \in Deliveries :
    delivery[d] # None /\ delivery[d].known /\ IsInstallationEvent(sent[d].kind) =>
    \/ delivery[d].applied \/ InHand(d) \/ d \in lost
    \/ delivery[d].status \in {"failed", "dead_letter"}

\* A delivery, however often GitHub sends it, enqueues one job, or none.
JobOncePerDelivery == \A d \in Deliveries : delivery[d] # None => delivery[d].jobs <= 1

\* A delivery that is processed or a dead letter stays so: neither a repeated
\* delivery nor a retry takes it up again. Only the purge of the installation removes
\* it: one that is sent again after that may still be in the hands of the first request.
SettledDeliveryIsFinal ==
  [][\A d \in Deliveries \ lost :
       delivery[d] # None /\ delivery'[d] # None /\ delivery[d].status \in {"processed", "dead_letter"}
         => delivery'[d].status = delivery[d].status]_vars

\* The deployment shows the latest of the statuses that were projected, in whatever
\* order they were handled and retried.
LatestDeploymentWins == \A r \in Repos : deployed[r].status = deployed[r].at

Quiet == \A p \in Goroutines : proc[p].op = "idle"
Applied(d) == delivery[d] # None /\ delivery[d].applied
AllApplied == \A d \in DOMAIN sent : IsInstallationEvent(sent[d].kind) => Applied(d)

\* Once every event is applied and nothing is under way, the installation and its
\* repositories are what GitHub says, unless the last to write a row had asked
\* before a later change (or was a user who disconnects).
SettledMatchesGithub ==
  Quiet /\ AllApplied /\ inst # None =>
    /\ "inst" \notin stale =>
         IF gh.state = "deleted" THEN inst.disconnected
         ELSE /\ inst.status = DeriveInstallationLifecycleStatus(gh.state)
              /\ inst.suspended = (gh.state = "suspended")
    /\ "gir" \notin stale /\ gh.state = "ok" =>
         \A r \in Repos : (gir[r] # None /\ gir[r].status = "accessible") = (r \in gh.repos)
=============================================================================
