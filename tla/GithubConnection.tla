-------------------------- MODULE GithubConnection --------------------------
(***************************************************************************)
(* The GitHub App connection of one organization (githubconnection): its   *)
(* installation, the repositories the installation gives access to, those  *)
(* the user selected, and the sync jobs queued for them, together with the *)
(* other writers of these rows: a PATCH of a repository (repository), the   *)
(* purge of disconnected installations (datalifecycle) and the sync queue. *)
(*                                                                         *)
(* A request is a goroutine that goes through its statements one by one:   *)
(* each call to GitHub and each committed transaction is an action, and    *)
(* what it read stays in its local record. GitHub changes under it.        *)
(* Webhooks EXTENDS this module with the deliveries GitHub sends.          *)
(***************************************************************************)
EXTENDS Integers, FiniteSets

CONSTANTS
  Repos,      \* GitHub repositories of the account
  Procs,      \* goroutines: API requests and webhook requests
  Worker,     \* the goroutine that retries failed deliveries
  None,       \* no row, no repository
  MaxRequests,\* bound: requests of users, and purges
  MaxFaults   \* bound: errors, goroutines that end, repeated deliveries

ASSUME ConnectionAssumption ==
  /\ None \notin Repos
  /\ Worker \notin Procs
  /\ MaxRequests \in Nat /\ MaxFaults \in Nat

VARIABLES
  gh,      \* GitHub: state of the installation, and the repositories it covers
  inst,    \* github_installations: status, suspended_at, disconnected_at
  gir,     \* github_installation_repositories: status, linked_repository_id
  repo,    \* repositories: is_active
  queued,  \* sync_jobs: how many of a repository are pending or running
  proc,    \* where each goroutine is, and what it has read
  budget,  \* what is left of MaxRequests and MaxFaults
  chosen,  \* history: repositories linked since the installation was disconnected
  raced,   \* history: repositories something else was at when it was disconnected
  stale    \* history: rows whose last writer was not told the present by GitHub

rows == <<inst, gir, repo, queued, chosen, raced, stale>>

\* An installation has the permissions DevLens requires; the status of one that
\* lacks some (permission_missing) is left out.
GhStates == {"ok", "suspended", "deleted"}
Goroutines == Procs \cup {Worker}

Installation == [status : {"connected", "installation_required"},
                 suspended : BOOLEAN, disconnected : BOOLEAN]
AccessRow == [status : {"accessible", "installation_required"},
              linked : BOOLEAN]
ASSUME NoConnectionRow == None \notin Installation \cup AccessRow

Ops == {"idle", "complete", "disconnect", "select", "sync", "patch", "activate",
        "purge", "handle", "retry"}
Places == {"idle", "get", "upsert", "list", "replace", "suspend", "find to refresh",
           "find to drop", "drop", "cancel", "link", "target", "insert", "write", "delete",
           "store", "project", "apply", "done", "mark", "failed"}

\* r: the repository at hand; todo: those still to handle; seen, items: what GitHub
\* or the database answered; active: is_active to write; d: the delivery at hand.
Goroutine == [op : Ops, at : Places, r : Repos \cup {None}, todo : SUBSET Repos,
              seen : GhStates, items : SUBSET Repos, active : BOOLEAN, d : Nat]
Idle == [op |-> "idle", at |-> "idle", r |-> None, todo |-> {}, seen |-> "ok",
         items |-> {}, active |-> FALSE, d |-> 0]

ConnTypeOK ==
  /\ gh \in [state : GhStates, repos : SUBSET Repos]
  /\ inst \in Installation \cup {None}
  /\ gir \in [Repos -> AccessRow \cup {None}]
  /\ repo \in [Repos -> {"absent", "active", "inactive"}]
  /\ queued \in [Repos -> Nat]
  /\ proc \in [Goroutines -> Goroutine]
  /\ budget \in [requests : 0 .. MaxRequests, faults : 0 .. MaxFaults]
  /\ chosen \in SUBSET Repos /\ raced \in SUBSET Repos
  /\ stale \in SUBSET {"inst", "gir"}

\* No installation yet, or one that is connected and whose repositories are selected.
ConnInit ==
  /\ gh = [state |-> "ok", repos |-> Repos]
  /\ \/ /\ inst = None
        /\ gir = [r \in Repos |-> None]
        /\ repo = [r \in Repos |-> "absent"]
        /\ chosen = {}
        /\ stale = {"inst", "gir"}
     \/ /\ inst = [status |-> "connected", suspended |-> FALSE, disconnected |-> FALSE]
        /\ gir = [r \in Repos |-> [status |-> "accessible", linked |-> TRUE]]
        /\ repo = [r \in Repos |-> "active"]
        /\ chosen = Repos
        /\ stale = {}
  /\ queued = [r \in Repos |-> 0]
  /\ proc = [p \in Goroutines |-> Idle]
  /\ budget = [requests |-> MaxRequests, faults |-> MaxFaults]
  /\ raced = {}

At(p, at) == proc[p].at = at
Goto(p, at) == proc' = [proc EXCEPT ![p].at = at]
Begin(p, start) ==
  /\ p \in Procs
  /\ proc[p].op = "idle"
  /\ proc' = [proc EXCEPT ![p] = start]
Spend == budget.faults > 0 /\ budget' = [budget EXCEPT !.faults = @ - 1]
Request(p, start) ==
  /\ Begin(p, start)
  /\ budget.requests > 0 /\ budget' = [budget EXCEPT !.requests = @ - 1]

\* The goroutine of a delivery goes on when the connection has returned to it.
Return(p, at) == proc' = [proc EXCEPT ![p] = IF @.d = 0 THEN Idle ELSE [@ EXCEPT !.at = at]]
Succeed(p) == Return(p, "done")
Abort(p) == Return(p, "failed")

Linked == {r \in Repos : gir[r] # None /\ gir[r].linked}

-----------------------------------------------------------------------------
(* Refreshing the installation from GitHub: CompleteInstallation after the  *)
(* callback, and refreshInstallationByInstallationID after an event.        *)

DeriveInstallationLifecycleStatus(state) ==
  IF state = "ok" THEN "connected" ELSE "installation_required"

CompleteInstallation(p) ==
  /\ Request(p, [Idle EXCEPT !.op = "complete", !.at = "get"])
  /\ UNCHANGED <<rows, gh>>

\* FindOrganizationIDByInstallationID: no organization, nothing to do.
FindOrganization(p) ==
  /\ At(p, "find to refresh") \/ At(p, "find to drop")
  /\ IF inst = None THEN Succeed(p)
     ELSE Goto(p, IF At(p, "find to drop") THEN "drop" ELSE "get")
  /\ UNCHANGED <<rows, gh, budget>>

GetInstallation(p) ==
  /\ At(p, "get")
  /\ IF gh.state = "deleted"
       THEN Abort(p)
       ELSE proc' = [proc EXCEPT ![p] = [@ EXCEPT !.at = "upsert", !.seen = gh.state]]
  /\ UNCHANGED <<rows, gh, budget>>

\* ON CONFLICT (organization_id) DO UPDATE, with disconnected_at = NULL.
UpsertInstallation(p) ==
  /\ At(p, "upsert")
  /\ inst' = [status |-> DeriveInstallationLifecycleStatus(proc[p].seen),
              suspended |-> proc[p].seen = "suspended", disconnected |-> FALSE]
  /\ stale' = IF proc[p].seen = gh.state THEN stale \ {"inst"} ELSE stale \cup {"inst"}
  /\ Goto(p, "list")
  /\ UNCHANGED <<gh, gir, repo, queued, budget, chosen, raced>>

\* All pages at once. GitHub issues no token while the installation is suspended.
ListInstallationRepositories(p) ==
  /\ At(p, "list")
  /\ IF gh.state \in {"suspended", "deleted"}
       THEN Abort(p)
       ELSE proc' = [proc EXCEPT ![p] = [@ EXCEPT !.at = "replace", !.items = gh.repos]]
  /\ UNCHANGED <<rows, gh, budget>>

Listed(r) == [status |-> "accessible", linked |-> r \in Linked]

\* Rows are never deleted: those not listed any more are marked, links are kept.
ReplaceAccessibleRepositories(p) ==
  /\ At(p, "replace")
  /\ \/ inst = None /\ Abort(p) /\ UNCHANGED <<gir, stale>>
     \/ /\ inst # None
        /\ gir' = [r \in Repos |->
             IF r \in proc[p].items THEN Listed(r)
             ELSE IF gir[r] = None THEN None
             ELSE [gir[r] EXCEPT !.status = "installation_required"]]
        /\ stale' = IF proc[p].items = gh.repos THEN stale \ {"gir"} ELSE stale \cup {"gir"}
        /\ Succeed(p)
  /\ UNCHANGED <<gh, inst, repo, queued, budget, chosen, raced>>

-----------------------------------------------------------------------------
(* Suspension and disconnection.                                            *)

\* A mutated suspension that writes suspended_at and leaves the status alone.
SuspendInstallationDateOnly(p) ==
  /\ At(p, "suspend")
  /\ inst' = IF inst = None THEN None
             ELSE [inst EXCEPT !.suspended = TRUE, !.disconnected = FALSE]
  /\ stale' = IF gh.state = "suspended" THEN stale \ {"inst"} ELSE stale \cup {"inst"}
  /\ Succeed(p)
  /\ UNCHANGED <<gh, gir, repo, queued, budget, chosen, raced>>

\* UpdateInstallationLifecycle(..., suspended_at, nil): disconnected_at is lost.
SuspendInstallation(p) ==
  /\ At(p, "suspend")
  /\ inst' = IF inst = None THEN None
             ELSE [status |-> "installation_required",
                   suspended |-> TRUE, disconnected |-> FALSE]
  /\ stale' = IF gh.state = "suspended" THEN stale \ {"inst"} ELSE stale \cup {"inst"}
  /\ Succeed(p)
  /\ UNCHANGED <<gh, gir, repo, queued, budget, chosen, raced>>

\* The requests whose checks are behind them when p disconnects the installation.
UnderWay(p) ==
  UNION {IF proc[q].at \in {"upsert", "list", "replace"} THEN Repos
         ELSE IF proc[q].op \in {"select", "sync", "patch", "handle"}
           THEN proc[q].todo \cup ({proc[q].r} \ {None})
         ELSE {} : q \in Goroutines \ {p}}

\* A disconnect that has listed the linked repositories, and passed r.
Canceling(r) == \E p \in Procs : proc[p].op = "disconnect" /\ r \notin proc[p].todo

\* An event of GitHub comes here too, without canceling the jobs.
Dropped(p) ==
  /\ At(p, "drop")
  /\ inst' = [status |-> "installation_required", suspended |-> FALSE, disconnected |-> TRUE]
  /\ chosen' = {}
  /\ stale' = IF gh.state = "deleted" THEN {} ELSE {"inst", "gir"}
  /\ raced' = raced \cup UnderWay(p)
                \cup {r \in Repos : proc[p].op # "disconnect" /\ queued[r] > 0}
  /\ Succeed(p)

\* A mutated transaction that clears the links before it reads them.
DisconnectInstallationClearsFirst(p) ==
  /\ inst # None
  /\ Dropped(p)
  /\ gir' = [r \in Repos |-> IF gir[r] = None THEN None
               ELSE [status |-> "installation_required", linked |-> FALSE]]
  /\ UNCHANGED <<repo, gh, queued, budget>>

\* A mutated transaction that marks the installation and its repositories only.
DisconnectInstallationShallow(p) ==
  /\ inst # None
  /\ Dropped(p)
  /\ gir' = [r \in Repos |-> IF gir[r] = None THEN None
               ELSE [gir[r] EXCEPT !.status = "installation_required"]]
  /\ repo' = [r \in Repos |-> IF r \in Linked THEN "inactive" ELSE repo[r]]
  /\ UNCHANGED <<gh, queued, budget>>

\* One transaction.
DisconnectInstallation(p) ==
  /\ \/ inst = None /\ At(p, "drop") /\ Abort(p) /\ UNCHANGED rows
     \/ /\ inst # None
        /\ Dropped(p)
        /\ gir' = [r \in Repos |-> IF gir[r] = None THEN None
                     ELSE [status |-> "installation_required", linked |-> FALSE]]
        /\ repo' = [r \in Repos |-> IF r \in Linked THEN "inactive" ELSE repo[r]]
        /\ UNCHANGED queued
  /\ UNCHANGED <<gh, budget>>

\* GetInstallation and ListLinkedRepositoryIDs.
Disconnect(p) ==
  /\ inst # None
  /\ Request(p, [Idle EXCEPT !.op = "disconnect", !.at = "cancel", !.todo = Linked])
  /\ UNCHANGED <<rows, gh>>

\* The jobs of one repository after the other: there are fewer than 20 of each.
CancelActiveSyncJobs(p) ==
  /\ At(p, "cancel")
  /\ \/ \E r \in proc[p].todo :
          /\ queued' = [queued EXCEPT ![r] = 0]
          /\ proc' = [proc EXCEPT ![p].todo = @ \ {r}]
     \/ proc[p].todo = {} /\ Goto(p, "find to drop") /\ UNCHANGED queued
  /\ UNCHANGED <<gh, inst, gir, repo, budget, chosen, raced, stale>>

-----------------------------------------------------------------------------
(* Selecting repositories, and asking for a sync.                           *)

\* GetAccessibleRepositoriesByGitHubIDs: all of them, or an error. Their statuses
\* are looked at later, as they were now.
SelectRepositories(p) ==
  \E rs \in (SUBSET Repos) \ {{}} :
    /\ inst # None
    /\ \A r \in rs : gir[r] # None
    /\ Request(p, [Idle EXCEPT !.op = "select", !.at = "link", !.todo = rs,
                             !.items = {r \in rs : gir[r].status = "accessible"}])
    /\ UNCHANGED <<rows, gh>>

\* The next repository of the request, in one transaction. One that is not
\* accessible ends the request: those before it stay linked.
LinkRepositoryAndMarkSelected(p) ==
  /\ At(p, "link")
  /\ \/ /\ proc[p].todo = {}
        /\ Succeed(p)
        /\ UNCHANGED <<gir, repo, chosen, raced>>
     \/ \E r \in proc[p].todo :
          \/ /\ gir[r] = None \/ r \notin proc[p].items
             /\ Abort(p)
             /\ UNCHANGED <<gir, repo, chosen, raced>>
          \/ /\ gir[r] # None /\ r \in proc[p].items
             /\ gir' = [gir EXCEPT ![r].linked = TRUE]
             /\ repo' = [repo EXCEPT ![r] = "active"]
             /\ chosen' = chosen \cup {r}
             /\ raced' = IF inst.disconnected \/ Canceling(r) THEN raced ELSE raced \ {r}
             /\ proc' = [proc EXCEPT ![p] =
                  [@ EXCEPT !.at = "target", !.r = r, !.todo = proc[p].todo \ {r}]]
  /\ UNCHANGED <<gh, inst, queued, budget, stale>>

RequestSync(p, r) ==
  /\ Request(p, [Idle EXCEPT !.op = "sync", !.at = "target", !.r = r])
  /\ UNCHANGED <<rows, gh>>

\* validateRepositoryTarget, with HasActiveJob.
CanSync(r) ==
  /\ gir[r] # None /\ repo[r] = "active"
  /\ inst # None /\ inst.status = "connected"
  /\ queued[r] = 0

NextRepository(p) ==
  proc' = [proc EXCEPT ![p] = IF @.op = "select" THEN [@ EXCEPT !.at = "link", !.r = None]
                              ELSE Idle]

\* A refusal does not end SelectRepositories.
GetRepositoryTarget(p) ==
  /\ At(p, "target")
  /\ IF CanSync(proc[p].r) THEN Goto(p, "insert") ELSE NextRepository(p)
  /\ UNCHANGED <<rows, gh, budget>>

Inserted(r) ==
  /\ queued' = [queued EXCEPT ![r] = @ + 1]
  /\ raced' = IF Canceling(r) THEN raced \cup {r} ELSE raced

\* Enqueue inserts on what it has read.
InsertJob(p) ==
  /\ At(p, "insert")
  /\ IF repo[proc[p].r] = "absent" THEN UNCHANGED <<queued, raced>> ELSE Inserted(proc[p].r)
  /\ NextRepository(p)
  /\ UNCHANGED <<gh, inst, gir, repo, budget, chosen, stale>>

\* The sync worker completes, fails or cancels a job (SyncJobs).
JobEnds(r) ==
  /\ queued[r] > 0
  /\ queued' = [queued EXCEPT ![r] = @ - 1]
  /\ UNCHANGED <<gh, inst, gir, repo, proc, budget, chosen, raced, stale>>

-----------------------------------------------------------------------------
(* Other writers of these rows.                                             *)

\* PATCH of a repository: the row is read, merged with the request and written.
UpdateRepository(p, r) ==
  /\ repo[r] # "absent"
  /\ \/ Request(p, [Idle EXCEPT !.op = "patch", !.at = "write", !.r = r,
                              !.active = repo[r] = "active"])
     \/ \E active \in BOOLEAN :
          Request(p, [Idle EXCEPT !.op = "activate", !.at = "write", !.r = r,
                                !.active = active])
  /\ UNCHANGED <<rows, gh>>

WriteRepository(p) ==
  LET r == proc[p].r IN
  /\ At(p, "write")
  /\ repo' = IF repo[r] = "absent" THEN repo
             ELSE [repo EXCEPT ![r] = IF proc[p].active THEN "active" ELSE "inactive"]
  /\ raced' = IF proc[p].op = "activate" THEN raced \cup {r} ELSE raced
  /\ Succeed(p)
  /\ UNCHANGED <<gh, inst, gir, queued, budget, chosen, stale>>

\* PurgeExpiredDisconnectedInstallations lists, then deletes what it listed.
PurgeInstallation(p) ==
  /\ inst # None /\ inst.disconnected
  /\ Request(p, [Idle EXCEPT !.op = "purge", !.at = "delete"])
  /\ UNCHANGED <<rows, gh>>

\* A connection may fail, or a goroutine end with its context or process. Webhooks
\* says what becomes of a delivery then.
CallFails(p) ==
  /\ proc[p].at \in {"get", "upsert", "list", "replace", "suspend", "find to refresh",
                     "find to drop", "drop", "cancel", "link", "insert"}
  /\ Spend
  /\ IF At(p, "insert") THEN NextRepository(p) ELSE Abort(p)
  /\ UNCHANGED <<rows, gh>>

ConnStep(p) ==
  \/ FindOrganization(p) \/ GetInstallation(p) \/ UpsertInstallation(p)
  \/ ListInstallationRepositories(p) \/ ReplaceAccessibleRepositories(p)
  \/ SuspendInstallation(p) \/ DisconnectInstallation(p) \/ CancelActiveSyncJobs(p)
  \/ LinkRepositoryAndMarkSelected(p) \/ GetRepositoryTarget(p) \/ InsertJob(p)
  \/ WriteRepository(p)

ConnRequest(p) ==
  \/ CompleteInstallation(p) \/ Disconnect(p) \/ SelectRepositories(p)
  \/ PurgeInstallation(p)
  \/ \E r \in Repos : RequestSync(p, r) \/ UpdateRepository(p, r)
-----------------------------------------------------------------------------
\* FindInstallationIDByRepositoryFullName: the sync client asks for a token of the
\* installation for such a repository.
HasToken(r) ==
  /\ gir[r] # None /\ gir[r].linked /\ gir[r].status = "accessible"
  /\ inst # None /\ inst.status = "connected"
  /\ repo[r] = "active"

\* A token of the installation is used only for a repository that was selected
\* since the installation was last disconnected, whatever was under way then.
TokenNeedsSelection == \A r \in Repos : HasToken(r) => r \in chosen

\* githubconnection/repository.go:355: deactivating the repositories of a
\* disconnected installation "keeps them from ... accepting manual sync requests".
\* No repository stays active and none keeps a job, except those that another
\* request was already at when it was disconnected, the user activates, or
\* whose jobs an event of GitHub does not cancel.
DisconnectedIsInactive ==
  inst # None /\ inst.disconnected =>
    \A r \in Repos \ raced : repo[r] # "active" /\ queued[r] = 0
=============================================================================
