---------------------------- MODULE Webhooks_proofs ----------------------------
(***************************************************************************)
(* Proofs, for every number of repositories, goroutines, requests,          *)
(* deliveries and faults, of what the run of Webhooks checks: the types, the  *)
(* connection of GithubConnection, and what becomes of deliveries.            *)
(***************************************************************************)
EXTENDS Webhooks, FiniteSetTheorems, TLAPS

-----------------------------------------------------------------------------
(* The inductive invariant, part by part. First where a goroutine can be.      *)

Refreshing == {"get", "upsert", "list", "replace"}

\* The places of a goroutine that has a delivery.
OfDelivery(g) ==
  /\ g.d \in DOMAIN sent
  /\ \/ g.at = "store" /\ g.op = "handle"
     \/ g.at \in {"apply", "mark", "failed"}
     \/ g.at = "project" /\ sent[g.d].kind = "deployment" /\ g.r \in Repos
     \/ sent[g.d].kind = "refresh" /\ g.at \in Refreshing \cup {"find to refresh", "done"}
     \/ sent[g.d].kind = "suspend" /\ g.at \in {"suspend", "done"}
     \/ sent[g.d].kind = "deleted" /\ g.at \in {"find to drop", "drop", "done"}

\* Those of a request of a user.
OfRequest(g) ==
  /\ g.d = 0
  /\ \/ g.op = "complete" /\ g.at \in Refreshing
     \/ g.op = "disconnect" /\ (g.at = "cancel" \/ (g.at \in {"find to drop", "drop"} /\ g.todo = {}))
     \/ g.op = "select" /\ (g.at = "link" \/ (g.at \in {"target", "insert"} /\ g.r \in Repos))
     \/ g.op = "sync" /\ g.at \in {"target", "insert"} /\ g.r \in Repos
     \/ g.op \in {"patch", "activate"} /\ g.at = "write" /\ g.r \in Repos
     \/ g.op = "purge" /\ g.at = "delete"

Placed(q) ==
  /\ \/ proc[q] = Idle
     \/ q \in Procs /\ OfRequest(proc[q])
     \/ proc[q].op = (IF q = Worker THEN "retry" ELSE "handle") /\ OfDelivery(proc[q])
  /\ proc[q].at = "upsert" => proc[q].seen # "deleted"

TypeInv ==
  /\ TypeOK
  /\ \A q \in Goroutines : Placed(q)
  /\ \A d \in Deliveries : delivery[d] # None => d \in DOMAIN sent

-----------------------------------------------------------------------------
(* The connection.                                                              *)

Disconnected == inst # None /\ inst.disconnected
Accessible(r) == gir[r] # None /\ gir[r].status = "accessible"

\* The repository a goroutine is about to enqueue a job for, or to keep active.
Bound(g) ==
  \/ g.at = "insert"
  \/ g.at = "store" /\ g.r # None
  \/ g.at = "write" /\ g.op = "patch" /\ g.active

\* Whatever a goroutine is about to write to a disconnected installation is excused, and
\* what it is about to write to any is of a repository that is linked, excused or gone.
\* The jobs a disconnect has canceled stay away.
GoesOn(g) ==
  /\ Disconnected =>
       /\ g.at \in {"list", "replace"} => raced = Repos
       /\ g.op = "select" => g.todo \cap g.items \subseteq raced
       /\ Bound(g) => g.r \in raced
  /\ Bound(g) => repo[g.r] = "absent" \/ g.r \in Linked \cup raced
  /\ g.op = "disconnect" => \A r \in Repos \ g.todo : queued[r] = 0 \/ r \in raced

RowsInv ==
  /\ inst = None => \A r \in Repos : gir[r] = None
  /\ Disconnected =>
       /\ inst.status # "connected"
       /\ \A r \in Repos \ raced : repo[r] # "active" /\ queued[r] = 0 /\ ~Accessible(r)
  /\ \A r \in Repos : repo[r] = "active" \/ queued[r] # 0 => r \in Linked \cup raced
  /\ Linked \subseteq chosen

ConnInv == RowsInv /\ \A q \in Goroutines : GoesOn(proc[q])

-----------------------------------------------------------------------------
(* Deliveries.                                                                  *)

Has(q, d) == proc[q].d = d /\ proc[q].at # "store"

\* A delivery that was never lost has a row when a goroutine has it, and one goroutine
\* at most: the worker one that failed, a request one that has no verdict yet.
DeliveryInv ==
  \A d \in Deliveries \ lost :
    /\ \A p, q \in Goroutines : Has(p, d) /\ Has(q, d) => p = q
    /\ \A q \in Goroutines : Has(q, d) =>
         /\ delivery[d] # None
         /\ delivery[d].status \in (IF q = Worker THEN {"failed"} ELSE {"enqueued", "ignored"})
         /\ proc[q].at = "mark" /\ IsInstallationEvent(sent[d].kind) => ~delivery[d].known

\* One of the installation, whose organization was known, is applied, in hand or failed.
AppliedInv == DeliveryInv /\ EventAppliedOrRetried

-----------------------------------------------------------------------------
(* What GitHub says.                                                            *)

InstMatches ==
  IF gh.state = "deleted" THEN inst.disconnected
  ELSE /\ inst.status = DeriveInstallationLifecycleStatus(gh.state)
       /\ inst.suspended = (gh.state = "suspended")
GirMatches == \A r \in Repos : Accessible(r) <=> r \in gh.repos

\* A row its writer knew the present of differs from GitHub's only while the event that
\* tells of the change is not applied, and not written by a goroutine that has it.
Unapplied(d, written) ==
  /\ d \in DOMAIN sent /\ IsInstallationEvent(sent[d].kind) /\ ~Applied(d)
  /\ \A q \in Goroutines : proc[q].d = d => proc[q].at \notin written
SettleInv ==
  /\ inst = None => "gir" \in stale
  /\ inst # None /\ "inst" \notin stale => InstMatches \/ \E d \in Deliveries : Unapplied(d, {"list", "replace", "done"})
  /\ inst # None /\ "gir" \notin stale /\ gh.state # "deleted" =>
       GirMatches \/ \E d \in Deliveries : sent[d].kind = "refresh" /\ Unapplied(d, {"done"})

-----------------------------------------------------------------------------
(* Goroutines: how each kind of step leaves its own, and no other.             *)

Others(p) == \A q \in Goroutines : q # p => proc'[q] = proc[q]
Procing == proc \in [Goroutines -> Goroutine]

LEMMA IdleTyped ==
  /\ Idle \in Goroutine /\ Idle.op = "idle" /\ Idle.at = "idle" /\ Idle.d = 0 /\ Idle.r = None
  BY DEF Idle, Goroutine, Ops, Places, GhStates

LEMMA ProcSet ==
  ASSUME Procing, NEW p \in Goroutines, NEW g \in Goroutine, proc' = [proc EXCEPT ![p] = g]
  PROVE  Procing' /\ proc'[p] = g /\ Others(p)
  BY DEF Procing, Others

LEMMA GotoSet ==
  ASSUME Procing, NEW p \in Goroutines, NEW at \in Places, Goto(p, at)
  PROVE  /\ Procing' /\ Others(p) /\ proc'[p].at = at
         /\ proc'[p].op = proc[p].op /\ proc'[p].r = proc[p].r /\ proc'[p].todo = proc[p].todo
         /\ proc'[p].seen = proc[p].seen /\ proc'[p].items = proc[p].items
         /\ proc'[p].active = proc[p].active /\ proc'[p].d = proc[p].d
  BY DEF Procing, Others, Goto, Goroutine

Moved(g, at) == [g EXCEPT !.at = at]
LEMMA MovedFields ==
  ASSUME NEW g \in Goroutine, NEW at \in Places, NEW h, h = Moved(g, at)
  PROVE  h \in Goroutine /\ h.at = at /\ h.op = g.op /\ h.r = g.r /\ h.todo = g.todo /\ h.seen = g.seen
         /\ h.items = g.items /\ h.active = g.active /\ h.d = g.d
  BY DEF Goroutine, Moved

LEMMA ReturnSet ==
  ASSUME Procing, NEW p \in Goroutines, NEW at \in Places, Return(p, at)
  PROVE  /\ Procing' /\ Others(p)
         /\ proc[p].d = 0 => proc'[p] = Idle
         /\ proc[p].d # 0 => /\ proc'[p].at = at /\ proc'[p].op = proc[p].op /\ proc'[p].r = proc[p].r
                             /\ proc'[p].todo = proc[p].todo /\ proc'[p].d = proc[p].d
                             /\ proc'[p].items = proc[p].items /\ proc'[p].active = proc[p].active
  <1>1. PICK h : h = IF proc[p].d = 0 THEN Idle ELSE Moved(proc[p], at)
    OBVIOUS
  <1>2. proc' = [proc EXCEPT ![p] = h]
    BY <1>1, Zenon DEF Return, Moved
  <1>3. h \in Goroutine
    BY <1>1, MovedFields, IdleTyped DEF Procing
  <1>4. proc[p].d # 0 => /\ h.at = at /\ h.op = proc[p].op /\ h.r = proc[p].r
                         /\ h.todo = proc[p].todo /\ h.d = proc[p].d
                         /\ h.items = proc[p].items /\ h.active = proc[p].active
    BY <1>1, MovedFields DEF Procing
  <1>5. QED
    BY <1>1, <1>2, <1>3, <1>4, ProcSet

\* GitHub's answers.
Asked(g, seen) == [g EXCEPT !.at = "upsert", !.seen = seen]
Answered(g, items) == [g EXCEPT !.at = "replace", !.items = items]
LEMMA AnsweredFields ==
  ASSUME NEW g \in Goroutine, NEW seen \in GhStates, NEW items \in SUBSET Repos,
         NEW h, NEW i, h = Asked(g, seen), i = Answered(g, items)
  PROVE  /\ h \in Goroutine /\ h.at = "upsert" /\ h.seen = seen
         /\ h.op = g.op /\ h.d = g.d /\ h.r = g.r /\ h.todo = g.todo
         /\ i \in Goroutine /\ i.at = "replace" /\ i.items = items
         /\ i.op = g.op /\ i.d = g.d /\ i.r = g.r /\ i.todo = g.todo
  BY Zenon DEF Goroutine, Places, Asked, Answered

\* A repository is taken from those a request still has to link.
Took(g, r) == [g EXCEPT !.at = "target", !.r = r, !.todo = g.todo \ {r}]
LEMMA TookFields ==
  ASSUME NEW g \in Goroutine, NEW r \in Repos, NEW h, h = Took(g, r)
  PROVE  /\ h \in Goroutine /\ h.at = "target" /\ h.r = r /\ h.op = g.op /\ h.d = g.d
         /\ h.todo = g.todo \ {r} /\ h.items = g.items
  <1>1. g.todo \ {r} \in SUBSET Repos
    BY DEF Goroutine
  <1>2. QED
    BY <1>1, Zenon DEF Goroutine, Places, Took

\* Requests, deliveries and retries as they begin.
Completing == [Idle EXCEPT !.op = "complete", !.at = "get"]
Disconnecting(todo) == [Idle EXCEPT !.op = "disconnect", !.at = "cancel", !.todo = todo]
Selecting(todo, items) == [Idle EXCEPT !.op = "select", !.at = "link", !.todo = todo, !.items = items]
Syncing(r) == [Idle EXCEPT !.op = "sync", !.at = "target", !.r = r]
Patching(op, r, active) == [Idle EXCEPT !.op = op, !.at = "write", !.r = r, !.active = active]
Purging == [Idle EXCEPT !.op = "purge", !.at = "delete"]
Handling(d, r) == [Idle EXCEPT !.op = "handle", !.at = "store", !.d = d, !.r = r]
Retrying(d, r, at) == [Idle EXCEPT !.op = "retry", !.d = d, !.r = r, !.at = at]
LEMMA CompletingFields ==
  ASSUME NEW g, g = Completing
  PROVE  g \in Goroutine /\ g.op = "complete" /\ g.at = "get" /\ g.d = 0
  BY IdleTyped, Zenon DEF Goroutine, Places, Ops, Completing

LEMMA DisconnectingFields ==
  ASSUME NEW rs \in SUBSET Repos, NEW g, g = Disconnecting(rs)
  PROVE  g \in Goroutine /\ g.op = "disconnect" /\ g.at = "cancel" /\ g.todo = rs /\ g.d = 0
  BY IdleTyped, Zenon DEF Goroutine, Places, Ops, Disconnecting

LEMMA SelectingFields ==
  ASSUME NEW rs \in SUBSET Repos, NEW items \in SUBSET Repos, NEW g, g = Selecting(rs, items)
  PROVE  g \in Goroutine /\ g.op = "select" /\ g.at = "link" /\ g.todo = rs /\ g.items = items /\ g.d = 0
  BY IdleTyped, Zenon DEF Goroutine, Places, Ops, Selecting

LEMMA SyncingFields ==
  ASSUME NEW r \in Repos, NEW g, g = Syncing(r)
  PROVE  g \in Goroutine /\ g.op = "sync" /\ g.at = "target" /\ g.r = r /\ g.d = 0
  BY IdleTyped, Zenon DEF Goroutine, Places, Ops, Syncing

LEMMA PatchingFields ==
  ASSUME NEW op, op \in Ops, NEW r \in Repos, NEW active \in BOOLEAN, NEW g, g = Patching(op, r, active)
  PROVE  g \in Goroutine /\ g.op = op /\ g.at = "write" /\ g.r = r /\ g.active = active /\ g.d = 0
  BY IdleTyped, Zenon DEF Goroutine, Places, Ops, Patching

LEMMA PurgingFields ==
  ASSUME NEW g, g = Purging
  PROVE  g \in Goroutine /\ g.op = "purge" /\ g.at = "delete" /\ g.d = 0
  BY IdleTyped, Zenon DEF Goroutine, Places, Ops, Purging

LEMMA HandlingFields ==
  ASSUME NEW d \in Nat, NEW r \in Repos \cup {None}, NEW g, g = Handling(d, r)
  PROVE  g \in Goroutine /\ g.op = "handle" /\ g.at = "store" /\ g.r = r /\ g.d = d
  BY IdleTyped, Zenon DEF Goroutine, Places, Ops, Handling

LEMMA RetryingFields ==
  ASSUME NEW d \in Nat, NEW r \in Repos \cup {None}, NEW at, at \in Places, NEW g, g = Retrying(d, r, at)
  PROVE  g \in Goroutine /\ g.op = "retry" /\ g.at = at /\ g.r = r /\ g.d = d
  BY IdleTyped, Zenon DEF Goroutine, Places, Ops, Retrying

-----------------------------------------------------------------------------
(* Where each action takes its goroutine, and no other.                        *)

Went(p, at) ==
  /\ proc'[p].at = at
  /\ proc'[p].op = proc[p].op /\ proc'[p].d = proc[p].d /\ proc'[p].r = proc[p].r
  /\ proc'[p].todo = proc[p].todo /\ proc'[p].items = proc[p].items /\ proc'[p].active = proc[p].active
Released(p) == proc'[p] = Idle
WentBack(p, at) == IF proc[p].d = 0 THEN Released(p) ELSE Went(p, at)
Turn(p) == Procing' /\ Others(p)

LEMMA PlaceIsPlace ==
  \A at : at \in {"get", "upsert", "list", "replace", "find to drop", "drop", "insert", "project", "apply",
                  "done", "mark", "failed", "suspend", "find to refresh"} => at \in Places
  BY DEF Places

LEMMA GotoTurn ==
  ASSUME Procing, NEW p \in Goroutines, NEW at, at \in Places, Goto(p, at)
  PROVE  Turn(p) /\ Went(p, at) /\ proc'[p].seen = proc[p].seen
  BY GotoSet DEF Turn, Went

LEMMA ReturnTurn ==
  ASSUME Procing, NEW p \in Goroutines, NEW at, at \in Places, Return(p, at)
  PROVE  Turn(p) /\ WentBack(p, at)
  BY ReturnSet DEF Turn, Went, WentBack, Released

LEMMA IdleTurn ==
  ASSUME Procing, NEW p \in Goroutines, proc' = [proc EXCEPT ![p] = Idle]
  PROVE  Turn(p) /\ Released(p)
  BY ProcSet, IdleTyped DEF Turn, Released

LEMMA BeginTurn ==
  ASSUME Procing, NEW p, NEW g \in Goroutine, Begin(p, g)
  PROVE  p \in Procs /\ p \in Goroutines /\ Turn(p) /\ proc[p].op = "idle" /\ proc'[p] = g
  BY ProcSet DEF Turn, Begin, Goroutines

\* The next repository of a request, or its end.
NextOne(p) ==
  \/ Released(p)
  \/ /\ proc[p].op = "select" /\ proc'[p].at = "link"
     /\ proc'[p].op = proc[p].op /\ proc'[p].d = proc[p].d
     /\ proc'[p].todo = proc[p].todo /\ proc'[p].items = proc[p].items
Linking(g) == [g EXCEPT !.at = "link", !.r = None]
LEMMA NextTurn ==
  ASSUME Procing, NEW p \in Goroutines, NextRepository(p)
  PROVE  Turn(p) /\ NextOne(p)
  <1>1. PICK h : h = Linking(proc[p])
    OBVIOUS
  <1>2. proc[p] \in Goroutine
    BY DEF Procing
  <1>3. /\ h \in Goroutine /\ h.at = "link" /\ h.op = proc[p].op /\ h.d = proc[p].d
        /\ h.todo = proc[p].todo /\ h.items = proc[p].items
    BY <1>1, <1>2, Zenon DEF Goroutine, Places, Linking
  <1>4. \/ proc[p].op = "select" /\ proc' = [proc EXCEPT ![p] = h]
        \/ proc' = [proc EXCEPT ![p] = Idle]
    BY <1>1, Zenon DEF NextRepository, Linking
  <1>5. QED
    BY <1>3, <1>4, ProcSet, IdleTyped DEF Turn, NextOne, Released

LEMMA FindTurn ==
  ASSUME Procing, NEW p \in Goroutines, FindOrganization(p)
  PROVE  /\ Turn(p)
         /\ \/ inst = None /\ proc[p].at \in {"find to refresh", "find to drop"} /\ WentBack(p, "done")
            \/ inst # None /\ proc[p].at = "find to drop" /\ Went(p, "drop")
            \/ inst # None /\ proc[p].at = "find to refresh" /\ Went(p, "get")
  <1>1. \/ inst = None /\ proc[p].at \in {"find to refresh", "find to drop"} /\ Return(p, "done")
        \/ inst # None /\ proc[p].at = "find to drop" /\ Goto(p, "drop")
        \/ inst # None /\ proc[p].at = "find to refresh" /\ Goto(p, "get")
    BY DEF FindOrganization, At, Succeed
  <1>2. QED
    BY <1>1, GotoTurn, ReturnTurn, PlaceIsPlace

LEMMA GetTurn ==
  ASSUME Procing, gh.state \in GhStates, NEW p \in Goroutines, GetInstallation(p)
  PROVE  /\ Turn(p) /\ proc[p].at = "get"
         /\ \/ WentBack(p, "failed")
            \/ /\ gh.state # "deleted" /\ proc'[p].at = "upsert" /\ proc'[p].seen = gh.state
               /\ proc'[p].op = proc[p].op /\ proc'[p].d = proc[p].d /\ proc'[p].todo = proc[p].todo
  <1>1. PICK h : h = Asked(proc[p], gh.state)
    OBVIOUS
  <1>2. PICK i : i = Answered(proc[p], {})
    OBVIOUS
  <1>3. proc[p] \in Goroutine
    BY DEF Procing
  <1>4. /\ h \in Goroutine /\ h.at = "upsert" /\ h.seen = gh.state
        /\ h.op = proc[p].op /\ h.d = proc[p].d /\ h.r = proc[p].r /\ h.todo = proc[p].todo
    BY <1>1, <1>2, <1>3, AnsweredFields
  <1>5. /\ proc[p].at = "get"
        /\ Return(p, "failed") \/ (gh.state # "deleted" /\ proc' = [proc EXCEPT ![p] = h])
    BY <1>1, Zenon DEF GetInstallation, At, Abort, Asked
  <1>6. QED
    BY <1>4, <1>5, ProcSet, ReturnTurn, PlaceIsPlace DEF Turn

LEMMA ListTurn ==
  ASSUME Procing, gh.repos \in SUBSET Repos, NEW p \in Goroutines, ListInstallationRepositories(p)
  PROVE  /\ Turn(p) /\ proc[p].at = "list"
         /\ \/ WentBack(p, "failed")
            \/ /\ gh.state \notin {"suspended", "deleted"} /\ proc'[p].at = "replace" /\ proc'[p].items = gh.repos
               /\ proc'[p].op = proc[p].op /\ proc'[p].d = proc[p].d /\ proc'[p].todo = proc[p].todo
  <1>1. PICK h : h = Asked(proc[p], "ok")
    OBVIOUS
  <1>2. PICK i : i = Answered(proc[p], gh.repos)
    OBVIOUS
  <1>3. proc[p] \in Goroutine /\ "ok" \in GhStates
    BY DEF Procing, GhStates
  <1>4. /\ i \in Goroutine /\ i.at = "replace" /\ i.items = gh.repos
        /\ i.op = proc[p].op /\ i.d = proc[p].d /\ i.r = proc[p].r /\ i.todo = proc[p].todo
    BY <1>1, <1>2, <1>3, AnsweredFields
  <1>5. /\ proc[p].at = "list"
        /\ \/ Return(p, "failed")
           \/ gh.state \notin {"suspended", "deleted"} /\ proc' = [proc EXCEPT ![p] = i]
    BY <1>2, Zenon DEF ListInstallationRepositories, At, Abort, Answered
  <1>6. QED
    BY <1>4, <1>5, ProcSet, ReturnTurn, PlaceIsPlace DEF Turn

LEMMA CancelTurn ==
  ASSUME Procing, NEW p \in Goroutines, CancelActiveSyncJobs(p)
  PROVE  /\ Turn(p) /\ proc[p].at = "cancel"
         /\ \/ /\ proc[p].todo = {} /\ Went(p, "find to drop") /\ UNCHANGED queued
            \/ \E r \in proc[p].todo :
                 /\ queued' = [queued EXCEPT ![r] = 0]
                 /\ proc'[p].todo = proc[p].todo \ {r} /\ proc'[p].at = "cancel"
                 /\ proc'[p].op = proc[p].op /\ proc'[p].d = proc[p].d
  <1>1. /\ proc[p].at = "cancel"
        /\ \/ \E r \in proc[p].todo :
                queued' = [queued EXCEPT ![r] = 0] /\ proc' = [proc EXCEPT ![p].todo = @ \ {r}]
           \/ proc[p].todo = {} /\ Goto(p, "find to drop") /\ UNCHANGED queued
    BY Zenon DEF CancelActiveSyncJobs, At
  <1>2. ASSUME NEW r \in proc[p].todo, proc' = [proc EXCEPT ![p].todo = @ \ {r}]
        PROVE  /\ Turn(p) /\ proc'[p].todo = proc[p].todo \ {r}
               /\ proc'[p].at = proc[p].at /\ proc'[p].op = proc[p].op /\ proc'[p].d = proc[p].d
    BY <1>2 DEF Procing, Others, Turn, Goroutine
  <1>3. QED
    BY <1>1, <1>2, GotoTurn, PlaceIsPlace

LEMMA LinkTurn ==
  ASSUME Procing, NEW p \in Goroutines, LinkRepositoryAndMarkSelected(p)
  PROVE  /\ Turn(p) /\ proc[p].at = "link"
         /\ \/ /\ WentBack(p, "done") \/ WentBack(p, "failed")
               /\ UNCHANGED <<gir, repo, chosen, raced>>
            \/ \E r \in proc[p].todo :
                 /\ gir[r] # None /\ r \in proc[p].items /\ r \in Repos
                 /\ gir' = [gir EXCEPT ![r].linked = TRUE]
                 /\ repo' = [repo EXCEPT ![r] = "active"]
                 /\ chosen' = chosen \cup {r}
                 /\ raced' = IF inst.disconnected \/ Canceling(r) THEN raced ELSE raced \ {r}
                 /\ proc'[p].at = "target" /\ proc'[p].r = r /\ proc'[p].todo = proc[p].todo \ {r}
                 /\ proc'[p].op = proc[p].op /\ proc'[p].d = proc[p].d /\ proc'[p].items = proc[p].items
  <1>1. CASE UNCHANGED <<gir, repo, chosen, raced>> /\ (Return(p, "done") \/ Return(p, "failed"))
    BY <1>1, ReturnTurn, PlaceIsPlace DEF LinkRepositoryAndMarkSelected, At
  <1>2. ASSUME NEW r \in proc[p].todo,
               gir[r] # None /\ r \in proc[p].items,
               gir' = [gir EXCEPT ![r].linked = TRUE] /\ repo' = [repo EXCEPT ![r] = "active"],
               chosen' = chosen \cup {r} /\ raced' = IF inst.disconnected \/ Canceling(r) THEN raced ELSE raced \ {r},
               proc' = [proc EXCEPT ![p] = Took(proc[p], r)]
        PROVE  /\ Turn(p) /\ r \in Repos
               /\ proc'[p].at = "target" /\ proc'[p].r = r /\ proc'[p].todo = proc[p].todo \ {r}
               /\ proc'[p].op = proc[p].op /\ proc'[p].d = proc[p].d /\ proc'[p].items = proc[p].items
    <2>1. proc[p] \in Goroutine /\ r \in Repos
      BY <1>2 DEF Procing, Goroutine
    <2>2. PICK h : h = Took(proc[p], r)
      OBVIOUS
    <2>3. /\ h \in Goroutine /\ h.at = "target" /\ h.r = r /\ h.op = proc[p].op /\ h.d = proc[p].d
          /\ h.todo = proc[p].todo \ {r} /\ h.items = proc[p].items
      BY <2>1, <2>2, TookFields
    <2>4. QED
      BY <1>2, <2>1, <2>2, <2>3, ProcSet DEF Turn
  <1>3. /\ proc[p].at = "link"
        /\ \/ UNCHANGED <<gir, repo, chosen, raced>> /\ (Return(p, "done") \/ Return(p, "failed"))
           \/ \E r \in proc[p].todo :
               /\ gir[r] # None /\ r \in proc[p].items
               /\ gir' = [gir EXCEPT ![r].linked = TRUE] /\ repo' = [repo EXCEPT ![r] = "active"]
               /\ chosen' = chosen \cup {r} /\ raced' = IF inst.disconnected \/ Canceling(r) THEN raced ELSE raced \ {r}
               /\ proc' = [proc EXCEPT ![p] = Took(proc[p], r)]
    BY Zenon DEF LinkRepositoryAndMarkSelected, At, Succeed, Abort, Took
  <1>4. QED
    BY <1>1, <1>2, <1>3, Zenon

LEMMA UpsertTurn ==
  ASSUME Procing, NEW p \in Goroutines, UpsertInstallation(p)
  PROVE  /\ Turn(p) /\ proc[p].at = "upsert" /\ Went(p, "list")
         /\ inst' = [status |-> DeriveInstallationLifecycleStatus(proc[p].seen),
                     suspended |-> proc[p].seen = "suspended", disconnected |-> FALSE]
         /\ stale' = IF proc[p].seen = gh.state THEN stale \ {"inst"} ELSE stale \cup {"inst"}
         /\ UNCHANGED <<gh, gir, repo, queued, budget, chosen, raced>>
  <1>1. /\ proc[p].at = "upsert" /\ Goto(p, "list")
        /\ inst' = [status |-> DeriveInstallationLifecycleStatus(proc[p].seen),
                    suspended |-> proc[p].seen = "suspended", disconnected |-> FALSE]
        /\ stale' = IF proc[p].seen = gh.state THEN stale \ {"inst"} ELSE stale \cup {"inst"}
        /\ UNCHANGED <<gh, gir, repo, queued, budget, chosen, raced>>
    BY Zenon DEF UpsertInstallation, At
  <1>2. QED
    BY <1>1, GotoTurn, PlaceIsPlace

LEMMA ReplaceTurn ==
  ASSUME Procing, NEW p \in Goroutines, ReplaceAccessibleRepositories(p)
  PROVE  /\ Turn(p) /\ proc[p].at = "replace"
         /\ \/ inst = None /\ WentBack(p, "failed") /\ UNCHANGED <<gir, stale>>
            \/ /\ inst # None /\ WentBack(p, "done")
               /\ gir' = [r \in Repos |->
                    IF r \in proc[p].items THEN Listed(r)
                    ELSE IF gir[r] = None THEN None
                    ELSE [gir[r] EXCEPT !.status = "installation_required"]]
               /\ stale' = IF proc[p].items = gh.repos THEN stale \ {"gir"} ELSE stale \cup {"gir"}
         /\ UNCHANGED <<gh, inst, repo, queued, budget, chosen, raced>>
  <1>1. /\ proc[p].at = "replace"
        /\ \/ inst = None /\ Return(p, "failed") /\ UNCHANGED <<gir, stale>>
           \/ /\ inst # None /\ Return(p, "done")
              /\ gir' = [r \in Repos |->
                   IF r \in proc[p].items THEN Listed(r)
                   ELSE IF gir[r] = None THEN None
                   ELSE [gir[r] EXCEPT !.status = "installation_required"]]
              /\ stale' = IF proc[p].items = gh.repos THEN stale \ {"gir"} ELSE stale \cup {"gir"}
        /\ UNCHANGED <<gh, inst, repo, queued, budget, chosen, raced>>
    BY Zenon DEF ReplaceAccessibleRepositories, At, Abort, Succeed
  <1>2. QED
    BY <1>1, ReturnTurn, PlaceIsPlace, Zenon

LEMMA SuspendTurn ==
  ASSUME Procing, NEW p \in Goroutines, SuspendInstallation(p)
  PROVE  /\ Turn(p) /\ proc[p].at = "suspend" /\ WentBack(p, "done")
         /\ inst' = IF inst = None THEN None
                    ELSE [status |-> "installation_required", suspended |-> TRUE, disconnected |-> FALSE]
         /\ stale' = IF gh.state = "suspended" THEN stale \ {"inst"} ELSE stale \cup {"inst"}
         /\ UNCHANGED <<gh, gir, repo, queued, budget, chosen, raced>>
  <1>1. /\ proc[p].at = "suspend" /\ Return(p, "done")
        /\ inst' = IF inst = None THEN None
                   ELSE [status |-> "installation_required", suspended |-> TRUE, disconnected |-> FALSE]
        /\ stale' = IF gh.state = "suspended" THEN stale \ {"inst"} ELSE stale \cup {"inst"}
        /\ UNCHANGED <<gh, gir, repo, queued, budget, chosen, raced>>
    BY Zenon DEF SuspendInstallation, At, Succeed
  <1>2. QED
    BY <1>1, ReturnTurn, PlaceIsPlace

LEMMA DropTurn ==
  ASSUME Procing, NEW p \in Goroutines, DisconnectInstallation(p)
  PROVE  /\ Turn(p) /\ proc[p].at = "drop" /\ UNCHANGED <<gh, budget>>
         /\ \/ inst = None /\ WentBack(p, "failed") /\ UNCHANGED rows
            \/ /\ inst # None /\ WentBack(p, "done") /\ UNCHANGED queued
               /\ inst' = [status |-> "installation_required", suspended |-> FALSE, disconnected |-> TRUE]
               /\ chosen' = {}
               /\ stale' = IF gh.state = "deleted" THEN {} ELSE {"inst", "gir"}
               /\ raced' = raced \cup UnderWay(p)
                             \cup {r \in Repos : proc[p].op # "disconnect" /\ queued[r] > 0}
               /\ gir' = [r \in Repos |-> IF gir[r] = None THEN None
                            ELSE [status |-> "installation_required", linked |-> FALSE]]
               /\ repo' = [r \in Repos |-> IF r \in Linked THEN "inactive" ELSE repo[r]]
  <1>1. /\ proc[p].at = "drop" /\ UNCHANGED <<gh, budget>>
        /\ \/ inst = None /\ Return(p, "failed") /\ UNCHANGED rows
           \/ /\ inst # None /\ Return(p, "done") /\ UNCHANGED queued
              /\ inst' = [status |-> "installation_required", suspended |-> FALSE, disconnected |-> TRUE]
              /\ chosen' = {}
              /\ stale' = IF gh.state = "deleted" THEN {} ELSE {"inst", "gir"}
              /\ raced' = raced \cup UnderWay(p)
                            \cup {r \in Repos : proc[p].op # "disconnect" /\ queued[r] > 0}
              /\ gir' = [r \in Repos |-> IF gir[r] = None THEN None
                           ELSE [status |-> "installation_required", linked |-> FALSE]]
              /\ repo' = [r \in Repos |-> IF r \in Linked THEN "inactive" ELSE repo[r]]
    BY Zenon DEF DisconnectInstallation, Dropped, At, Succeed, Abort
  <1>2. QED
    BY <1>1, ReturnTurn, PlaceIsPlace, Zenon

LEMMA TargetTurn ==
  ASSUME Procing, NEW p \in Goroutines, GetRepositoryTarget(p)
  PROVE  /\ Turn(p) /\ proc[p].at = "target" /\ UNCHANGED <<rows, gh, budget>>
         /\ (CanSync(proc[p].r) /\ Went(p, "insert")) \/ NextOne(p)
  <1>1. /\ proc[p].at = "target" /\ UNCHANGED <<rows, gh, budget>>
        /\ (CanSync(proc[p].r) /\ Goto(p, "insert")) \/ NextRepository(p)
    BY Zenon DEF GetRepositoryTarget, At
  <1>2. QED
    BY <1>1, NextTurn, GotoTurn, PlaceIsPlace

LEMMA InsertTurn ==
  ASSUME Procing, NEW p \in Goroutines, InsertJob(p)
  PROVE  /\ Turn(p) /\ proc[p].at = "insert" /\ NextOne(p)
         /\ \/ repo[proc[p].r] = "absent" /\ UNCHANGED <<queued, raced>>
            \/ repo[proc[p].r] # "absent" /\ Inserted(proc[p].r)
         /\ UNCHANGED <<gh, inst, gir, repo, budget, chosen, stale>>
  <1>1. /\ proc[p].at = "insert" /\ NextRepository(p)
        /\ \/ repo[proc[p].r] = "absent" /\ UNCHANGED <<queued, raced>>
           \/ repo[proc[p].r] # "absent" /\ Inserted(proc[p].r)
        /\ UNCHANGED <<gh, inst, gir, repo, budget, chosen, stale>>
    BY Zenon DEF InsertJob, At
  <1>2. QED
    BY <1>1, NextTurn

LEMMA WriteTurn ==
  ASSUME Procing, NEW p \in Goroutines, WriteRepository(p)
  PROVE  /\ Turn(p) /\ proc[p].at = "write" /\ WentBack(p, "done")
         /\ repo' = IF repo[proc[p].r] = "absent" THEN repo
                    ELSE [repo EXCEPT ![proc[p].r] = IF proc[p].active THEN "active" ELSE "inactive"]
         /\ raced' = IF proc[p].op = "activate" THEN raced \cup {proc[p].r} ELSE raced
         /\ UNCHANGED <<gh, inst, gir, queued, budget, chosen, stale>>
  <1>1. /\ proc[p].at = "write" /\ Return(p, "done")
        /\ repo' = IF repo[proc[p].r] = "absent" THEN repo
                   ELSE [repo EXCEPT ![proc[p].r] = IF proc[p].active THEN "active" ELSE "inactive"]
        /\ raced' = IF proc[p].op = "activate" THEN raced \cup {proc[p].r} ELSE raced
        /\ UNCHANGED <<gh, inst, gir, queued, budget, chosen, stale>>
    BY DEF WriteRepository, At, Succeed
  <1>2. QED
    BY <1>1, ReturnTurn, PlaceIsPlace

LEMMA CallFailsTurn ==
  ASSUME Procing, NEW p \in Goroutines, CallFails(p)
  PROVE  /\ Turn(p) /\ Spend /\ UNCHANGED <<rows, gh>>
         /\ \/ proc[p].at = "insert" /\ NextOne(p)
            \/ proc[p].at \in Refreshing \cup {"suspend", "find to refresh", "find to drop", "drop", "cancel", "link"}
               /\ WentBack(p, "failed")
  <1>1. /\ Spend /\ UNCHANGED <<rows, gh>>
        /\ \/ proc[p].at = "insert" /\ NextRepository(p)
           \/ proc[p].at \in Refreshing \cup {"suspend", "find to refresh", "find to drop", "drop", "cancel", "link"}
              /\ Return(p, "failed")
    BY DEF CallFails, At, Abort, Refreshing
  <1>2. QED
    BY <1>1, NextTurn, ReturnTurn, PlaceIsPlace

-----------------------------------------------------------------------------
(* Requests.                                                                    *)

\* The goroutine of a request, as it begins.
Request0(g) ==
  \/ g.op = "complete" /\ g.at = "get"
  \/ g.op = "disconnect" /\ g.at = "cancel" /\ g.todo = Linked
  \/ /\ g.op = "select" /\ g.at = "link"
     /\ g.items \subseteq {r \in Repos : gir[r] # None /\ gir[r].status = "accessible"}
  \/ g.op = "sync" /\ g.at = "target" /\ g.r \in Repos
  \/ g.op = "patch" /\ g.at = "write" /\ g.r \in Repos /\ g.active = (repo[g.r] = "active")
  \/ g.op = "activate" /\ g.at = "write" /\ g.r \in Repos
  \/ g.op = "purge" /\ g.at = "delete"

LEMMA RequestTurn ==
  ASSUME Procing, budget \in [requests : 0 .. MaxRequests, faults : 0 .. MaxFaults],
         NEW p \in Procs, ConnRequest(p)
  PROVE  /\ Turn(p) /\ proc[p].op = "idle" /\ UNCHANGED <<rows, gh>>
         /\ Request0(proc'[p]) /\ proc'[p].d = 0
         /\ budget' \in [requests : 0 .. MaxRequests, faults : 0 .. MaxFaults]
  <1>1. ASSUME NEW g \in Goroutine, Request(p, g)
        PROVE  /\ Turn(p) /\ proc[p].op = "idle" /\ proc'[p] = g
               /\ budget' \in [requests : 0 .. MaxRequests, faults : 0 .. MaxFaults]
    <2>1. Begin(p, g) /\ budget.requests > 0 /\ budget' = [budget EXCEPT !.requests = @ - 1]
      BY <1>1, Zenon DEF Request
    <2>2. QED
      BY <2>1, BeginTurn, ConnectionAssumption
  <1>2. CASE CompleteInstallation(p)
    <2>1. PICK g : g = Completing
      OBVIOUS
    <2>2. Request(p, g) /\ UNCHANGED <<rows, gh>>
      BY <1>2, <2>1, Zenon DEF CompleteInstallation, Completing
    <2>3. QED
      BY <2>1, <2>2, <1>1, CompletingFields DEF Request0
  <1>3. CASE Disconnect(p)
    <2>1. Linked \in SUBSET Repos
      BY DEF Linked
    <2>2. PICK g : g = Disconnecting(Linked)
      OBVIOUS
    <2>3. Request(p, g) /\ UNCHANGED <<rows, gh>>
      BY <1>3, <2>2, Zenon DEF Disconnect, Disconnecting
    <2>4. QED
      BY <2>1, <2>2, <2>3, <1>1, DisconnectingFields DEF Request0
  <1>4. CASE SelectRepositories(p)
    <2>1. PICK rs \in SUBSET Repos : /\ \A r \in rs : gir[r] # None
                                     /\ Request(p, Selecting(rs, {r \in rs : gir[r].status = "accessible"}))
                                     /\ UNCHANGED <<rows, gh>>
      BY <1>4, Zenon DEF SelectRepositories, Selecting
    <2>2. PICK items \in SUBSET Repos : items = {r \in rs : gir[r].status = "accessible"}
      BY <2>1
    <2>3. PICK g : g = Selecting(rs, items)
      OBVIOUS
    <2>4. items \subseteq {r \in Repos : gir[r] # None /\ gir[r].status = "accessible"}
      BY <2>1, <2>2
    <2>5. Request(p, g)
      BY <2>1, <2>2, <2>3, Zenon
    <2>6. QED
      BY <2>1, <2>3, <2>4, <2>5, <1>1, SelectingFields DEF Request0
  <1>5. CASE PurgeInstallation(p)
    <2>1. PICK g : g = Purging
      OBVIOUS
    <2>2. Request(p, g) /\ UNCHANGED <<rows, gh>>
      BY <1>5, <2>1, Zenon DEF PurgeInstallation, Purging
    <2>3. QED
      BY <2>1, <2>2, <1>1, PurgingFields DEF Request0
  <1>6. ASSUME NEW r \in Repos, RequestSync(p, r)
        PROVE  /\ Turn(p) /\ proc[p].op = "idle" /\ UNCHANGED <<rows, gh>>
               /\ Request0(proc'[p]) /\ proc'[p].d = 0
               /\ budget' \in [requests : 0 .. MaxRequests, faults : 0 .. MaxFaults]
    <2>1. PICK g : g = Syncing(r)
      OBVIOUS
    <2>2. Request(p, g) /\ UNCHANGED <<rows, gh>>
      BY <1>6, <2>1, Zenon DEF RequestSync, Syncing
    <2>3. QED
      BY <2>1, <2>2, <1>1, SyncingFields DEF Request0
  <1>7. ASSUME NEW r \in Repos, UpdateRepository(p, r)
        PROVE  /\ Turn(p) /\ proc[p].op = "idle" /\ UNCHANGED <<rows, gh>>
               /\ Request0(proc'[p]) /\ proc'[p].d = 0
               /\ budget' \in [requests : 0 .. MaxRequests, faults : 0 .. MaxFaults]
    <2>1. PICK b \in BOOLEAN : b = (repo[r] = "active")
      OBVIOUS
    <2>2. ASSUME NEW op, NEW active \in BOOLEAN, op = "activate" \/ (op = "patch" /\ active = b),
                 Request(p, Patching(op, r, active)), UNCHANGED <<rows, gh>>
          PROVE  /\ Turn(p) /\ proc[p].op = "idle" /\ UNCHANGED <<rows, gh>>
                 /\ Request0(proc'[p]) /\ proc'[p].d = 0
                 /\ budget' \in [requests : 0 .. MaxRequests, faults : 0 .. MaxFaults]
      <3>1. PICK g : g = Patching(op, r, active)
        OBVIOUS
      <3>2. op \in Ops
        BY <2>2 DEF Ops
      <3>3. g \in Goroutine /\ g.op = op /\ g.at = "write" /\ g.r = r /\ g.active = active /\ g.d = 0
        BY <3>1, <3>2, PatchingFields
      <3>4. QED
        BY <2>1, <2>2, <3>1, <3>3, <1>1 DEF Request0
    <2>3. \/ Request(p, Patching("patch", r, b)) /\ UNCHANGED <<rows, gh>>
          \/ \E active \in BOOLEAN : Request(p, Patching("activate", r, active)) /\ UNCHANGED <<rows, gh>>
      BY <1>7, <2>1, Zenon DEF UpdateRepository, Patching
    <2>4. QED
      BY <2>2, <2>3
  <1>8. QED
    BY <1>2, <1>3, <1>4, <1>5, <1>6, <1>7, Zenon DEF ConnRequest

-----------------------------------------------------------------------------
(* Deliveries: what each step leaves of a row, and of the goroutine at it.      *)

HandledBy(p) == proc[p].d \in DOMAIN sent /\ proc[p].d \in Deliveries /\ sent[proc[p].d] \in Payload

LEMMA SentTyped ==
  ASSUME TypeOK
  PROVE  /\ DOMAIN sent \subseteq Deliveries /\ Deliveries \subseteq Nat /\ 0 \notin Deliveries
         /\ \A d \in DOMAIN sent : sent[d] \in Payload
         /\ \E n \in 0 .. MaxDeliveries : sent \in [1 .. n -> Payload]
  <1>1. PICK n \in 0 .. MaxDeliveries : sent \in [1 .. n -> Payload]
    BY DEF TypeOK
  <1>2. QED
    BY <1>1, WebhookAssumption DEF Deliveries

LEMMA HandlerTyped ==
  ASSUME TypeInv, NEW p \in Goroutines, proc[p].op \in {"handle", "retry"}
  PROVE  HandledBy(p)
  BY SentTyped, IdleTyped DEF TypeInv, Placed, OfDelivery, OfRequest, HandledBy

\* A new row, and those of before.
LEMMA NewRowFields ==
  ASSUME NEW p \in Goroutines, Procing, NEW job \in BOOLEAN, NEW row, row = NewRow(p, job)
  PROVE  /\ row \in Row /\ row.status = (IF job THEN "enqueued" ELSE "ignored") /\ row.jobs \in {0, 1}
         /\ row.applied = FALSE /\ row.known = (inst # None) /\ row.payload = TRUE /\ row.job = job
  BY WebhookAssumption DEF Procing, Goroutine, Row, NewRow

Marked(row, status, applied) == [row EXCEPT !.status = status, !.applied = applied]
Failing(row, n) == [row EXCEPT !.status = "failed", !.retries = n]
Dead(row) == [row EXCEPT !.status = "dead_letter"]
Orphan(row) == [row EXCEPT !.r = None, !.job = FALSE]
Purged(row) == [row EXCEPT !.payload = FALSE]
Kept(old, new) == new \in Row /\ new.jobs = old.jobs /\ new.known = old.known

LEMMA MarkedFields ==
  ASSUME NEW row \in Row, NEW status, status \in {"enqueued", "ignored", "processed"},
         NEW applied \in BOOLEAN, NEW new, new = Marked(row, status, applied)
  PROVE  Kept(row, new) /\ new.status = status /\ new.applied = applied
  BY Zenon DEF Row, Marked, Kept

LEMMA FailingFields ==
  ASSUME NEW row \in Row, NEW n \in 0 .. MaxRetries, NEW new, new = Failing(row, n)
  PROVE  Kept(row, new) /\ new.status = "failed" /\ new.applied = row.applied
  BY Zenon DEF Row, Failing, Kept

LEMMA DeadFields ==
  ASSUME NEW row \in Row, NEW new, new = Dead(row)
  PROVE  Kept(row, new) /\ new.status = "dead_letter" /\ new.applied = row.applied
  BY Zenon DEF Row, Dead, Kept

LEMMA OrphanFields ==
  ASSUME NEW row \in Row, NEW new, new = Orphan(row)
  PROVE  Kept(row, new) /\ new.status = row.status /\ new.applied = row.applied
  BY Zenon DEF Row, Orphan, Kept

LEMMA PurgedFields ==
  ASSUME NEW row \in Row, NEW new, new = Purged(row)
  PROVE  Kept(row, new) /\ new.status = row.status /\ new.applied = row.applied
  BY Zenon DEF Row, Purged, Kept

Rowing == delivery \in [Deliveries -> Row \cup {None}]
\* Only d's row changes, to new.
RowSet(d, new) == delivery' = [delivery EXCEPT ![d] = new]
OtherRows(d) == \A e \in Deliveries : e # d => delivery'[e] = delivery[e]

LEMMA RowSetTyped ==
  ASSUME Rowing, NEW d \in Deliveries, NEW new \in Row, RowSet(d, new)
  PROVE  Rowing' /\ delivery'[d] = new /\ OtherRows(d)
  BY DEF Rowing, RowSet, OtherRows

\* GitHub delivers.
LEMMA HandleTurn ==
  ASSUME TypeInv, NEW p, NEW d, Handle(p, d)
  PROVE  /\ p \in Procs /\ p \in Goroutines /\ Turn(p) /\ proc[p].op = "idle"
         /\ d \in DOMAIN sent
         /\ proc'[p].op = "handle" /\ proc'[p].at = "store" /\ proc'[p].d = d
         /\ \/ proc'[p].r = None
            \/ proc'[p].r \in Repos /\ repo[proc'[p].r] = "active"
         /\ budget' = budget \/ Spend
         /\ UNCHANGED <<rows, gh, webhookVars>>
  <1>1. PICK r : r = IF sent[d].r # None /\ repo[sent[d].r] = "active" THEN sent[d].r ELSE None
    OBVIOUS
  <1>2. PICK g : g = Handling(d, r)
    OBVIOUS
  <1>3. /\ d \in DOMAIN sent /\ Begin(p, g) /\ (budget' = budget \/ Spend) /\ UNCHANGED <<rows, gh, webhookVars>>
    BY <1>1, <1>2, Zenon DEF Handle, Handling
  <1>4. d \in Nat /\ sent[d] \in Payload
    BY <1>3, SentTyped DEF TypeInv
  <1>5. r = None \/ (r \in Repos /\ repo[r] = "active")
    BY <1>1, <1>4 DEF Payload
  <1>6. g \in Goroutine /\ g.op = "handle" /\ g.at = "store" /\ g.r = r /\ g.d = d
    BY <1>2, <1>4, <1>5, HandlingFields
  <1>7. Procing
    BY DEF TypeInv, TypeOK, ConnTypeOK, Procing
  <1>8. QED
    BY <1>3, <1>5, <1>6, <1>7, BeginTurn

LEMMA EnqueueTurn ==
  ASSUME Procing, Rowing, NEW p \in Goroutines, HandledBy(p), EnqueueWebhookSync(p)
  PROVE  /\ Turn(p) /\ proc[p].at = "store" /\ Rowing' /\ OtherRows(proc[p].d)
         /\ UNCHANGED <<gh, inst, gir, repo, budget, chosen, stale, sent, deployed, lost>>
         /\ \/ Released(p) /\ UNCHANGED <<queued, raced, delivery>>
            \/ /\ delivery[proc[p].d] = None
               /\ proc[p].r # None => repo[proc[p].r] # "absent"
               /\ delivery'[proc[p].d] \in Row /\ delivery'[proc[p].d].status \in {"enqueued", "ignored"}
               /\ delivery'[proc[p].d].jobs \in {0, 1} /\ delivery'[proc[p].d].applied = FALSE
               /\ \/ WithJob(p) /\ Went(p, "project") /\ Inserted(proc[p].r)
                  \/ ~WithJob(p) /\ Went(p, "apply") /\ UNCHANGED <<queued, raced>>
  <1>1. PICK job \in BOOLEAN : job = WithJob(p)
    BY DEF WithJob
  <1>2. PICK row : row = NewRow(p, job)
    OBVIOUS
  <1>3. /\ row \in Row /\ row.status = (IF job THEN "enqueued" ELSE "ignored") /\ row.jobs \in {0, 1}
        /\ row.applied = FALSE
    BY <1>2, NewRowFields
  <1>4. PICK d \in Deliveries : d = proc[p].d
    BY DEF HandledBy
  <1>5. /\ proc[p].at = "store"
        /\ UNCHANGED <<gh, inst, gir, repo, budget, chosen, stale, sent, deployed, lost>>
        /\ \/ proc' = [proc EXCEPT ![p] = Idle] /\ UNCHANGED <<queued, raced, delivery>>
           \/ /\ delivery[d] = None
              /\ proc[p].r # None => repo[proc[p].r] # "absent"
              /\ RowSet(d, row)
              /\ \/ WithJob(p) /\ Goto(p, "project") /\ Inserted(proc[p].r)
                 \/ ~WithJob(p) /\ Goto(p, "apply") /\ UNCHANGED <<queued, raced>>
    BY <1>1, <1>2, <1>4, Zenon DEF EnqueueWebhookSync, At, RowSet
  <1>6. CASE proc' = [proc EXCEPT ![p] = Idle] /\ UNCHANGED <<queued, raced, delivery>>
    BY <1>5, <1>6, IdleTurn DEF OtherRows, Rowing
  <1>7. CASE /\ delivery[d] = None
             /\ proc[p].r # None => repo[proc[p].r] # "absent"
             /\ RowSet(d, row)
             /\ \/ WithJob(p) /\ Goto(p, "project") /\ Inserted(proc[p].r)
                \/ ~WithJob(p) /\ Goto(p, "apply") /\ UNCHANGED <<queued, raced>>
    <2>1. Rowing' /\ delivery'[d] = row /\ OtherRows(d)
      BY <1>3, <1>7, RowSetTyped
    <2>2. Turn(p) /\ \/ WithJob(p) /\ Went(p, "project") /\ Inserted(proc[p].r)
                     \/ ~WithJob(p) /\ Went(p, "apply") /\ UNCHANGED <<queued, raced>>
      BY <1>7, GotoTurn, PlaceIsPlace
    <2>3. row.status \in {"enqueued", "ignored"}
      BY <1>3
    <2>4. QED
      BY <2>1, <2>2, <2>3, <1>3, <1>4, <1>5, <1>7
  <1>8. QED
    BY <1>5, <1>6, <1>7

LEMMA ProjectTurn ==
  ASSUME Procing, NEW p \in Goroutines, ProjectRepositoryEvent(p)
  PROVE  /\ Turn(p) /\ proc[p].at = "project"
         /\ UNCHANGED <<rows, gh, budget, sent, delivery, lost>>
         /\ \/ WentBack(p, "failed") /\ UNCHANGED deployed
            \/ /\ deployed' = [deployed EXCEPT ![proc[p].r] = NewerDeployment(deployed[proc[p].r], proc[p].d)]
               /\ \/ proc[p].op = "retry" /\ Went(p, "mark")
                  \/ proc[p].op # "retry" /\ Released(p)
  <1>1. /\ proc[p].at = "project"
        /\ UNCHANGED <<rows, gh, budget, sent, delivery, lost>>
        /\ \/ Return(p, "failed") /\ UNCHANGED deployed
           \/ /\ deployed' = [deployed EXCEPT ![proc[p].r] = NewerDeployment(deployed[proc[p].r], proc[p].d)]
              /\ \/ proc[p].op = "retry" /\ Goto(p, "mark")
                 \/ proc[p].op # "retry" /\ proc' = [proc EXCEPT ![p] = Idle]
    BY Zenon DEF ProjectRepositoryEvent, At, Abort
  <1>2. QED
    BY <1>1, ReturnTurn, GotoTurn, IdleTurn, PlaceIsPlace

LEMMA ProcessTurn ==
  ASSUME Procing, NEW p \in Goroutines, ProcessPersistedDelivery(p)
  PROVE  /\ Turn(p) /\ proc[p].at = "apply" /\ UNCHANGED <<rows, gh, budget, webhookVars>>
         /\ \/ KindOf(p) = "deployment" /\ Released(p)
            \/ KindOf(p) = "deleted" /\ Went(p, "find to drop")
            \/ KindOf(p) = "suspend" /\ Went(p, "suspend")
            \/ KindOf(p) = "refresh" /\ Went(p, "find to refresh")
            \/ KindOf(p) \notin InstallationKinds /\ Went(p, "mark")
  <1>1. /\ proc[p].at = "apply" /\ UNCHANGED <<rows, gh, budget, webhookVars>>
        /\ \/ KindOf(p) = "deployment" /\ proc' = [proc EXCEPT ![p] = Idle]
           \/ KindOf(p) = "deleted" /\ Goto(p, "find to drop")
           \/ KindOf(p) = "suspend" /\ Goto(p, "suspend")
           \/ KindOf(p) = "refresh" /\ Goto(p, "find to refresh")
           \/ KindOf(p) \notin InstallationKinds /\ Goto(p, "mark")
    BY DEF ProcessPersistedDelivery, At, IsSupportedEvent, InstallationKinds
  <1>2. QED
    BY <1>1, GotoTurn, IdleTurn, PlaceIsPlace

\* A row gets its verdict.
LEMMA MarkTurn ==
  ASSUME Procing, Rowing, NEW p \in Goroutines, HandledBy(p), MarkDeliveryStatus(p)
  PROVE  /\ Turn(p) /\ proc[p].at \in {"done", "mark"} /\ Released(p)
         /\ UNCHANGED <<rows, gh, budget, sent, deployed, lost>>
         /\ Rowing' /\ OtherRows(proc[p].d)
         /\ \/ delivery[proc[p].d] = None /\ UNCHANGED delivery
            \/ /\ delivery[proc[p].d] # None /\ delivery'[proc[p].d] # None
               /\ Kept(delivery[proc[p].d], delivery'[proc[p].d])
               /\ delivery'[proc[p].d].applied = (proc[p].at = "done")
  <1>1. PICK d \in Deliveries : d = proc[p].d
    BY DEF HandledBy
  <1>2. PICK status : status = DeriveProcessedStatus(delivery[d], KindOf(p))
    OBVIOUS
  <1>3. PICK applied \in BOOLEAN : applied = (proc[p].at = "done")
    OBVIOUS
  <1>4. PICK new : new = Marked(delivery[d], status, applied)
    OBVIOUS
  <1>5. /\ proc[p].at \in {"done", "mark"} /\ proc' = [proc EXCEPT ![p] = Idle]
        /\ UNCHANGED <<rows, gh, budget, sent, deployed, lost>>
        /\ \/ delivery[d] = None /\ UNCHANGED delivery
           \/ delivery[d] # None /\ RowSet(d, new)
    BY <1>1, <1>2, <1>3, <1>4, Zenon DEF MarkDeliveryStatus, At, Marked, RowSet
  <1>6. status \in {"enqueued", "ignored", "processed"}
    BY <1>2 DEF DeriveProcessedStatus
  <1>7. CASE delivery[d] = None /\ UNCHANGED delivery
    BY <1>1, <1>5, <1>7, IdleTurn DEF OtherRows, Rowing
  <1>8. CASE delivery[d] # None /\ RowSet(d, new)
    <2>1. delivery[d] \in Row
      BY <1>8 DEF Rowing
    <2>2. PICK row \in Row : row = delivery[d]
      BY <2>1
    <2>8. new = Marked(row, status, applied)
      BY <2>2, <1>4
    <2>9. Kept(row, new) /\ new.applied = applied
      BY <2>8, <1>6, MarkedFields
    <2>10. new \in Row
      BY <2>9, Zenon DEF Kept
    <2>3. Rowing' /\ delivery'[d] = new /\ OtherRows(d)
      BY <2>10, <1>8, RowSetTyped
    <2>4. new # None
      BY <2>10, NoDeliveryRow
    <2>5. QED
      BY <2>2, <2>9, <2>3, <2>4, <1>1, <1>3, <1>5, <1>8, IdleTurn
  <1>9. QED
    BY <1>5, <1>7, <1>8

\* A failure is written down.
LEMMA ScheduleTurn ==
  ASSUME Procing, Rowing, NEW p \in Goroutines, HandledBy(p), ScheduleRetryFailure(p)
  PROVE  /\ Turn(p) /\ proc[p].at = "failed" /\ Released(p)
         /\ UNCHANGED <<rows, gh, budget, sent, deployed, lost>>
         /\ Rowing' /\ OtherRows(proc[p].d)
         /\ \/ delivery[proc[p].d] = None /\ UNCHANGED delivery
            \/ /\ delivery[proc[p].d] # None /\ delivery'[proc[p].d] # None
               /\ Kept(delivery[proc[p].d], delivery'[proc[p].d])
               /\ delivery'[proc[p].d].status \in {"failed", "dead_letter"}
               /\ delivery'[proc[p].d].applied = delivery[proc[p].d].applied
  <1>1. PICK d \in Deliveries : d = proc[p].d
    BY DEF HandledBy
  <1>2. PICK new : new = Failing(delivery[d], delivery[d].retries + 1)
    OBVIOUS
  <1>3. PICK dead : dead = Dead(delivery[d])
    OBVIOUS
  <1>4. /\ proc[p].at = "failed" /\ proc' = [proc EXCEPT ![p] = Idle]
        /\ UNCHANGED <<rows, gh, budget, sent, deployed, lost>>
        /\ \/ delivery[d] = None /\ UNCHANGED delivery
           \/ delivery[d] # None /\ delivery' = [delivery EXCEPT ![d].status = "dead_letter"]
           \/ delivery[d] # None /\ ~(delivery[d].retries + 1 >= MaxRetries) /\ RowSet(d, new)
    BY <1>1, <1>2, Zenon DEF ScheduleRetryFailure, At, Failing, RowSet
  <1>5. CASE delivery[d] = None /\ UNCHANGED delivery
    BY <1>1, <1>4, <1>5, IdleTurn DEF OtherRows, Rowing
  <1>6. CASE delivery[d] # None /\ delivery' = [delivery EXCEPT ![d].status = "dead_letter"]
    <2>1. RowSet(d, dead)
      BY <1>3, <1>6 DEF RowSet, Dead
    <2>2. PICK row \in Row : row = delivery[d]
      BY <1>6 DEF Rowing
    <2>3. dead = Dead(row)
      BY <2>2, <1>3
    <2>4. Kept(row, dead) /\ dead.status = "dead_letter" /\ dead.applied = row.applied
      BY <2>3, DeadFields
    <2>5. dead \in Row
      BY <2>4, Zenon DEF Kept
    <2>6. Rowing' /\ delivery'[d] = dead /\ OtherRows(d) /\ dead # None
      BY <2>1, <2>5, RowSetTyped, NoDeliveryRow
    <2>7. QED
      BY <2>2, <2>4, <2>6, <1>1, <1>4, <1>6, IdleTurn
  <1>7. CASE delivery[d] # None /\ ~(delivery[d].retries + 1 >= MaxRetries) /\ RowSet(d, new)
    <2>1. PICK row \in Row : row = delivery[d]
      BY <1>7 DEF Rowing
    <2>2. PICK n \in 0 .. MaxRetries : n = row.retries + 1
      BY <2>1, <1>7, WebhookAssumption DEF Row
    <2>3. new = Failing(row, n)
      BY <2>1, <2>2, <1>2
    <2>4. Kept(row, new) /\ new.status = "failed" /\ new.applied = row.applied
      BY <2>3, FailingFields
    <2>5. new \in Row
      BY <2>4, Zenon DEF Kept
    <2>6. Rowing' /\ delivery'[d] = new /\ OtherRows(d) /\ new # None
      BY <2>5, <1>7, RowSetTyped, NoDeliveryRow
    <2>7. QED
      BY <2>1, <2>4, <2>6, <1>1, <1>4, <1>7, IdleTurn
  <1>8. QED
    BY <1>4, <1>5, <1>6, <1>7

\* The worker takes up a delivery that failed.
LEMMA RetryTurn ==
  ASSUME Procing, Rowing, TypeInv, NEW d \in Deliveries, Retry(d)
  PROVE  /\ Turn(Worker) /\ Worker \in Goroutines /\ proc[Worker].op = "idle"
         /\ UNCHANGED <<rows, gh, budget, webhookVars>>
         /\ delivery[d] # None /\ delivery[d].status = "failed"
         /\ proc'[Worker].op = "retry" /\ proc'[Worker].d = d /\ proc'[Worker].r = delivery[d].r
         /\ \/ proc'[Worker].at = "project" /\ delivery[d].r \in Repos /\ sent[d].kind = "deployment"
            \/ proc'[Worker].at = "apply"
            \/ proc'[Worker].at = "mark" /\ (IsInstallationEvent(sent[d].kind) => ~delivery[d].known)
  <1>1. PICK at : at = RetryAt(d)
    OBVIOUS
  <1>2. PICK g : g = Retrying(d, delivery[d].r, at)
    OBVIOUS
  <1>3. /\ delivery[d] # None /\ delivery[d].status = "failed" /\ proc[Worker].op = "idle"
        /\ proc' = [proc EXCEPT ![Worker] = g]
        /\ UNCHANGED <<rows, gh, budget, webhookVars>>
    BY <1>1, <1>2, Zenon DEF Retry, Retryable, Retrying
  <1>4. PICK r \in Repos \cup {None} : r = delivery[d].r
    BY <1>3 DEF Rowing, Row
  <1>5. /\ at \in {"project", "apply", "mark"}
        /\ at = "project" => r \in Repos /\ sent[d].kind = "deployment"
        /\ at = "mark" => (IsInstallationEvent(sent[d].kind) => ~delivery[d].known)
    BY <1>1, <1>4 DEF RetryAt, IsSupportedEvent
  <1>6. d \in Nat /\ at \in Places /\ g = Retrying(d, r, at)
    BY <1>2, <1>4, <1>5, SentTyped, PlaceIsPlace DEF TypeInv
  <1>7. g \in Goroutine /\ g.op = "retry" /\ g.at = at /\ g.r = r /\ g.d = d
    BY <1>6, RetryingFields
  <1>8. Worker \in Goroutines
    BY DEF Goroutines
  <1>9. Turn(Worker) /\ proc'[Worker] = g
    BY <1>3, <1>7, <1>8, ProcSet DEF Turn
  <1>10. QED
    BY <1>3, <1>4, <1>5, <1>7, <1>8, <1>9

\* The purges.
LEMMA CleanupTurn ==
  ASSUME Rowing, NEW d \in Deliveries, CleanupExpiredWebhookPayload(d)
  PROVE  /\ Rowing' /\ OtherRows(d) /\ UNCHANGED <<rows, gh, proc, budget, sent, deployed, lost>>
         /\ delivery[d] # None /\ delivery'[d] # None /\ Kept(delivery[d], delivery'[d])
         /\ delivery'[d].status = delivery[d].status /\ delivery'[d].applied = delivery[d].applied
  <1>1. PICK new : new = Purged(delivery[d])
    OBVIOUS
  <1>2. delivery' = [delivery EXCEPT ![d].payload = FALSE] /\ delivery[d] # None
    BY Zenon DEF CleanupExpiredWebhookPayload
  <1>3. RowSet(d, new) /\ UNCHANGED <<rows, gh, proc, budget, sent, deployed, lost>>
    BY <1>1, <1>2 DEF CleanupExpiredWebhookPayload, Purged, RowSet
  <1>4. PICK row \in Row : row = delivery[d]
    BY <1>2 DEF Rowing
  <1>5. new = Purged(row)
    BY <1>1, <1>4
  <1>6. Kept(row, new) /\ new.status = row.status /\ new.applied = row.applied
    BY <1>5, PurgedFields
  <1>7. new \in Row
    BY <1>6, Zenon DEF Kept
  <1>8. QED
    BY <1>2, <1>3, <1>4, <1>6, <1>7, RowSetTyped, NoDeliveryRow

LEMMA DeleteTurn ==
  ASSUME Procing, Rowing, NEW p \in Goroutines, DeleteInstallation(p)
  PROVE  /\ Turn(p) /\ proc[p].at = "delete" /\ WentBack(p, "done")
         /\ inst' = None /\ gir' = [r \in Repos |-> None]
         /\ repo' = [r \in Repos |-> IF gir[r] = None THEN repo[r] ELSE "absent"]
         /\ queued' = [r \in Repos |-> IF gir[r] = None THEN queued[r] ELSE 0]
         /\ deployed' = [r \in Repos |-> IF gir[r] = None THEN deployed[r] ELSE [status |-> 0, at |-> 0]]
         /\ lost' = lost \cup {d \in Deliveries : delivery[d] # None}
         /\ stale' = {"inst", "gir"} /\ chosen' = {}
         /\ UNCHANGED <<gh, raced, budget, sent>>
         /\ Rowing'
         /\ \A d \in Deliveries : delivery'[d] # None =>
              /\ delivery[d] # None /\ Kept(delivery[d], delivery'[d])
              /\ delivery'[d].status = delivery[d].status /\ delivery'[d].applied = delivery[d].applied
  <1>1. /\ proc[p].at = "delete" /\ Return(p, "done")
        /\ inst' = None /\ gir' = [r \in Repos |-> None]
        /\ repo' = [r \in Repos |-> IF gir[r] = None THEN repo[r] ELSE "absent"]
        /\ queued' = [r \in Repos |-> IF gir[r] = None THEN queued[r] ELSE 0]
        /\ deployed' = [r \in Repos |-> IF gir[r] = None THEN deployed[r] ELSE [status |-> 0, at |-> 0]]
        /\ lost' = lost \cup {d \in Deliveries : delivery[d] # None}
        /\ stale' = {"inst", "gir"} /\ chosen' = {}
        /\ UNCHANGED <<gh, raced, budget, sent>>
    BY Zenon DEF DeleteInstallation, At, Succeed
  <1>2. delivery' = [d \in Deliveries |->
          IF delivery[d] = None \/ delivery[d].known THEN None
          ELSE IF delivery[d].r = None THEN delivery[d] ELSE Orphan(delivery[d])]
    BY Zenon DEF DeleteInstallation, Orphan
  <1>3. ASSUME NEW d \in Deliveries
        PROVE  /\ delivery'[d] \in Row \cup {None}
               /\ delivery'[d] # None =>
                    /\ delivery[d] # None /\ Kept(delivery[d], delivery'[d])
                    /\ delivery'[d].status = delivery[d].status /\ delivery'[d].applied = delivery[d].applied
    <2>1. \/ delivery'[d] = None
          \/ delivery[d] # None /\ delivery'[d] = delivery[d]
          \/ delivery[d] # None /\ delivery'[d] = Orphan(delivery[d])
      BY <1>2
    <2>2. CASE delivery[d] # None /\ delivery'[d] = Orphan(delivery[d])
      <3>1. PICK row \in Row : row = delivery[d]
        BY <2>2 DEF Rowing
      <3>2. PICK new : new = Orphan(row)
        OBVIOUS
      <3>3. Kept(row, new) /\ new.status = row.status /\ new.applied = row.applied
        BY <3>2, OrphanFields
      <3>4. new \in Row
        BY <3>3, Zenon DEF Kept
      <3>5. QED
        BY <2>2, <3>1, <3>2, <3>3, <3>4
    <2>3. CASE delivery[d] # None /\ delivery'[d] = delivery[d]
      BY <2>3 DEF Rowing, Kept
    <2>4. QED
      BY <2>1, <2>2, <2>3
  <1>4. Rowing'
    <2>1. delivery' \in [Deliveries -> Row \cup {None}]
      BY <1>2, <1>3
    <2>2. QED
      BY <2>1 DEF Rowing
  <1>5. QED
    BY <1>1, <1>3, <1>4, ReturnTurn, PlaceIsPlace

\* Faults.
LEMMA DeliveryFailsTurn ==
  ASSUME Procing, NEW p \in Goroutines, DeliveryFails(p)
  PROVE  /\ Turn(p) /\ Released(p) /\ Spend /\ UNCHANGED <<rows, gh, sent, delivery, deployed>>
         /\ \/ proc[p].at = "store" /\ lost' = lost
            \/ proc[p].op = "retry" /\ proc[p].at \in {"done", "mark"} /\ lost' = lost
            \/ proc[p].at = "failed" /\ proc[p].op = "handle" /\ lost' = lost \cup {proc[p].d}
            \/ proc[p].at = "failed" /\ proc[p].op # "handle" /\ lost' = lost
  <1>1. /\ proc' = [proc EXCEPT ![p] = Idle] /\ Spend /\ UNCHANGED <<rows, gh, sent, delivery, deployed>>
        /\ \/ proc[p].at = "store" /\ lost' = lost
           \/ proc[p].op = "retry" /\ proc[p].at \in {"done", "mark"} /\ lost' = lost
           \/ proc[p].at = "failed" /\ proc[p].op = "handle" /\ lost' = lost \cup {proc[p].d}
           \/ proc[p].at = "failed" /\ proc[p].op # "handle" /\ lost' = lost
    BY DEF DeliveryFails, At
  <1>2. QED
    BY <1>1, IdleTurn

LEMMA StatementFailsTurn ==
  ASSUME Procing, NEW p \in Goroutines, StatementFails(p)
  PROVE  /\ Turn(p) /\ Went(p, "failed") /\ Spend /\ UNCHANGED <<rows, gh, webhookVars>>
         /\ proc[p].at = "project" \/ (proc[p].op = "handle" /\ proc[p].at \in {"done", "mark"})
  <1>1. /\ Goto(p, "failed") /\ Spend /\ UNCHANGED <<rows, gh, webhookVars>>
        /\ proc[p].at = "project" \/ (proc[p].op = "handle" /\ proc[p].at \in {"done", "mark"})
    BY Zenon DEF StatementFails, At
  <1>2. QED
    BY <1>1, GotoTurn, PlaceIsPlace

LEMMA EndsTurn ==
  ASSUME Procing, NEW p \in Goroutines, GoroutineEnds(p)
  PROVE  /\ Turn(p) /\ Released(p) /\ Spend /\ UNCHANGED <<rows, gh, sent, delivery, deployed>>
         /\ proc[p].op # "idle"
         /\ lost' = IF proc[p].op = "handle" THEN lost \cup {proc[p].d} ELSE lost
  BY IdleTurn DEF GoroutineEnds

LEMMA SpendTyped ==
  ASSUME budget \in [requests : 0 .. MaxRequests, faults : 0 .. MaxFaults], Spend
  PROVE  budget' \in [requests : 0 .. MaxRequests, faults : 0 .. MaxFaults]
  BY ConnectionAssumption DEF Spend

\* GitHub changes: one more delivery.
OneMore(kind, r) ==
  /\ DOMAIN sent \subseteq DOMAIN sent' /\ \A d \in DOMAIN sent : sent'[d] = sent[d]
  /\ \E d \in DOMAIN sent' \ DOMAIN sent :
       d \in Deliveries /\ sent'[d] = [kind |-> kind, r |-> r] /\ DOMAIN sent' = DOMAIN sent \cup {d}
  /\ sent' \in UNION {[1 .. n -> Payload] : n \in 0 .. MaxDeliveries}

LEMMA SendsOne ==
  ASSUME TypeOK, NEW kind \in Kinds, NEW r \in Repos \cup {None}, Send(kind, r)
  PROVE  OneMore(kind, r)
  <1>1. PICK n \in 0 .. MaxDeliveries : sent \in [1 .. n -> Payload]
    BY SentTyped
  <1>2. n \in Nat /\ DOMAIN sent = 1 .. n
    BY <1>1, WebhookAssumption
  <1>3. Cardinality(DOMAIN sent) = n
    BY <1>2, FS_Interval
  <1>4. n < MaxDeliveries /\ sent' = [d \in 1 .. n + 1 |-> IF d <= n THEN sent[d] ELSE [kind |-> kind, r |-> r]]
    BY <1>3 DEF Send
  <1>5. PICK m \in 0 .. MaxDeliveries : m = n + 1
    BY <1>2, <1>4, WebhookAssumption
  <1>6. [kind |-> kind, r |-> r] \in Payload
    BY DEF Payload
  <1>7. sent' \in [1 .. m -> Payload] /\ DOMAIN sent' = 1 .. m
    BY <1>1, <1>2, <1>4, <1>5, <1>6
  <1>8. \A d \in 1 .. n : d \in 1 .. m /\ sent'[d] = sent[d]
    BY <1>2, <1>4, <1>5
  <1>9. /\ m \in 1 .. m /\ m \notin 1 .. n /\ sent'[m] = [kind |-> kind, r |-> r] /\ 1 .. m = (1 .. n) \cup {m}
        /\ m \in Deliveries
    BY <1>2, <1>4, <1>5, WebhookAssumption DEF Deliveries
  <1>10. QED
    BY <1>2, <1>7, <1>8, <1>9 DEF OneMore

\* Events of GitHub that change the installation, and the others.
LEMMA ChangeTurn ==
  ASSUME TypeOK, GithubChange
  PROVE  /\ UNCHANGED <<rows, proc, budget, delivery, deployed, lost>>
         /\ gh' \in [state : GhStates, repos : SUBSET Repos] /\ gh.state # "deleted"
         /\ \/ OneMore("deleted", None) /\ gh'.state = "deleted" /\ gh'.repos = gh.repos
            \/ OneMore("suspend", None) /\ gh'.state = "suspended" /\ gh'.repos = gh.repos
            \/ OneMore("refresh", None)
  <1>1. /\ UNCHANGED <<rows, proc, budget, delivery, deployed, lost>> /\ gh.state # "deleted"
        /\ \/ Send("deleted", None) /\ gh' = [gh EXCEPT !.state = "deleted"]
           \/ Send("suspend", None) /\ gh' = [gh EXCEPT !.state = "suspended"]
           \/ Send("refresh", None) /\ gh' = [gh EXCEPT !.state = "ok"]
           \/ \E rs \in SUBSET Repos : Send("refresh", None) /\ gh' = [gh EXCEPT !.repos = rs]
    BY DEF GithubChange
  <1>2. gh \in [state : GhStates, repos : SUBSET Repos]
    BY DEF TypeOK, ConnTypeOK
  <1>3. \A kind \in {"deleted", "suspend", "refresh"} : kind \in Kinds
    BY DEF Kinds, InstallationKinds
  <1>4. None \in Repos \cup {None}
    OBVIOUS
  <1>5. gh' \in [state : GhStates, repos : SUBSET Repos]
    BY <1>1, <1>2 DEF GhStates
  <1>6. CASE Send("deleted", None) /\ gh' = [gh EXCEPT !.state = "deleted"]
    BY <1>1, <1>2, <1>3, <1>4, <1>5, <1>6, SendsOne
  <1>7. CASE Send("suspend", None) /\ gh' = [gh EXCEPT !.state = "suspended"]
    BY <1>1, <1>2, <1>3, <1>4, <1>5, <1>7, SendsOne
  <1>8. CASE Send("refresh", None)
    BY <1>1, <1>2, <1>3, <1>4, <1>5, <1>8, SendsOne
  <1>9. QED
    BY <1>1, <1>6, <1>7, <1>8

LEMMA EventTurn ==
  ASSUME TypeOK, NEW r \in Repos, RepositoryEvent(r)
  PROVE  /\ UNCHANGED <<rows, gh, proc, budget, delivery, deployed, lost>>
         /\ OneMore("deployment", r) \/ OneMore("other", None)
  <1>1. "deployment" \in Kinds /\ "other" \in Kinds /\ r \in Repos \cup {None} /\ None \in Repos \cup {None}
    BY DEF Kinds
  <1>2. /\ UNCHANGED <<rows, gh, proc, budget, delivery, deployed, lost>>
        /\ Send("deployment", r) \/ Send("other", None)
    BY Zenon DEF RepositoryEvent
  <1>3. QED
    BY <1>1, <1>2, SendsOne

-----------------------------------------------------------------------------
(* Types, and where goroutines are: one lemma per kind of variable.             *)

RowsOK ==
  /\ inst \in Installation \cup {None}
  /\ gir \in [Repos -> AccessRow \cup {None}]
  /\ repo \in [Repos -> {"absent", "active", "inactive"}]
  /\ queued \in [Repos -> Nat]
  /\ chosen \in SUBSET Repos /\ raced \in SUBSET Repos
  /\ stale \in SUBSET {"inst", "gir"}
GhOK == gh \in [state : GhStates, repos : SUBSET Repos]
BudgetOK == budget \in [requests : 0 .. MaxRequests, faults : 0 .. MaxFaults]
SentOK == sent \in UNION {[1 .. n -> Payload] : n \in 0 .. MaxDeliveries}
DeployedOK == deployed \in [Repos -> [status : 0 .. MaxDeliveries, at : 0 .. MaxDeliveries]]

LEMMA TypeParts ==
  TypeOK <=> /\ RowsOK /\ GhOK /\ BudgetOK /\ SentOK /\ DeployedOK
             /\ Procing /\ Rowing /\ lost \in SUBSET Deliveries
  BY DEF TypeOK, ConnTypeOK, RowsOK, GhOK, BudgetOK, SentOK, DeployedOK, Procing, Rowing

LEMMA TypePartsNext ==
  TypeOK' <=> /\ RowsOK' /\ GhOK' /\ BudgetOK' /\ SentOK' /\ DeployedOK'
              /\ Procing' /\ Rowing' /\ lost' \in SUBSET Deliveries
  BY DEF TypeOK, ConnTypeOK, RowsOK, GhOK, BudgetOK, SentOK, DeployedOK, Procing, Rowing

LEMMA PlacedFacts ==
  ASSUME TypeInv, NEW p \in Goroutines
  PROVE  /\ Placed(p) /\ proc[p] \in Goroutine
         /\ proc[p].at \in {"target", "insert", "write", "project"} => proc[p].r \in Repos
         /\ proc[p].at = "upsert" => proc[p].seen # "deleted"
         /\ proc[p].d = 0 \/ (proc[p].d # 0 /\ proc[p].d \in DOMAIN sent /\ proc[p].d \in Deliveries)
  <1>1. Placed(p) /\ proc[p] \in Goroutine
    BY DEF TypeInv, TypeOK, ConnTypeOK
  <1>2. QED
    BY <1>1, SentTyped, IdleTyped DEF TypeInv, Placed, OfRequest, OfDelivery, Refreshing

LEMMA InsertedTyped ==
  ASSUME RowsOK, NEW r \in Repos, Inserted(r)
  PROVE  queued' \in [Repos -> Nat] /\ raced' \in SUBSET Repos
  BY DEF RowsOK, Inserted

LEMMA RowsConnStep ==
  ASSUME TypeInv, NEW p \in Goroutines, ConnStep(p)
  PROVE  RowsOK' /\ Turn(p) /\ gh' = gh /\ budget' = budget
  <1>1. RowsOK /\ Procing /\ GhOK /\ BudgetOK
    BY TypeParts DEF TypeInv
  <1>2. gh.state \in GhStates /\ gh.repos \in SUBSET Repos
    BY <1>1 DEF GhOK
  <1>3. proc[p] \in Goroutine
    BY PlacedFacts
  <1>4. CASE FindOrganization(p)
    BY <1>1, <1>4, FindTurn DEF FindOrganization, rows, RowsOK
  <1>5. CASE GetInstallation(p)
    BY <1>1, <1>2, <1>5, GetTurn DEF GetInstallation, rows, RowsOK
  <1>6. CASE UpsertInstallation(p)
    <2>1. PICK suspended \in BOOLEAN : suspended = (proc[p].seen = "suspended")
      OBVIOUS
    <2>2. PICK status \in {"connected", "installation_required"} :
            status = DeriveInstallationLifecycleStatus(proc[p].seen)
      BY DEF DeriveInstallationLifecycleStatus
    <2>3. inst' = [status |-> status, suspended |-> suspended, disconnected |-> FALSE]
      BY <1>1, <1>6, <2>1, <2>2, UpsertTurn
    <2>4. inst' \in Installation
      BY <2>3 DEF Installation
    <2>5. stale' \in SUBSET {"inst", "gir"} /\ Turn(p) /\ UNCHANGED <<gh, gir, repo, queued, budget, chosen, raced>>
      BY <1>1, <1>6, UpsertTurn DEF RowsOK
    <2>6. QED
      BY <1>1, <2>4, <2>5 DEF RowsOK
  <1>7. CASE ListInstallationRepositories(p)
    BY <1>1, <1>2, <1>7, ListTurn DEF ListInstallationRepositories, rows, RowsOK
  <1>8. CASE ReplaceAccessibleRepositories(p)
    <2>1. ASSUME gir' = [r \in Repos |->
                    IF r \in proc[p].items THEN Listed(r)
                    ELSE IF gir[r] = None THEN None
                    ELSE [gir[r] EXCEPT !.status = "installation_required"]]
          PROVE  gir' \in [Repos -> AccessRow \cup {None}]
      <3>1. ASSUME NEW r \in Repos PROVE gir'[r] \in AccessRow \cup {None}
        BY <1>1, <2>1 DEF RowsOK, Listed, AccessRow
      <3>2. QED
        BY <2>1, <3>1
    <2>2. \/ UNCHANGED <<gir, stale>>
          \/ gir' \in [Repos -> AccessRow \cup {None}] /\ stale' \in SUBSET {"inst", "gir"}
      BY <1>1, <1>8, <2>1, ReplaceTurn DEF RowsOK
    <2>3. QED
      BY <1>1, <1>8, <2>2, ReplaceTurn DEF RowsOK
  <1>9. CASE SuspendInstallation(p)
    <2>1. inst' \in Installation \cup {None}
      <3>1. \/ inst' = None
            \/ inst' = [status |-> "installation_required", suspended |-> TRUE, disconnected |-> FALSE]
        BY <1>1, <1>9, SuspendTurn
      <3>2. [status |-> "installation_required", suspended |-> TRUE, disconnected |-> FALSE] \in Installation
        BY DEF Installation
      <3>3. QED
        BY <3>1, <3>2
    <2>2. stale' \in SUBSET {"inst", "gir"} /\ Turn(p) /\ UNCHANGED <<gh, gir, repo, queued, budget, chosen, raced>>
      BY <1>1, <1>9, SuspendTurn DEF RowsOK
    <2>3. QED
      BY <1>1, <2>1, <2>2 DEF RowsOK
  <1>10. CASE DisconnectInstallation(p)
    <2>1. UnderWay(p) \subseteq Repos
      <3>1. \A q \in Goroutines \ {p} : proc[q].todo \subseteq Repos /\ proc[q].r \in Repos \cup {None}
        BY <1>1 DEF Procing, Goroutine
      <3>2. QED
        BY <3>1 DEF UnderWay
    <2>2. CASE UNCHANGED rows
      BY <1>1, <1>10, <2>2, DropTurn DEF RowsOK, rows
    <2>3. CASE ~ UNCHANGED rows
      <3>1. /\ Turn(p) /\ UNCHANGED <<gh, budget, queued>>
            /\ inst' = [status |-> "installation_required", suspended |-> FALSE, disconnected |-> TRUE]
            /\ chosen' = {} /\ stale' \in SUBSET {"inst", "gir"}
        BY <1>1, <1>10, <2>3, DropTurn
      <3>2. inst' \in Installation
        BY <3>1 DEF Installation
      <3>3. raced' \in SUBSET Repos
        BY <1>1, <1>10, <2>1, <2>3, DropTurn DEF RowsOK
      <3>4. gir' \in [Repos -> AccessRow \cup {None}]
        <4>1. gir' = [r \in Repos |-> IF gir[r] = None THEN None
                         ELSE [status |-> "installation_required", linked |-> FALSE]]
          BY <1>1, <1>10, <2>3, DropTurn
        <4>2. [status |-> "installation_required", linked |-> FALSE] \in AccessRow
          BY DEF AccessRow
        <4>3. QED
          BY <4>1, <4>2
      <3>5. repo' \in [Repos -> {"absent", "active", "inactive"}]
        BY <1>1, <1>10, <2>3, DropTurn DEF RowsOK
      <3>6. QED
        BY <1>1, <3>1, <3>2, <3>3, <3>4, <3>5 DEF RowsOK
    <2>4. QED
      BY <2>2, <2>3
  <1>11. CASE CancelActiveSyncJobs(p)
    <2>1. UNCHANGED <<gh, inst, gir, repo, budget, chosen, raced, stale>>
      BY <1>11, Zenon DEF CancelActiveSyncJobs
    <2>2. Turn(p) /\ queued' \in [Repos -> Nat]
      <3>1. Turn(p) /\ \/ queued' = queued
                       \/ \E r \in proc[p].todo : queued' = [queued EXCEPT ![r] = 0]
        BY <1>1, <1>11, CancelTurn
      <3>2. queued \in [Repos -> Nat]
        BY <1>1 DEF RowsOK
      <3>3. QED
        BY <3>1, <3>2
    <2>3. QED
      BY <1>1, <2>1, <2>2 DEF RowsOK
  <1>12. CASE LinkRepositoryAndMarkSelected(p)
    <2>1. UNCHANGED <<gh, inst, queued, budget, stale>>
      BY <1>12, Zenon DEF LinkRepositoryAndMarkSelected
    <2>2. Turn(p) /\ \/ UNCHANGED <<gir, repo, chosen, raced>>
                     \/ \E r \in Repos : /\ gir[r] # None /\ gir' = [gir EXCEPT ![r].linked = TRUE]
                                         /\ repo' = [repo EXCEPT ![r] = "active"]
                                         /\ chosen' = chosen \cup {r} /\ raced' \subseteq raced
      BY <1>1, <1>12, LinkTurn
    <2>3. gir' \in [Repos -> AccessRow \cup {None}] /\ repo' \in [Repos -> {"absent", "active", "inactive"}]
      <3>1. gir \in [Repos -> AccessRow \cup {None}] /\ repo \in [Repos -> {"absent", "active", "inactive"}]
        BY <1>1 DEF RowsOK
      <3>2. CASE UNCHANGED <<gir, repo, chosen, raced>>
        BY <3>1, <3>2
      <3>3. ASSUME NEW r \in Repos, gir[r] # None, gir' = [gir EXCEPT ![r].linked = TRUE],
                   repo' = [repo EXCEPT ![r] = "active"]
            PROVE  gir' \in [Repos -> AccessRow \cup {None}] /\ repo' \in [Repos -> {"absent", "active", "inactive"}]
        <4>1. gir[r] \in AccessRow
          BY <3>1, <3>3
        <4>2. [gir[r] EXCEPT !.linked = TRUE] \in AccessRow
          BY <4>1 DEF AccessRow
        <4>3. QED
          BY <3>1, <3>3, <4>2
      <3>4. QED
        BY <2>2, <3>2, <3>3
    <2>4. chosen' \in SUBSET Repos /\ raced' \in SUBSET Repos
      BY <1>1, <2>2 DEF RowsOK
    <2>5. QED
      BY <1>1, <2>1, <2>2, <2>3, <2>4 DEF RowsOK
  <1>13. CASE GetRepositoryTarget(p)
    BY <1>1, <1>13, TargetTurn DEF rows, RowsOK
  <1>14. CASE InsertJob(p)
    <2>1. proc[p].r \in Repos
      BY <1>1, <1>14, InsertTurn, PlacedFacts
    <2>2. queued' \in [Repos -> Nat] /\ raced' \in SUBSET Repos
      BY <1>1, <1>14, <2>1, InsertTurn, InsertedTyped DEF RowsOK
    <2>3. QED
      BY <1>1, <1>14, <2>2, InsertTurn DEF RowsOK
  <1>15. CASE WriteRepository(p)
    <2>1. proc[p].r \in Repos
      BY <1>1, <1>15, WriteTurn, PlacedFacts
    <2>2. Turn(p) /\ UNCHANGED <<gh, inst, gir, queued, budget, chosen, stale>>
      BY <1>1, <1>15, WriteTurn
    <2>3. PICK state \in {"active", "inactive"} : state = IF proc[p].active THEN "active" ELSE "inactive"
      OBVIOUS
    <2>4. repo' = repo \/ repo' = [repo EXCEPT ![proc[p].r] = state]
      BY <1>1, <1>15, <2>3, WriteTurn
    <2>5. raced' \in SUBSET Repos
      BY <1>1, <1>15, <2>1, WriteTurn DEF RowsOK
    <2>6. repo' \in [Repos -> {"absent", "active", "inactive"}]
      BY <1>1, <2>4 DEF RowsOK
    <2>7. QED
      BY <1>1, <2>2, <2>5, <2>6 DEF RowsOK
  <1>16. QED
    BY <1>4, <1>5, <1>6, <1>7, <1>8, <1>9, <1>10, <1>11, <1>12, <1>13, <1>14, <1>15, Zenon DEF ConnStep

LEMMA PlacedConnStep ==
  ASSUME TypeInv, NEW p \in Goroutines, ConnStep(p), sent' = sent
  PROVE  Placed(p)'
  <1>1. Procing /\ gh.state \in GhStates /\ gh.repos \in SUBSET Repos
    BY TypeParts DEF TypeInv, GhOK
  <1>2. /\ Placed(p)
        /\ proc[p].d = 0 \/ (proc[p].d # 0 /\ proc[p].d \in DOMAIN sent)
        /\ Idle.at = "idle"
    BY PlacedFacts, IdleTyped
  <1> USE DEF Placed, OfRequest, OfDelivery, Refreshing, Went, WentBack, Released, NextOne
  <1>3. CASE FindOrganization(p)
    <2>1. \/ proc[p].at \in {"find to refresh", "find to drop"} /\ WentBack(p, "done")
          \/ proc[p].at = "find to drop" /\ Went(p, "drop")
          \/ proc[p].at = "find to refresh" /\ Went(p, "get")
      BY <1>1, <1>3, FindTurn
    <2>2. QED
      BY <1>2, <2>1
  <1>4. CASE GetInstallation(p)
    BY <1>1, <1>2, <1>4, GetTurn
  <1>5. CASE UpsertInstallation(p)
    BY <1>1, <1>2, <1>5, UpsertTurn
  <1>6. CASE ListInstallationRepositories(p)
    BY <1>1, <1>2, <1>6, ListTurn
  <1>7. CASE ReplaceAccessibleRepositories(p)
    BY <1>1, <1>2, <1>7, ReplaceTurn
  <1>8. CASE SuspendInstallation(p)
    BY <1>1, <1>2, <1>8, SuspendTurn
  <1>9. CASE DisconnectInstallation(p)
    BY <1>1, <1>2, <1>9, DropTurn
  <1>10. CASE CancelActiveSyncJobs(p)
    BY <1>1, <1>2, <1>10, CancelTurn
  <1>11. CASE LinkRepositoryAndMarkSelected(p)
    BY <1>1, <1>2, <1>11, LinkTurn
  <1>12. CASE GetRepositoryTarget(p)
    BY <1>1, <1>2, <1>12, TargetTurn
  <1>13. CASE InsertJob(p)
    BY <1>1, <1>2, <1>13, InsertTurn
  <1>14. CASE WriteRepository(p)
    BY <1>1, <1>2, <1>14, WriteTurn
  <1>15. QED
    BY <1>3, <1>4, <1>5, <1>6, <1>7, <1>8, <1>9, <1>10, <1>11, <1>12, <1>13, <1>14, Zenon DEF ConnStep

LEMMA OthersPlaced ==
  ASSUME TypeInv, sent' = sent \/ \E kind \in Kinds, r \in Repos \cup {None} : OneMore(kind, r)
  PROVE  \A q \in Goroutines : proc'[q] = proc[q] => Placed(q)'
  <1>1. DOMAIN sent \subseteq DOMAIN sent' /\ \A d \in DOMAIN sent : sent'[d] = sent[d]
    BY DEF OneMore
  <1>2. ASSUME NEW q \in Goroutines, proc'[q] = proc[q]
        PROVE  Placed(q)'
    <2>1. Placed(q) /\ (OfDelivery(proc[q]) => proc[q].d \in DOMAIN sent)
      BY DEF TypeInv, OfDelivery
    <2>2. OfDelivery(proc[q]) => OfDelivery(proc[q])'
      BY <1>1, <1>2 DEF OfDelivery
    <2>3. OfRequest(proc[q])' <=> OfRequest(proc[q])
      BY <1>2 DEF OfRequest
    <2>4. Idle' = Idle
      BY DEF Idle
    <2>5. QED
      BY <1>2, <2>1, <2>2, <2>3, <2>4 DEF Placed
  <1>3. QED
    BY <1>2

LEMMA PlacedRest ==
  ASSUME TypeInv, NEW p \in Goroutines, sent' = sent,
         \/ EnqueueWebhookSync(p) \/ ProjectRepositoryEvent(p) \/ ProcessPersistedDelivery(p)
         \/ MarkDeliveryStatus(p) \/ ScheduleRetryFailure(p) \/ DeleteInstallation(p)
         \/ CallFails(p) \/ DeliveryFails(p) \/ StatementFails(p) \/ GoroutineEnds(p)
  PROVE  Placed(p)' /\ Turn(p)
  <1>1. Procing /\ Rowing
    BY TypeParts DEF TypeInv
  <1>2. /\ Placed(p)
        /\ proc[p].d = 0 \/ (proc[p].d # 0 /\ proc[p].d \in DOMAIN sent)
        /\ Idle.at = "idle"
    BY PlacedFacts, IdleTyped
  <1>3. proc[p].at \in {"store", "project", "apply", "mark", "done", "failed"} => HandledBy(p)
    BY <1>2, HandlerTyped, IdleTyped DEF Placed, OfRequest, Refreshing
  <1> USE DEF Placed, OfRequest, OfDelivery, Refreshing, Went, WentBack, Released, NextOne
  <1>4. CASE EnqueueWebhookSync(p)
    <2>1. proc[p].at = "store"
      BY <1>4, Zenon DEF EnqueueWebhookSync, At
    <2>2. WithJob(p) => sent[proc[p].d].kind = "deployment" /\ proc[p].r # None
      BY DEF WithJob, KindOf, IsSupportedEvent
    <2>3. proc[p].r \in Repos \cup {None}
      BY <1>1 DEF Procing, Goroutine
    <2>4. QED
      BY <1>1, <1>2, <1>3, <2>1, <2>2, <2>3, <1>4, EnqueueTurn
  <1>5. CASE ProjectRepositoryEvent(p)
    BY <1>1, <1>2, <1>5, ProjectTurn
  <1>6. CASE ProcessPersistedDelivery(p)
    <2>1. /\ Turn(p) /\ proc[p].at = "apply"
          /\ \/ KindOf(p) = "deployment" /\ Released(p)
             \/ KindOf(p) = "deleted" /\ Went(p, "find to drop")
             \/ KindOf(p) = "suspend" /\ Went(p, "suspend")
             \/ KindOf(p) = "refresh" /\ Went(p, "find to refresh")
             \/ KindOf(p) \notin InstallationKinds /\ Went(p, "mark")
      BY <1>1, <1>6, ProcessTurn
    <2>2. QED
      BY <1>2, <2>1 DEF KindOf
  <1>7. CASE MarkDeliveryStatus(p)
    <2>1. proc[p].at \in {"mark", "done"}
      BY <1>7 DEF MarkDeliveryStatus, At
    <2>2. QED
      BY <1>1, <1>2, <1>3, <2>1, <1>7, MarkTurn
  <1>8. CASE ScheduleRetryFailure(p)
    <2>1. proc[p].at = "failed"
      BY <1>8 DEF ScheduleRetryFailure, At
    <2>2. QED
      BY <1>1, <1>2, <1>3, <2>1, <1>8, ScheduleTurn
  <1>9. CASE DeleteInstallation(p)
    BY <1>1, <1>2, <1>9, DeleteTurn
  <1>10. CASE CallFails(p)
    <2>1. /\ Turn(p)
          /\ \/ proc[p].at = "insert" /\ NextOne(p)
             \/ /\ proc[p].at \in Refreshing \cup
                                   {"suspend", "find to refresh", "find to drop", "drop", "cancel", "link"}
                /\ WentBack(p, "failed")
      BY <1>1, <1>10, CallFailsTurn
    <2>2. QED
      BY <1>2, <2>1
  <1>11. CASE DeliveryFails(p)
    BY <1>1, <1>2, <1>11, DeliveryFailsTurn
  <1>12. CASE StatementFails(p)
    BY <1>1, <1>2, <1>12, StatementFailsTurn
  <1>13. CASE GoroutineEnds(p)
    BY <1>1, <1>2, <1>13, EndsTurn
  <1>14. QED
    BY <1>4, <1>5, <1>6, <1>7, <1>8, <1>9, <1>10, <1>11, <1>12, <1>13, Zenon

LEMMA MaxOfTwo ==
  ASSUME NEW a \in Nat, NEW b \in Nat
  PROVE  Max({a, b}) = IF a >= b THEN a ELSE b
  <1>1. PICK m : m = IF a >= b THEN a ELSE b
    OBVIOUS
  <1>2. m \in {a, b} /\ \A y \in {a, b} : m >= y
    BY <1>1
  <1>3. ASSUME NEW x \in {a, b}, \A y \in {a, b} : x >= y
        PROVE  x = m
    BY <1>1, <1>3
  <1>4. Max({a, b}) \in {a, b} /\ \A y \in {a, b} : Max({a, b}) >= y
    BY <1>2, Zenon DEF Max
  <1>5. QED
    BY <1>1, <1>3, <1>4

\* The later of two dates, with its status.
LEMMA NewerFields ==
  ASSUME NEW old \in [status : 0 .. MaxDeliveries, at : 0 .. MaxDeliveries], NEW d \in Deliveries,
         NEW new, new = NewerDeployment(old, d)
  PROVE  /\ new \in [status : 0 .. MaxDeliveries, at : 0 .. MaxDeliveries]
         /\ old.status = old.at => new.status = new.at
  <1>1. old.at \in Nat /\ d \in Nat
    BY WebhookAssumption DEF Deliveries
  <1>2. Max({old.at, d}) = IF old.at >= d THEN old.at ELSE d
    BY <1>1, MaxOfTwo
  <1>3. PICK at \in 0 .. MaxDeliveries : at = Max({old.at, d})
    BY <1>2, WebhookAssumption DEF Deliveries
  <1>4. PICK status \in 0 .. MaxDeliveries : status = IF d >= old.at THEN d ELSE old.status
    BY WebhookAssumption DEF Deliveries
  <1>5. new = [status |-> status, at |-> at]
    BY <1>3, <1>4, Zenon DEF NewerDeployment
  <1>6. new.status = status /\ new.at = at
    BY <1>5
  <1>7. QED
    BY <1>1, <1>2, <1>3, <1>4, <1>5, <1>6

LEMMA TypesOfRest ==
  ASSUME TypeInv, NEW p \in Goroutines,
         \/ EnqueueWebhookSync(p) \/ ProjectRepositoryEvent(p) \/ ProcessPersistedDelivery(p)
         \/ MarkDeliveryStatus(p) \/ ScheduleRetryFailure(p) \/ DeleteInstallation(p)
         \/ CallFails(p) /\ UNCHANGED webhookVars
         \/ DeliveryFails(p) \/ StatementFails(p) \/ GoroutineEnds(p)
  PROVE  /\ RowsOK' /\ gh' = gh /\ BudgetOK' /\ sent' = sent /\ DeployedOK' /\ Rowing'
         /\ lost' \in SUBSET Deliveries
         /\ \A d \in Deliveries : delivery'[d] # None => d \in DOMAIN sent
  <1>1. /\ Procing /\ Rowing /\ RowsOK /\ BudgetOK /\ DeployedOK /\ lost \in SUBSET Deliveries
        /\ \A d \in Deliveries : delivery[d] # None => d \in DOMAIN sent
    BY TypeParts DEF TypeInv
  <1>2. /\ Placed(p)
        /\ proc[p].d = 0 \/ (proc[p].d # 0 /\ proc[p].d \in DOMAIN sent /\ proc[p].d \in Deliveries)
        /\ Idle.at = "idle"
    BY PlacedFacts, IdleTyped
  <1>3. /\ proc[p].at \in {"store", "project", "apply", "mark", "done", "failed"} => HandledBy(p)
        /\ proc[p].op \in {"handle", "retry"} => HandledBy(p)
    BY <1>2, HandlerTyped, IdleTyped DEF Placed, OfRequest, Refreshing
  <1>4. Spend => BudgetOK'
    BY <1>1, SpendTyped DEF BudgetOK
  <1>5. /\ UNCHANGED rows => RowsOK'
        /\ UNCHANGED budget => BudgetOK'
        /\ UNCHANGED deployed => DeployedOK'
        /\ UNCHANGED delivery => Rowing'
    BY <1>1 DEF RowsOK, rows, BudgetOK, DeployedOK, Rowing
  <1>6. CASE EnqueueWebhookSync(p)
    <2>1. proc[p].at = "store"
      BY <1>6, Zenon DEF EnqueueWebhookSync, At
    <2>2. HandledBy(p) /\ proc[p].d \in Deliveries /\ proc[p].d \in DOMAIN sent
      BY <2>1, <1>3 DEF HandledBy
    <2>3. Rowing' /\ OtherRows(proc[p].d) /\ UNCHANGED <<gh, inst, gir, repo, budget, chosen, stale, sent, deployed, lost>>
      BY <1>1, <2>2, <1>6, EnqueueTurn
    <2>4. UNCHANGED <<queued, raced>> \/ (WithJob(p) /\ Inserted(proc[p].r))
      BY <1>1, <2>2, <1>6, EnqueueTurn
    <2>5. WithJob(p) => proc[p].r \in Repos
      BY <1>1 DEF WithJob, Procing, Goroutine
    <2>6. queued' \in [Repos -> Nat] /\ raced' \in SUBSET Repos
      BY <1>1, <2>4, <2>5, InsertedTyped DEF RowsOK
    <2>7. RowsOK'
      BY <1>1, <2>3, <2>6 DEF RowsOK
    <2>8. \A d \in Deliveries : delivery'[d] # None => d \in DOMAIN sent
      BY <1>1, <2>2, <2>3 DEF OtherRows
    <2>9. QED
      BY <1>1, <1>5, <2>3, <2>7, <2>8
  <1>7. CASE ProjectRepositoryEvent(p)
    <2>1. proc[p].at = "project" /\ UNCHANGED <<rows, gh, budget, sent, delivery, lost>>
          /\ \/ UNCHANGED deployed
             \/ deployed' = [deployed EXCEPT ![proc[p].r] = NewerDeployment(deployed[proc[p].r], proc[p].d)]
      BY <1>1, <1>7, ProjectTurn
    <2>2. PICK d \in Deliveries : d = proc[p].d
      BY <2>1, <1>3 DEF HandledBy
    <2>3. PICK r \in Repos : r = proc[p].r
      BY <2>1, PlacedFacts
    <2>4. PICK old : old = deployed[r]
      OBVIOUS
    <2>5. PICK new : new = NewerDeployment(old, d)
      OBVIOUS
    <2>6. old \in [status : 0 .. MaxDeliveries, at : 0 .. MaxDeliveries]
      BY <1>1, <2>4 DEF DeployedOK
    <2>7. new \in [status : 0 .. MaxDeliveries, at : 0 .. MaxDeliveries]
      BY <2>5, <2>6, NewerFields
    <2>8. UNCHANGED deployed \/ deployed' = [deployed EXCEPT ![r] = new]
      BY <2>1, <2>2, <2>3, <2>4, <2>5
    <2>9. DeployedOK'
      BY <1>1, <2>7, <2>8 DEF DeployedOK
    <2>10. QED
      BY <1>1, <1>5, <2>1, <2>9
  <1>8. CASE ProcessPersistedDelivery(p)
    BY <1>1, <1>5, <1>8 DEF ProcessPersistedDelivery, webhookVars
  <1>9. CASE MarkDeliveryStatus(p)
    <2>1. proc[p].at \in {"mark", "done"}
      BY <1>9 DEF MarkDeliveryStatus, At
    <2>2. HandledBy(p) /\ proc[p].d \in Deliveries /\ proc[p].d \in DOMAIN sent
      BY <2>1, <1>3 DEF HandledBy
    <2>3. Rowing' /\ OtherRows(proc[p].d) /\ UNCHANGED <<rows, gh, budget, sent, deployed, lost>>
      BY <1>1, <2>2, <1>9, MarkTurn
    <2>4. \A d \in Deliveries : delivery'[d] # None => d \in DOMAIN sent
      BY <1>1, <2>2, <2>3 DEF OtherRows
    <2>5. QED
      BY <1>1, <1>5, <2>3, <2>4
  <1>10. CASE ScheduleRetryFailure(p)
    <2>1. proc[p].at = "failed"
      BY <1>10 DEF ScheduleRetryFailure, At
    <2>2. HandledBy(p) /\ proc[p].d \in Deliveries /\ proc[p].d \in DOMAIN sent
      BY <2>1, <1>3 DEF HandledBy
    <2>3. Rowing' /\ OtherRows(proc[p].d) /\ UNCHANGED <<rows, gh, budget, sent, deployed, lost>>
      BY <1>1, <2>2, <1>10, ScheduleTurn
    <2>4. \A d \in Deliveries : delivery'[d] # None => d \in DOMAIN sent
      BY <1>1, <2>2, <2>3 DEF OtherRows
    <2>5. QED
      BY <1>1, <1>5, <2>3, <2>4
  <1>11. CASE DeleteInstallation(p)
    <2>1. /\ inst' = None /\ gir' = [r \in Repos |-> None]
          /\ repo' = [r \in Repos |-> IF gir[r] = None THEN repo[r] ELSE "absent"]
          /\ queued' = [r \in Repos |-> IF gir[r] = None THEN queued[r] ELSE 0]
          /\ stale' = {"inst", "gir"} /\ chosen' = {}
          /\ UNCHANGED <<gh, raced, budget, sent>> /\ Rowing'
          /\ lost' = lost \cup {d \in Deliveries : delivery[d] # None}
      BY <1>1, <1>11, DeleteTurn
    <2>2. RowsOK'
      BY <1>1, <2>1 DEF RowsOK
    <2>3. deployed' = [r \in Repos |-> IF gir[r] = None THEN deployed[r] ELSE [status |-> 0, at |-> 0]]
      BY <1>1, <1>11, DeleteTurn
    <2>4. DeployedOK'
      BY <1>1, <2>3, WebhookAssumption DEF DeployedOK
    <2>5. \A d \in Deliveries : delivery'[d] # None => delivery[d] # None
      BY <1>1, <1>11, DeleteTurn
    <2>6. QED
      BY <1>1, <1>5, <2>1, <2>2, <2>4, <2>5
  <1>12. CASE CallFails(p) /\ UNCHANGED webhookVars
    BY <1>1, <1>4, <1>5, <1>12, CallFailsTurn DEF webhookVars
  <1>13. CASE DeliveryFails(p)
    <2>1. /\ Spend /\ UNCHANGED <<rows, gh, sent, delivery, deployed>>
          /\ lost' = lost \/ (proc[p].op = "handle" /\ lost' = lost \cup {proc[p].d})
      BY <1>1, <1>13, DeliveryFailsTurn
    <2>2. lost' \in SUBSET Deliveries
      BY <1>1, <1>3, <2>1 DEF HandledBy
    <2>3. QED
      BY <1>1, <1>4, <1>5, <2>1, <2>2
  <1>14. CASE StatementFails(p)
    BY <1>1, <1>4, <1>5, <1>14, StatementFailsTurn DEF webhookVars
  <1>15. CASE GoroutineEnds(p)
    <2>1. /\ Spend /\ UNCHANGED <<rows, gh, sent, delivery, deployed>>
          /\ lost' = lost \/ (proc[p].op = "handle" /\ lost' = lost \cup {proc[p].d})
      BY <1>1, <1>15, EndsTurn
    <2>2. lost' \in SUBSET Deliveries
      BY <1>1, <1>3, <2>1 DEF HandledBy
    <2>3. QED
      BY <1>1, <1>4, <1>5, <2>1, <2>2
  <1>16. QED
    BY <1>6, <1>7, <1>8, <1>9, <1>10, <1>11, <1>12, <1>13, <1>14, <1>15, Zenon

\* The kinds of steps, for the case splits of the invariants.
LEMMA Steps ==
  ASSUME Next
  PROVE  \/ GithubChange
         \/ \E r \in Repos : RepositoryEvent(r)
         \/ \E r \in Repos : JobEnds(r) /\ UNCHANGED webhookVars
         \/ \E p \in Procs : ConnRequest(p) /\ UNCHANGED webhookVars
         \/ \E p \in Procs : \E d \in Deliveries : Handle(p, d)
         \/ \E d \in Deliveries : Retry(d)
         \/ \E d \in Deliveries : CleanupExpiredWebhookPayload(d)
         \/ \E p \in Goroutines : ConnStep(p) /\ UNCHANGED webhookVars
         \/ \E p \in Goroutines :
              \/ EnqueueWebhookSync(p) \/ ProjectRepositoryEvent(p) \/ ProcessPersistedDelivery(p)
              \/ MarkDeliveryStatus(p) \/ ScheduleRetryFailure(p) \/ DeleteInstallation(p)
              \/ CallFails(p) /\ UNCHANGED webhookVars
              \/ DeliveryFails(p) \/ StatementFails(p) \/ GoroutineEnds(p)
  BY Zenon DEF Next, Step

LEMMA TypeStep ==
  ASSUME TypeInv, [Next]_vars
  PROVE  TypeInv'
  <1>1. /\ Procing /\ Rowing /\ RowsOK /\ GhOK /\ BudgetOK /\ SentOK /\ DeployedOK /\ lost \in SUBSET Deliveries
        /\ TypeOK /\ \A d \in Deliveries : delivery[d] # None => d \in DOMAIN sent
    BY TypeParts DEF TypeInv
  <1>2. DOMAIN sent \subseteq Deliveries /\ Deliveries \subseteq Nat /\ 0 \notin Deliveries
    BY SentTyped DEF TypeInv
  <1>3. /\ UNCHANGED rows => RowsOK'
        /\ UNCHANGED gh => GhOK'
        /\ UNCHANGED budget => BudgetOK'
        /\ UNCHANGED sent => SentOK'
        /\ UNCHANGED deployed => DeployedOK'
        /\ UNCHANGED delivery => Rowing'
        /\ UNCHANGED proc => Procing'
    BY <1>1 DEF RowsOK, rows, GhOK, BudgetOK, SentOK, DeployedOK, Rowing, Procing
  <1>4. ASSUME sent' = sent \/ \E kind \in Kinds, r \in Repos \cup {None} : OneMore(kind, r),
               NEW p \in Goroutines, Turn(p), Placed(p)'
        PROVE  \A q \in Goroutines : Placed(q)'
    BY <1>4, OthersPlaced DEF Turn, Others
  <1>5. ASSUME RowsOK', GhOK', BudgetOK', SentOK', DeployedOK', Procing', Rowing', lost' \in SUBSET Deliveries,
               \A q \in Goroutines : Placed(q)', \A d \in Deliveries : delivery'[d] # None => d \in DOMAIN sent'
        PROVE  TypeInv'
    BY <1>5, TypePartsNext DEF TypeInv
  <1>6. CASE UNCHANGED vars
    <2>1. UNCHANGED <<rows, gh, proc, budget, webhookVars, sent, deployed, delivery, lost>>
      BY <1>6 DEF vars, rows, webhookVars
    <2>2. \A q \in Goroutines : Placed(q)'
      BY <2>1, OthersPlaced
    <2>3. QED
      BY <1>1, <1>3, <1>5, <2>1, <2>2
  <1>7. ASSUME NEW kind \in Kinds, NEW r \in Repos \cup {None}, OneMore(kind, r), GhOK',
               UNCHANGED <<rows, proc, budget, delivery, deployed, lost>>
        PROVE  TypeInv'
    <2>1. \A q \in Goroutines : Placed(q)'
      BY <1>7, OthersPlaced
    <2>2. SentOK' /\ DOMAIN sent \subseteq DOMAIN sent'
      BY <1>7 DEF OneMore, SentOK
    <2>3. QED
      BY <1>1, <1>3, <1>5, <1>7, <2>1, <2>2
  <1>8. CASE GithubChange
    <2>1. \A kind \in {"deleted", "suspend", "refresh"} : kind \in Kinds
      BY DEF Kinds, InstallationKinds
    <2>2. GhOK' /\ UNCHANGED <<rows, proc, budget, delivery, deployed, lost>>
          /\ \E kind \in {"deleted", "suspend", "refresh"} : OneMore(kind, None)
      BY <1>1, <1>8, ChangeTurn DEF GhOK
    <2>3. QED
      BY <1>7, <2>1, <2>2
  <1>9. CASE \E r \in Repos : RepositoryEvent(r)
    <2>1. "deployment" \in Kinds /\ "other" \in Kinds
      BY DEF Kinds
    <2>2. UNCHANGED <<rows, gh, proc, budget, delivery, deployed, lost>>
          /\ \E r \in Repos : OneMore("deployment", r) \/ OneMore("other", None)
      BY <1>1, <1>9, EventTurn
    <2>3. QED
      BY <1>3, <1>7, <1>1, <2>1, <2>2
  <1>10. CASE \E r \in Repos : JobEnds(r) /\ UNCHANGED webhookVars
    <2>1. PICK r \in Repos : JobEnds(r) /\ UNCHANGED webhookVars
      BY <1>10
    <2>2. UNCHANGED <<gh, inst, gir, repo, proc, budget, chosen, raced, stale, sent, delivery, deployed, lost>>
      BY <2>1 DEF JobEnds, webhookVars
    <2>3. queued' \in [Repos -> Nat]
      BY <1>1, <2>1 DEF JobEnds, RowsOK
    <2>4. RowsOK'
      BY <1>1, <2>2, <2>3 DEF RowsOK
    <2>5. \A q \in Goroutines : Placed(q)'
      BY <2>2, OthersPlaced
    <2>6. QED
      BY <1>1, <1>3, <1>5, <2>2, <2>4, <2>5
  <1>11. CASE \E p \in Procs : ConnRequest(p) /\ UNCHANGED webhookVars
    <2>1. PICK p \in Procs : ConnRequest(p) /\ UNCHANGED webhookVars
      BY <1>11
    <2>2. Turn(p) /\ UNCHANGED <<rows, gh>> /\ BudgetOK' /\ Request0(proc'[p]) /\ proc'[p].d = 0
      BY <1>1, <2>1, RequestTurn DEF BudgetOK
    <2>3. OfRequest(proc[p])' /\ proc'[p].at # "upsert"
      BY <2>2 DEF Request0, OfRequest, Refreshing
    <2>4. Placed(p)' /\ p \in Goroutines
      BY <2>3 DEF Placed, Goroutines
    <2>5. \A q \in Goroutines : Placed(q)'
      BY <1>4, <2>1, <2>2, <2>4 DEF webhookVars
    <2>6. Procing'
      BY <2>2 DEF Turn
    <2>7. QED
      BY <1>1, <1>3, <1>5, <2>1, <2>2, <2>5, <2>6 DEF webhookVars
  <1>12. CASE \E p \in Procs : \E d \in Deliveries : Handle(p, d)
    <2>1. PICK p \in Procs, d \in Deliveries : Handle(p, d)
      BY <1>12
    <2>2. /\ p \in Goroutines /\ Turn(p) /\ d \in DOMAIN sent
          /\ proc'[p].op = "handle" /\ proc'[p].at = "store" /\ proc'[p].d = d
          /\ budget' = budget \/ Spend
          /\ UNCHANGED <<rows, gh, webhookVars>>
      BY <2>1, HandleTurn
    <2>3. BudgetOK' /\ sent' = sent
      BY <1>1, <2>2, SpendTyped DEF BudgetOK, webhookVars
    <2>4. Placed(p)'
      BY <2>2, <2>3, ConnectionAssumption DEF Placed, OfDelivery
    <2>5. \A q \in Goroutines : Placed(q)'
      BY <1>4, <2>2, <2>3, <2>4
    <2>6. Procing'
      BY <2>2 DEF Turn
    <2>7. QED
      BY <1>1, <1>3, <1>5, <2>2, <2>3, <2>5, <2>6 DEF webhookVars
  <1>13. CASE \E d \in Deliveries : Retry(d)
    <2>1. PICK d \in Deliveries : Retry(d)
      BY <1>13
    <2>2. /\ Turn(Worker) /\ Worker \in Goroutines /\ UNCHANGED <<rows, gh, budget, webhookVars>>
          /\ delivery[d] # None
          /\ proc'[Worker].op = "retry" /\ proc'[Worker].d = d /\ proc'[Worker].r = delivery[d].r
          /\ \/ proc'[Worker].at = "project" /\ delivery[d].r \in Repos /\ sent[d].kind = "deployment"
             \/ proc'[Worker].at = "apply"
             \/ proc'[Worker].at = "mark"
      BY <1>1, <2>1, RetryTurn
    <2>3. sent' = sent /\ d \in DOMAIN sent
      BY <1>1, <2>2 DEF webhookVars
    <2>4. Placed(Worker)'
      BY <2>2, <2>3 DEF Placed, OfDelivery
    <2>5. \A q \in Goroutines : Placed(q)'
      BY <1>4, <2>2, <2>3, <2>4
    <2>6. Procing'
      BY <2>2 DEF Turn
    <2>7. QED
      BY <1>1, <1>3, <1>5, <2>2, <2>3, <2>5, <2>6 DEF webhookVars
  <1>14. CASE \E d \in Deliveries : CleanupExpiredWebhookPayload(d)
    <2>1. PICK d \in Deliveries : CleanupExpiredWebhookPayload(d)
      BY <1>14
    <2>2. /\ Rowing' /\ OtherRows(d) /\ UNCHANGED <<rows, gh, proc, budget, sent, deployed, lost>>
          /\ delivery[d] # None
      BY <1>1, <2>1, CleanupTurn
    <2>3. \A e \in Deliveries : delivery'[e] # None => e \in DOMAIN sent
      BY <1>1, <2>2 DEF OtherRows
    <2>4. \A q \in Goroutines : Placed(q)'
      BY <2>2, OthersPlaced
    <2>5. QED
      BY <1>1, <1>3, <1>5, <2>2, <2>3, <2>4
  <1>15. CASE \E p \in Goroutines : ConnStep(p) /\ UNCHANGED webhookVars
    <2>1. PICK p \in Goroutines : ConnStep(p) /\ UNCHANGED webhookVars
      BY <1>15
    <2>2. sent' = sent /\ delivery' = delivery /\ deployed' = deployed /\ lost' = lost
      BY <2>1 DEF webhookVars
    <2>3. RowsOK' /\ Turn(p) /\ gh' = gh /\ budget' = budget
      BY <2>1, RowsConnStep
    <2>4. Placed(p)'
      BY <2>1, <2>2, PlacedConnStep
    <2>5. \A q \in Goroutines : Placed(q)'
      BY <1>4, <2>2, <2>3, <2>4
    <2>6. Procing'
      BY <2>3 DEF Turn
    <2>7. QED
      BY <1>1, <1>3, <1>5, <2>2, <2>3, <2>5, <2>6
  <1>16. ASSUME NEW p \in Goroutines,
              \/ EnqueueWebhookSync(p) \/ ProjectRepositoryEvent(p) \/ ProcessPersistedDelivery(p)
              \/ MarkDeliveryStatus(p) \/ ScheduleRetryFailure(p) \/ DeleteInstallation(p)
              \/ CallFails(p) /\ UNCHANGED webhookVars
              \/ DeliveryFails(p) \/ StatementFails(p) \/ GoroutineEnds(p)
         PROVE  TypeInv'
    <2>1. /\ RowsOK' /\ gh' = gh /\ BudgetOK' /\ sent' = sent /\ DeployedOK' /\ Rowing'
          /\ lost' \in SUBSET Deliveries
          /\ \A d \in Deliveries : delivery'[d] # None => d \in DOMAIN sent
      BY <1>16, TypesOfRest, Zenon
    <2>2. Placed(p)' /\ Turn(p)
      BY <1>16, <2>1, PlacedRest, Zenon
    <2>3. \A q \in Goroutines : Placed(q)'
      BY <1>4, <2>1, <2>2
    <2>4. Procing'
      BY <2>2 DEF Turn
    <2>5. QED
      BY <1>1, <1>3, <1>5, <2>1, <2>3, <2>4
  <1>17. QED
    BY <1>6, <1>8, <1>9, <1>10, <1>11, <1>12, <1>13, <1>14, <1>15, <1>16, Steps, Zenon

LEMMA TypeInit ==
  ASSUME Init
  PROVE  TypeInv
  <1>1. gh = [state |-> "ok", repos |-> Repos] /\ proc = [p \in Goroutines |-> Idle]
        /\ budget = [requests |-> MaxRequests, faults |-> MaxFaults]
        /\ sent = <<>> /\ delivery = [d \in Deliveries |-> None] /\ lost = {}
        /\ deployed = [r \in Repos |-> [status |-> 0, at |-> 0]]
    BY Zenon DEF Init, ConnInit
  <1>2. GhOK /\ BudgetOK
    BY <1>1, ConnectionAssumption DEF GhOK, BudgetOK, GhStates
  <1>3. Procing /\ Rowing /\ \A q \in Goroutines : Placed(q)
    BY <1>1, IdleTyped DEF Procing, Rowing, Placed
  <1>4. SentOK
    <2>1. sent \in [1 .. 0 -> Payload] /\ 0 \in 0 .. MaxDeliveries
      BY <1>1, WebhookAssumption
    <2>2. QED
      BY <2>1 DEF SentOK
  <1>5. DeployedOK
    BY <1>1, WebhookAssumption DEF DeployedOK
  <1>6. RowsOK
    <2>1. /\ queued = [r \in Repos |-> 0] /\ raced = {}
          /\ \/ /\ inst = None /\ gir = [r \in Repos |-> None] /\ repo = [r \in Repos |-> "absent"]
                /\ chosen = {} /\ stale = {"inst", "gir"}
             \/ /\ inst = [status |-> "connected", suspended |-> FALSE, disconnected |-> FALSE]
                /\ gir = [r \in Repos |-> [status |-> "accessible", linked |-> TRUE]]
                /\ repo = [r \in Repos |-> "active"]
                /\ chosen = Repos /\ stale = {}
      BY Zenon DEF Init, ConnInit
    <2>2. [status |-> "connected", suspended |-> FALSE, disconnected |-> FALSE] \in Installation
      BY DEF Installation
    <2>3. [status |-> "accessible", linked |-> TRUE] \in AccessRow
      BY DEF AccessRow
    <2>4. QED
      BY <2>1, <2>2, <2>3 DEF RowsOK
  <1>7. TypeOK
    BY <1>1, <1>2, <1>3, <1>4, <1>5, <1>6, TypeParts
  <1>8. QED
    BY <1>1, <1>3, <1>7 DEF TypeInv

LEMMA Typed == Spec => []TypeInv
  <1>1. Init => TypeInv
    BY TypeInit
  <1>2. TypeInv /\ [Next]_vars => TypeInv'
    BY TypeStep
  <1>3. QED
    BY <1>1, <1>2, PTL DEF Spec

\* The rows of the connection, the records of goroutines and those of deliveries keep their
\* types: the attempts of a delivery stay below maxWebhookRetries, and no delivery is
\* stored that GitHub did not send.
THEOREM TypeCorrect == Spec => []TypeOK
  <1>1. TypeInv => TypeOK
    BY DEF TypeInv
  <1>2. QED
    BY <1>1, Typed, PTL

-----------------------------------------------------------------------------
(* The connection: what each action leaves of ConnInv.                          *)

\* A goroutine that gives up, or goes where nothing is promised.
Harmless == Places \ {"list", "replace", "insert", "store", "write"}

LEMMA FreeGoesOn ==
  ASSUME UNCHANGED rows, NEW p \in Goroutines, GoesOn(proc[p]),
         \/ Released(p) \/ NextOne(p)
         \/ \E at \in Harmless : Went(p, at)
         \/ WentBack(p, "done") \/ WentBack(p, "failed")
  PROVE  GoesOn(proc[p])'
  <1>1. UNCHANGED <<inst, gir, repo, queued, raced>>
    BY DEF rows
  <1>2. Linked' = Linked /\ Disconnected' = Disconnected
    BY <1>1 DEF Linked, Disconnected
  <1>3. CASE Released(p)
    BY <1>3, IdleTyped DEF Released, GoesOn, Bound
  <1>4. CASE NextOne(p) /\ ~Released(p)
    BY <1>1, <1>2, <1>4 DEF NextOne, GoesOn, Bound
  <1>5. ASSUME NEW at \in Harmless, Went(p, at)
        PROVE  GoesOn(proc[p])'
    BY <1>1, <1>2, <1>5 DEF Went, Harmless, GoesOn, Bound
  <1>6. "done" \in Harmless /\ "failed" \in Harmless
    BY DEF Harmless, Places
  <1>7. QED
    BY <1>3, <1>4, <1>5, <1>6 DEF WentBack

LEMMA KeepRows ==
  ASSUME ConnInv, UNCHANGED rows
  PROVE  RowsInv' /\ \A q \in Goroutines : proc'[q] = proc[q] => GoesOn(proc[q])'
  <1>1. UNCHANGED <<inst, gir, repo, queued, raced, chosen>>
    BY DEF rows
  <1>2. Linked' = Linked /\ Disconnected' = Disconnected /\ \A r \in Repos : Accessible(r)' <=> Accessible(r)
    BY <1>1 DEF Linked, Disconnected, Accessible
  <1>3. RowsInv'
    BY <1>1, <1>2 DEF ConnInv, RowsInv
  <1>4. ASSUME NEW q \in Goroutines, proc'[q] = proc[q]
        PROVE  GoesOn(proc[q])'
    <2>1. GoesOn(proc[q])
      BY DEF ConnInv
    <2>2. Bound(proc[q])' <=> Bound(proc[q])
      BY <1>4 DEF Bound
    <2>3. QED
      BY <1>1, <1>2, <1>4, <2>1, <2>2 DEF GoesOn
  <1>5. QED
    BY <1>3, <1>4

LEMMA ConnRead ==
  ASSUME ConnInv, UNCHANGED rows, NEW p \in Goroutines, Others(p), GoesOn(proc[p])'
  PROVE  ConnInv'
  BY KeepRows DEF ConnInv, Others

LEMMA ConnFree ==
  ASSUME ConnInv, UNCHANGED rows, NEW p \in Goroutines, Turn(p),
         \/ Released(p) \/ NextOne(p)
         \/ \E at \in Harmless : Went(p, at)
         \/ WentBack(p, "done") \/ WentBack(p, "failed")
  PROVE  ConnInv'
  <1>1. GoesOn(proc[p])
    BY DEF ConnInv
  <1>2. GoesOn(proc[p])'
    BY <1>1, FreeGoesOn
  <1>3. QED
    BY <1>2, ConnRead DEF Turn

LEMMA HarmlessPlaces ==
  \A at \in {"get", "upsert", "find to drop", "drop", "project", "apply", "mark", "done", "failed", "suspend",
             "find to refresh", "target", "link", "cancel", "delete", "idle"} : at \in Harmless
  BY DEF Harmless, Places

\* Reading GitHub or the database.
LEMMA ConnReads ==
  ASSUME TypeInv, ConnInv, NEW p \in Goroutines,
         \/ FindOrganization(p) \/ GetInstallation(p) \/ ListInstallationRepositories(p)
         \/ GetRepositoryTarget(p) \/ CallFails(p)
  PROVE  ConnInv'
  <1>1. /\ Procing /\ gh.state \in GhStates /\ gh.repos \in SUBSET Repos
        /\ RowsOK
    BY TypeParts DEF TypeInv, GhOK
  <1>2. Placed(p) /\ GoesOn(proc[p]) /\ RowsInv
    BY PlacedFacts DEF ConnInv
  <1>3. CASE FindOrganization(p)
    <2>1. UNCHANGED rows
      BY <1>3 DEF FindOrganization
    <2>2. QED
      BY <1>1, <1>3, <2>1, FindTurn, ConnFree, HarmlessPlaces
  <1>4. CASE GetInstallation(p)
    <2>1. UNCHANGED rows
      BY <1>4 DEF GetInstallation
    <2>2. Turn(p) /\ proc[p].at = "get" /\ (WentBack(p, "failed") \/ (proc'[p].at = "upsert" /\ proc'[p].op = proc[p].op))
      BY <1>1, <1>4, GetTurn
    <2>3. proc[p].op \notin {"select", "disconnect"}
      BY <1>2, <2>2, IdleTyped DEF Placed, OfRequest, OfDelivery, Refreshing
    <2>4. proc'[p].at = "upsert" /\ proc'[p].op = proc[p].op => GoesOn(proc[p])'
      BY <2>3 DEF GoesOn, Bound
    <2>5. QED
      BY <2>1, <2>2, <2>4, ConnFree, ConnRead DEF Turn
  <1>5. CASE ListInstallationRepositories(p)
    <2>1. UNCHANGED rows
      BY <1>5 DEF ListInstallationRepositories
    <2>2. Turn(p) /\ proc[p].at = "list" /\ (WentBack(p, "failed") \/ (proc'[p].at = "replace" /\ proc'[p].op = proc[p].op))
      BY <1>1, <1>5, ListTurn
    <2>3. proc[p].op \notin {"select", "disconnect"}
      BY <1>2, <2>2, IdleTyped DEF Placed, OfRequest, OfDelivery, Refreshing
    <2>4. proc'[p].at = "replace" /\ proc'[p].op = proc[p].op => GoesOn(proc[p])'
      BY <1>2, <2>1, <2>2, <2>3 DEF GoesOn, Bound, Disconnected, rows
    <2>5. QED
      BY <2>1, <2>2, <2>4, ConnFree, ConnRead DEF Turn
  <1>6. CASE GetRepositoryTarget(p)
    <2>1. /\ Turn(p) /\ proc[p].at = "target" /\ UNCHANGED rows
          /\ (CanSync(proc[p].r) /\ Went(p, "insert")) \/ NextOne(p)
      BY <1>1, <1>6, TargetTurn
    <2>2. ASSUME CanSync(proc[p].r), Went(p, "insert")
          PROVE  GoesOn(proc[p])'
      <3>1. proc[p].r \in Repos
        BY <2>1, PlacedFacts
      <3>2. repo[proc[p].r] = "active" /\ inst # None /\ inst.status = "connected"
        BY <2>2 DEF CanSync
      <3>3. ~Disconnected /\ proc[p].r \in Linked \cup raced
        BY <1>2, <3>1, <3>2 DEF RowsInv
      <3>4. UNCHANGED <<inst, gir, repo, queued, raced>>
        BY <2>1 DEF rows
      <3>5. ~Disconnected' /\ Linked' = Linked
        BY <3>3, <3>4 DEF Disconnected, Linked
      <3>6. QED
        BY <1>2, <2>2, <3>3, <3>4, <3>5 DEF GoesOn, Went
    <2>3. QED
      BY <2>1, <2>2, ConnRead, ConnFree DEF Turn
  <1>7. CASE CallFails(p)
    BY <1>1, <1>7, CallFailsTurn, ConnFree
  <1>8. QED
    BY <1>3, <1>4, <1>5, <1>6, <1>7

\* A user asks, or GitHub delivers.
LEMMA ConnRequests ==
  ASSUME TypeInv, ConnInv, NEW p \in Goroutines, Turn(p), UNCHANGED rows,
         \/ Request0(proc'[p])
         \/ /\ proc'[p].op = "handle" /\ proc'[p].at = "store"
            /\ proc'[p].r = None \/ (proc'[p].r \in Repos /\ repo[proc'[p].r] = "active")
         \/ proc'[p].op = "retry" /\ proc'[p].at \in {"project", "apply", "mark"}
  PROVE  ConnInv'
  <1>1. UNCHANGED <<inst, gir, repo, queued, raced>>
    BY DEF rows
  <1>2. Linked' = Linked /\ Disconnected' = Disconnected
    BY <1>1 DEF Linked, Disconnected
  <1>3. RowsInv
    BY DEF ConnInv
  <1>4. \A r \in Repos : repo[r] = "active" => r \in Linked \cup raced /\ (Disconnected => r \in raced)
    BY <1>3 DEF RowsInv
  <1>5. CASE Request0(proc'[p]) /\ proc'[p].op = "disconnect"
    <2>1. proc'[p].at = "cancel" /\ proc'[p].todo = Linked
      BY <1>5 DEF Request0
    <2>2. \A r \in Repos \ Linked : queued[r] = 0 \/ r \in raced
      BY <1>3 DEF RowsInv
    <2>3. QED
      BY <1>1, <1>5, <2>1, <2>2, ConnRead DEF GoesOn, Bound, Turn
  <1>6. CASE Request0(proc'[p]) /\ proc'[p].op = "select"
    <2>1. proc'[p].at = "link"
          /\ proc'[p].items \subseteq {r \in Repos : gir[r] # None /\ gir[r].status = "accessible"}
      BY <1>6 DEF Request0
    <2>2. Disconnected => \A r \in Repos : gir[r] # None /\ gir[r].status = "accessible" => r \in raced
      BY <1>3 DEF RowsInv, Accessible
    <2>3. QED
      BY <1>1, <1>2, <1>6, <2>1, <2>2, ConnRead DEF GoesOn, Bound, Turn
  <1>7. CASE Request0(proc'[p]) /\ proc'[p].op = "patch"
    <2>1. proc'[p].at = "write" /\ proc'[p].r \in Repos /\ proc'[p].active = (repo[proc'[p].r] = "active")
      BY <1>7 DEF Request0
    <2>2. QED
      BY <1>1, <1>2, <1>4, <1>7, <2>1, ConnRead DEF GoesOn, Bound, Turn
  <1>8. CASE Request0(proc'[p]) /\ proc'[p].op \notin {"disconnect", "select", "patch"}
    <2>1. proc'[p].at \in {"get", "target", "write", "delete"}
      BY <1>8 DEF Request0
    <2>2. QED
      BY <1>8, <2>1, ConnRead DEF GoesOn, Bound, Turn
  <1>9. CASE /\ proc'[p].op = "handle" /\ proc'[p].at = "store"
             /\ proc'[p].r = None \/ (proc'[p].r \in Repos /\ repo[proc'[p].r] = "active")
    BY <1>1, <1>2, <1>4, <1>9, ConnRead DEF GoesOn, Bound, Turn
  <1>10. CASE proc'[p].op = "retry" /\ proc'[p].at \in {"project", "apply", "mark"}
    BY <1>10, ConnRead DEF GoesOn, Bound, Turn
  <1>11. QED
    BY <1>5, <1>6, <1>7, <1>8, <1>9, <1>10

\* Where a goroutine is when it writes, for those that another writes under.
LEMMA BoundFacts ==
  ASSUME TypeInv, NEW q \in Goroutines
  PROVE  /\ Bound(proc[q]) => proc[q].r \in Repos /\ proc[q].r # None /\ proc[q].op \in {"select", "sync", "patch", "handle"}
         /\ proc[q].op = "disconnect" => q \in Procs
         /\ proc[q].at \in {"list", "replace"} => proc[q].op \notin {"select", "disconnect"}
         /\ proc[q].at = "link" => proc[q].op = "select"
         /\ proc[q].todo \subseteq Repos
  <1>1. /\ Placed(q)
        /\ proc[q].at \in {"target", "insert", "write", "project"} => proc[q].r \in Repos
        /\ proc[q] \in Goroutine
    BY PlacedFacts
  <1>2. proc[q].r \in Repos \cup {None} /\ proc[q].todo \subseteq Repos
    BY <1>1 DEF Goroutine
  <1>3. proc[q].op = "disconnect" => q \in Procs
    BY <1>1, IdleTyped DEF Placed
  <1>4. /\ proc[q].at \in {"list", "replace"} => proc[q].op \notin {"select", "disconnect"}
        /\ proc[q].at = "link" => proc[q].op = "select"
        /\ proc[q].at = "insert" => proc[q].op \in {"select", "sync"}
        /\ proc[q].at = "store" => proc[q].op = "handle"
    BY <1>1, IdleTyped DEF Placed, OfRequest, OfDelivery, Refreshing
  <1>5. QED
    BY <1>1, <1>2, <1>3, <1>4, ConnectionAssumption DEF Bound

\* The rows keep their promise, and so does every goroutine.
LEMMA ConnParts ==
  ASSUME RowsInv', NEW p \in Goroutines, GoesOn(proc[p])',
         \A q \in Goroutines : q # p => GoesOn(proc[q])'
  PROVE  ConnInv'
  BY DEF ConnInv

\* The installation is not disconnected when it is written from GitHub's answer.
LEMMA ConnUpsert ==
  ASSUME TypeInv, ConnInv, NEW p \in Goroutines, Turn(p), Went(p, "list") \/ WentBack(p, "done"),
         proc[p].at \in {"upsert", "suspend"},
         UNCHANGED <<gir, repo, queued, chosen, raced>>, ~Disconnected',
         inst' = None => inst = None
  PROVE  ConnInv'
  <1>1. RowsInv /\ \A q \in Goroutines : GoesOn(proc[q])
    BY DEF ConnInv
  <1>2. Linked' = Linked /\ \A r \in Repos : Accessible(r)' <=> Accessible(r)
    BY DEF Linked, Accessible
  <1>3. RowsInv'
    BY <1>1, <1>2 DEF RowsInv
  <1>4. ASSUME NEW q \in Goroutines, q # p
        PROVE  GoesOn(proc[q])'
    <2>1. proc'[q] = proc[q] /\ GoesOn(proc[q])
      BY <1>1, <1>4 DEF Turn, Others
    <2>2. QED
      BY <1>2, <2>1 DEF GoesOn, Bound
  <1>5. GoesOn(proc[p])'
    <2>1. GoesOn(proc[p])
      BY <1>1
    <2>2. proc'[p].op # "disconnect" \/ (proc'[p].op = proc[p].op /\ proc'[p].todo = proc[p].todo)
      BY IdleTyped DEF Went, WentBack, Released
    <2>3. ~Bound(proc'[p])
      BY IdleTyped DEF Went, WentBack, Released, Bound
    <2>4. QED
      BY <2>1, <2>2, <2>3 DEF GoesOn, Bound
  <1>6. QED
    BY <1>3, <1>4, <1>5, ConnParts

LEMMA ConnReplace ==
  ASSUME TypeInv, ConnInv, NEW p \in Goroutines, ReplaceAccessibleRepositories(p)
  PROVE  ConnInv'
  <1>1. RowsInv /\ \A q \in Goroutines : GoesOn(proc[q])
    BY DEF ConnInv
  <1>2. Procing /\ RowsOK
    BY TypeParts DEF TypeInv
  <1>3. CASE inst = None
    <2>1. UNCHANGED rows /\ Turn(p) /\ WentBack(p, "failed")
      BY <1>2, <1>3, ReplaceTurn DEF rows
    <2>2. QED
      BY <2>1, ConnFree
  <1>4. CASE inst # None
    <2>1. /\ Turn(p) /\ proc[p].at = "replace" /\ WentBack(p, "done")
          /\ gir' = [r \in Repos |->
               IF r \in proc[p].items THEN Listed(r)
               ELSE IF gir[r] = None THEN None
               ELSE [gir[r] EXCEPT !.status = "installation_required"]]
          /\ UNCHANGED <<gh, inst, repo, queued, budget, chosen, raced>>
      BY <1>2, <1>4, ReplaceTurn
    <2>2. ASSUME NEW r \in Repos
          PROVE  r \in Linked' <=> r \in Linked
      <3>1. Listed(r) # None /\ Listed(r).linked = (r \in Linked)
        <4>0. (r \in Linked) \in BOOLEAN
          OBVIOUS
        <4>1. PICK b \in BOOLEAN : b = (r \in Linked)
          BY <4>0, Zenon
        <4>2. Listed(r) = [status |-> "accessible", linked |-> b]
          BY <4>1 DEF Listed
        <4>3. Listed(r) \in AccessRow
          BY <4>2 DEF AccessRow
        <4>4. QED
          BY <4>1, <4>2, <4>3, NoConnectionRow
      <3>2. gir[r] # None => gir[r] \in AccessRow
        BY <1>2 DEF RowsOK
      <3>3. gir[r] # None => /\ [gir[r] EXCEPT !.status = "installation_required"] \in AccessRow
                             /\ [gir[r] EXCEPT !.status = "installation_required"].linked = gir[r].linked
        BY <3>2 DEF AccessRow
      <3>4. QED
        BY <2>1, <3>1, <3>2, <3>3, NoConnectionRow DEF Linked
    <2>3. Linked' = Linked
      BY <2>2 DEF Linked
    <2>4. Disconnected' = Disconnected /\ (Disconnected => raced = Repos)
      BY <1>1, <2>1 DEF GoesOn, Disconnected
    <2>5. RowsInv'
      BY <1>1, <1>4, <2>1, <2>3, <2>4 DEF RowsInv
    <2>6. ASSUME NEW q \in Goroutines, q # p
          PROVE  GoesOn(proc[q])'
      <3>1. proc'[q] = proc[q] /\ GoesOn(proc[q])
        BY <1>1, <2>1, <2>6 DEF Turn, Others
      <3>2. QED
        BY <2>1, <2>3, <2>4, <3>1 DEF GoesOn, Bound
    <2>7. GoesOn(proc[p])'
      <3>1. proc[p].op \notin {"select", "disconnect"}
        BY <2>1, BoundFacts
      <3>2. proc'[p].at \in {"idle", "done"} /\ proc'[p].op \notin {"select", "disconnect"}
        BY <2>1, <3>1, IdleTyped DEF Went, WentBack, Released
      <3>3. QED
        BY <3>2 DEF GoesOn, Bound
    <2>8. QED
      BY <2>5, <2>6, <2>7, ConnParts
  <1>5. QED
    BY <1>3, <1>4

LEMMA ConnDrop ==
  ASSUME TypeInv, ConnInv, NEW p \in Goroutines, DisconnectInstallation(p)
  PROVE  ConnInv'
  <1>1. RowsInv /\ \A q \in Goroutines : GoesOn(proc[q])
    BY DEF ConnInv
  <1>2. Procing /\ RowsOK
    BY TypeParts DEF TypeInv
  <1>3. CASE inst = None
    <2>1. UNCHANGED rows /\ Turn(p) /\ WentBack(p, "failed")
      BY <1>2, <1>3, DropTurn DEF rows
    <2>2. QED
      BY <2>1, ConnFree
  <1>4. CASE inst # None
    <2>1. /\ Turn(p) /\ proc[p].at = "drop" /\ WentBack(p, "done") /\ UNCHANGED queued
          /\ inst' = [status |-> "installation_required", suspended |-> FALSE, disconnected |-> TRUE]
          /\ chosen' = {}
          /\ raced' = raced \cup UnderWay(p) \cup {r \in Repos : proc[p].op # "disconnect" /\ queued[r] > 0}
          /\ gir' = [r \in Repos |-> IF gir[r] = None THEN None
                       ELSE [status |-> "installation_required", linked |-> FALSE]]
          /\ repo' = [r \in Repos |-> IF r \in Linked THEN "inactive" ELSE repo[r]]
      BY <1>2, <1>4, DropTurn
    <2>2. inst' # None /\ inst'.status # "connected"
      <3>1. inst' \in Installation
        BY <2>1 DEF Installation
      <3>2. QED
        BY <2>1, <3>1, NoConnectionRow
    <2>3. Linked' = {} /\ \A r \in Repos : ~Accessible(r)'
      BY <2>1 DEF Linked, Accessible
    <2>4. proc[p].op = "disconnect" => proc[p].todo = {} /\ proc[p].d = 0
      <3>1. Placed(p)
        BY PlacedFacts
      <3>2. QED
        BY <2>1, <3>1, IdleTyped DEF Placed, OfRequest, Refreshing
    <2>5. \A r \in Repos \ raced' : repo'[r] # "active" /\ queued'[r] = 0
      <3>1. ASSUME NEW r \in Repos, r \notin raced'
            PROVE  repo'[r] # "active" /\ queued'[r] = 0
        <4>1. r \notin raced /\ (proc[p].op = "disconnect" \/ ~(queued[r] > 0))
          BY <2>1, <3>1
        <4>2. queued[r] \in Nat
          BY <1>2 DEF RowsOK
        <4>3. queued[r] = 0
          BY <1>1, <2>4, <4>1, <4>2 DEF GoesOn
        <4>4. repo[r] = "active" => r \in Linked
          BY <1>1, <4>1 DEF RowsInv
        <4>5. QED
          BY <2>1, <4>3, <4>4
      <3>2. QED
        BY <3>1
    <2>6. RowsInv'
      BY <2>1, <2>2, <2>3, <2>5 DEF RowsInv
    <2>7. ASSUME NEW q \in Goroutines, q # p
          PROVE  GoesOn(proc[q])'
      <3>1. proc'[q] = proc[q] /\ GoesOn(proc[q])
        BY <1>1, <2>1, <2>7 DEF Turn, Others
      <3>2. raced' \subseteq Repos
        <4>1. \A o \in Goroutines : proc[o].todo \subseteq Repos /\ proc[o].r \in Repos \cup {None}
          BY <1>2 DEF Procing, Goroutine
        <4>2. UnderWay(p) \subseteq Repos
          BY <4>1 DEF UnderWay
        <4>3. QED
          BY <1>2, <2>1, <4>2 DEF RowsOK
      <3>3. (IF proc[q].at \in {"upsert", "list", "replace"} THEN Repos
             ELSE IF proc[q].op \in {"select", "sync", "patch", "handle"}
               THEN proc[q].todo \cup ({proc[q].r} \ {None}) ELSE {}) \subseteq UnderWay(p)
        BY <2>7 DEF UnderWay
      <3>4. proc[q].at \in {"list", "replace"} => raced' = Repos
        BY <2>1, <3>2, <3>3
      <3>5. proc[q].op = "select" => proc[q].todo \subseteq raced'
        BY <2>1, <3>3, BoundFacts
      <3>6. Bound(proc[q]) => proc[q].r \in raced'
        BY <2>1, <3>3, BoundFacts
      <3>7. raced \subseteq raced'
        BY <2>1
      <3>8. QED
        BY <2>1, <3>1, <3>4, <3>5, <3>6, <3>7 DEF GoesOn, Bound
    <2>8. GoesOn(proc[p])'
      <3>1. proc[p].op # "select"
        <4>1. Placed(p)
          BY PlacedFacts
        <4>2. QED
          BY <2>1, <4>1, IdleTyped DEF Placed, OfRequest, Refreshing
      <3>2. proc'[p].at \in {"idle", "done"} /\ proc'[p].op \notin {"select", "disconnect"}
        BY <2>1, <2>4, <3>1, IdleTyped DEF Went, WentBack, Released
      <3>3. QED
        BY <3>2 DEF GoesOn, Bound
    <2>9. QED
      BY <2>6, <2>7, <2>8, ConnParts
  <1>5. QED
    BY <1>3, <1>4

\* Fewer jobs, everything else as it was.
LEMMA FewerJobs ==
  ASSUME ConnInv, UNCHANGED <<inst, gir, repo, chosen, raced>>, \A r \in Repos : queued[r] = 0 => queued'[r] = 0
  PROVE  RowsInv' /\ \A q \in Goroutines : proc'[q] = proc[q] => GoesOn(proc[q])'
  <1>1. Linked' = Linked /\ Disconnected' = Disconnected /\ \A r \in Repos : Accessible(r)' <=> Accessible(r)
    BY DEF Linked, Disconnected, Accessible
  <1>2. RowsInv'
    BY <1>1 DEF ConnInv, RowsInv
  <1>3. ASSUME NEW q \in Goroutines, proc'[q] = proc[q]
        PROVE  GoesOn(proc[q])'
    <2>1. GoesOn(proc[q])
      BY DEF ConnInv
    <2>2. QED
      BY <1>1, <1>3, <2>1 DEF GoesOn, Bound
  <1>4. QED
    BY <1>2, <1>3

LEMMA ConnJobEnds ==
  ASSUME TypeInv, ConnInv, NEW r \in Repos, JobEnds(r)
  PROVE  ConnInv'
  <1>1. RowsOK
    BY TypeParts DEF TypeInv
  <1>2. UNCHANGED <<inst, gir, repo, proc, chosen, raced>> /\ queued[r] > 0 /\ queued' = [queued EXCEPT ![r] = @ - 1]
    BY DEF JobEnds
  <1>3. \A s \in Repos : queued[s] = 0 => queued'[s] = 0
    BY <1>1, <1>2 DEF RowsOK
  <1>4. QED
    BY <1>2, <1>3, FewerJobs DEF ConnInv

LEMMA ConnCancel ==
  ASSUME TypeInv, ConnInv, NEW p \in Goroutines, CancelActiveSyncJobs(p)
  PROVE  ConnInv'
  <1>1. Procing /\ RowsOK
    BY TypeParts DEF TypeInv
  <1>2. UNCHANGED <<gh, inst, gir, repo, budget, chosen, raced, stale>>
    BY Zenon DEF CancelActiveSyncJobs
  <1>3. CASE UNCHANGED queued /\ Turn(p) /\ Went(p, "find to drop")
    BY <1>2, <1>3, ConnFree, HarmlessPlaces DEF rows
  <1>4. ASSUME NEW r \in proc[p].todo, queued' = [queued EXCEPT ![r] = 0],
               proc'[p].todo = proc[p].todo \ {r}, proc'[p].at = "cancel", proc'[p].op = proc[p].op, Turn(p)
        PROVE  ConnInv'
    <2>1. \A s \in Repos : (queued[s] = 0 => queued'[s] = 0) /\ (s = r => queued'[s] = 0)
      BY <1>1, <1>4 DEF RowsOK
    <2>2. RowsInv' /\ \A q \in Goroutines : q # p => GoesOn(proc[q])'
      BY <1>2, <1>4, <2>1, FewerJobs DEF Turn, Others
    <2>3. GoesOn(proc[p])'
      <3>1. Placed(p) /\ GoesOn(proc[p]) /\ proc[p].at = "cancel"
        BY PlacedFacts DEF ConnInv, CancelActiveSyncJobs, At
      <3>2. proc[p].op = "disconnect"
        BY <3>1, IdleTyped DEF Placed, OfRequest, OfDelivery, Refreshing
      <3>3. \A s \in Repos \ proc'[p].todo : queued'[s] = 0 \/ s \in raced
        BY <1>4, <2>1, <3>1, <3>2 DEF GoesOn
      <3>4. QED
        BY <1>2, <1>4, <3>2, <3>3 DEF GoesOn, Bound
    <2>4. QED
      BY <2>2, <2>3, ConnParts
  <1>5. QED
    BY <1>1, <1>3, <1>4, CancelTurn

LEMMA ConnLink ==
  ASSUME TypeInv, ConnInv, NEW p \in Goroutines, LinkRepositoryAndMarkSelected(p)
  PROVE  ConnInv'
  <1>1. Procing /\ RowsOK
    BY TypeParts DEF TypeInv
  <1>2. UNCHANGED <<gh, inst, queued, budget, stale>> /\ proc[p].at = "link"
    BY Zenon DEF LinkRepositoryAndMarkSelected, At
  <1>3. CASE UNCHANGED <<gir, repo, chosen, raced>> /\ Turn(p) /\ (WentBack(p, "done") \/ WentBack(p, "failed"))
    BY <1>2, <1>3, ConnFree DEF rows
  <1>4. ASSUME NEW r \in Repos, r \in proc[p].todo, r \in proc[p].items,
               gir[r] # None, gir' = [gir EXCEPT ![r].linked = TRUE], repo' = [repo EXCEPT ![r] = "active"],
               chosen' = chosen \cup {r},
               raced' = IF inst.disconnected \/ Canceling(r) THEN raced ELSE raced \ {r},
               proc'[p].at = "target", proc'[p].todo = proc[p].todo \ {r},
               proc'[p].op = proc[p].op, proc'[p].items = proc[p].items, Turn(p)
        PROVE  ConnInv'
    <2>1. RowsInv /\ \A q \in Goroutines : GoesOn(proc[q])
      BY DEF ConnInv
    <2>2. inst # None /\ Disconnected' = Disconnected /\ (Disconnected <=> inst.disconnected)
      BY <1>2, <1>4, <2>1 DEF RowsInv, Disconnected
    <2>3. \A s \in Repos : s # r => gir'[s] = gir[s] /\ repo'[s] = repo[s]
      BY <1>1, <1>4 DEF RowsOK
    <2>4. gir'[r] # None /\ gir'[r].linked /\ gir'[r].status = gir[r].status /\ repo'[r] = "active"
      <3>1. gir[r] \in AccessRow
        BY <1>1, <1>4 DEF RowsOK
      <3>2. gir'[r] = [gir[r] EXCEPT !.linked = TRUE] /\ repo'[r] = "active"
        BY <1>1, <1>4 DEF RowsOK
      <3>3. [gir[r] EXCEPT !.linked = TRUE] \in AccessRow
        BY <3>1 DEF AccessRow
      <3>4. QED
        BY <3>1, <3>2, <3>3, NoConnectionRow DEF AccessRow
    <2>5. Linked' = Linked \cup {r}
      BY <1>4, <2>3, <2>4 DEF Linked
    <2>6. \A s \in Repos : Accessible(s)' <=> Accessible(s)
      BY <1>4, <2>3, <2>4 DEF Accessible
    <2>7. proc[p].op = "select" /\ (Disconnected => r \in raced /\ raced' = raced)
      BY <1>2, <1>4, <2>1, <2>2, BoundFacts DEF GoesOn
    <2>8. raced' \subseteq raced /\ raced \subseteq raced' \cup {r}
      BY <1>4
    <2>9. RowsInv'
      <3>1. inst' = None => \A s \in Repos : gir'[s] = None
        BY <1>2, <2>2
      <3>2. Disconnected' => /\ inst'.status # "connected"
                             /\ \A s \in Repos \ raced' : repo'[s] # "active" /\ queued'[s] = 0 /\ ~Accessible(s)'
        BY <1>2, <2>1, <2>2, <2>3, <2>6, <2>7 DEF RowsInv
      <3>3. \A s \in Repos : repo'[s] = "active" \/ queued'[s] # 0 => s \in Linked' \cup raced'
        BY <1>2, <2>1, <2>3, <2>5, <2>8 DEF RowsInv
      <3>4. Linked' \subseteq chosen'
        BY <1>4, <2>1, <2>5 DEF RowsInv
      <3>5. QED
        BY <3>1, <3>2, <3>3, <3>4 DEF RowsInv
    <2>10. ASSUME NEW q \in Goroutines, q # p
           PROVE  GoesOn(proc[q])'
      <3>1. proc'[q] = proc[q] /\ GoesOn(proc[q])
        BY <1>4, <2>1, <2>10 DEF Turn, Others
      <3>2. Bound(proc[q]) => repo'[proc[q].r] = "absent" \/ proc[q].r \in Linked' \cup raced'
        <4>1. Bound(proc[q]) => proc[q].r \in Repos /\ (repo[proc[q].r] = "absent" \/ proc[q].r \in Linked \cup raced)
          BY <3>1, BoundFacts DEF GoesOn
        <4>2. QED
          BY <4>1, <2>3, <2>5, <2>8
      <3>3. proc[q].op = "disconnect" => \A s \in Repos \ proc[q].todo : queued[s] = 0 \/ s \in raced'
        <4>1. proc[q].op = "disconnect" /\ r \notin proc[q].todo => raced' = raced
          BY <1>4, BoundFacts DEF Canceling
        <4>2. QED
          BY <2>8, <3>1, <4>1 DEF GoesOn
      <3>4. QED
        BY <1>2, <2>2, <2>7, <3>1, <3>2, <3>3 DEF GoesOn, Bound
    <2>11. GoesOn(proc[p])'
      BY <1>4, <2>1, <2>2, <2>7 DEF GoesOn, Bound
    <2>12. QED
      BY <2>9, <2>10, <2>11, ConnParts
  <1>5. QED
    BY <1>1, <1>3, <1>4, LinkTurn

\* A job is inserted, by a request or with a delivery.
LEMMA ConnInserted ==
  ASSUME TypeInv, ConnInv, NEW p \in Goroutines, Turn(p), Bound(proc[p]), repo[proc[p].r] # "absent",
         Inserted(proc[p].r), UNCHANGED <<inst, gir, repo, chosen>>, GoesOn(proc[p])'
  PROVE  ConnInv'
  <1>1. RowsInv /\ \A q \in Goroutines : GoesOn(proc[q])
    BY DEF ConnInv
  <1>2. RowsOK
    BY TypeParts DEF TypeInv
  <1>3. PICK r \in Repos : r = proc[p].r
    BY BoundFacts
  <1>4. /\ queued' = [queued EXCEPT ![r] = @ + 1]
        /\ raced \subseteq raced' /\ (Canceling(r) => r \in raced') /\ raced' \subseteq raced \cup {r}
    BY <1>3 DEF Inserted
  <1>5. r \in Linked \cup raced /\ (Disconnected => r \in raced)
    BY <1>1, <1>3 DEF GoesOn
  <1>6. Linked' = Linked /\ Disconnected' = Disconnected /\ \A s \in Repos : Accessible(s)' <=> Accessible(s)
    BY DEF Linked, Disconnected, Accessible
  <1>7. \A s \in Repos : s # r => queued'[s] = queued[s]
    BY <1>2, <1>4 DEF RowsOK
  <1>8. RowsInv'
    BY <1>1, <1>4, <1>5, <1>6, <1>7 DEF RowsInv
  <1>9. ASSUME NEW q \in Goroutines, q # p
        PROVE  GoesOn(proc[q])'
    <2>1. proc'[q] = proc[q] /\ GoesOn(proc[q])
      BY <1>1, <1>9 DEF Turn, Others
    <2>2. proc[q].op = "disconnect" => \A s \in Repos \ proc[q].todo : queued'[s] = 0 \/ s \in raced'
      <3>1. proc[q].op = "disconnect" /\ r \notin proc[q].todo => r \in raced'
        BY <1>4, BoundFacts DEF Canceling
      <3>2. QED
        BY <1>4, <1>7, <2>1, <3>1 DEF GoesOn
    <2>3. raced = Repos => raced' = Repos
      BY <1>4
    <2>4. QED
      BY <1>4, <1>6, <2>1, <2>2, <2>3 DEF GoesOn, Bound
  <1>10. QED
    BY <1>8, <1>9, ConnParts

LEMMA ConnInsert ==
  ASSUME TypeInv, ConnInv, NEW p \in Goroutines, InsertJob(p)
  PROVE  ConnInv'
  <1>1. Procing /\ GoesOn(proc[p])
    BY TypeParts DEF TypeInv, ConnInv
  <1>2. /\ Turn(p) /\ proc[p].at = "insert" /\ NextOne(p)
        /\ \/ repo[proc[p].r] = "absent" /\ UNCHANGED <<queued, raced>>
           \/ repo[proc[p].r] # "absent" /\ Inserted(proc[p].r)
        /\ UNCHANGED <<gh, inst, gir, repo, budget, chosen, stale>>
    BY <1>1, InsertTurn
  <1>3. CASE UNCHANGED <<queued, raced>>
    BY <1>2, <1>3, ConnFree DEF rows
  <1>4. CASE repo[proc[p].r] # "absent" /\ Inserted(proc[p].r)
    <2>1. raced \subseteq raced' /\ Disconnected' = Disconnected
      BY <1>2, <1>4 DEF Inserted, Disconnected
    <2>2. GoesOn(proc[p])'
      BY <1>1, <1>2, <2>1, IdleTyped DEF NextOne, Released, GoesOn, Bound
    <2>3. Bound(proc[p])
      BY <1>2 DEF Bound
    <2>4. QED
      BY <1>2, <1>4, <2>2, <2>3, ConnInserted
  <1>5. QED
    BY <1>2, <1>3, <1>4

LEMMA ConnEnqueue ==
  ASSUME TypeInv, ConnInv, NEW p \in Goroutines, EnqueueWebhookSync(p)
  PROVE  ConnInv'
  <1>1. Procing /\ Rowing /\ Placed(p)
    BY TypeParts, PlacedFacts DEF TypeInv
  <1>2. proc[p].at = "store"
    BY Zenon DEF EnqueueWebhookSync, At
  <1>3. proc[p].op = "handle" /\ HandledBy(p)
    BY <1>1, <1>2, IdleTyped, HandlerTyped DEF Placed, OfRequest, OfDelivery, Refreshing
  <1>4. /\ Turn(p)
        /\ UNCHANGED <<gh, inst, gir, repo, budget, chosen, stale, sent, deployed, lost>>
        /\ \/ Released(p) /\ UNCHANGED <<queued, raced>>
           \/ /\ proc[p].r # None => repo[proc[p].r] # "absent"
              /\ \/ WithJob(p) /\ Went(p, "project") /\ Inserted(proc[p].r)
                 \/ Went(p, "apply") /\ UNCHANGED <<queued, raced>>
    BY <1>1, <1>3, EnqueueTurn
  <1>5. CASE UNCHANGED <<queued, raced>> /\ (Released(p) \/ Went(p, "apply"))
    BY <1>4, <1>5, ConnFree, HarmlessPlaces DEF rows
  <1>6. CASE /\ proc[p].r # None => repo[proc[p].r] # "absent"
             /\ WithJob(p) /\ Went(p, "project") /\ Inserted(proc[p].r)
    <2>1. proc[p].r # None
      BY <1>6 DEF WithJob
    <2>2. Bound(proc[p])
      BY <1>2, <2>1 DEF Bound
    <2>3. GoesOn(proc[p])'
      BY <1>3, <1>6 DEF Went, GoesOn, Bound
    <2>4. QED
      BY <1>4, <1>6, <2>1, <2>2, <2>3, ConnInserted
  <1>7. QED
    BY <1>4, <1>5, <1>6

\* A user changes a repository.
LEMMA ConnWrite ==
  ASSUME TypeInv, ConnInv, NEW p \in Goroutines, WriteRepository(p)
  PROVE  ConnInv'
  <1>1. RowsInv /\ \A q \in Goroutines : GoesOn(proc[q])
    BY DEF ConnInv
  <1>2. Procing /\ RowsOK
    BY TypeParts DEF TypeInv
  <1>3. /\ Turn(p) /\ proc[p].at = "write" /\ WentBack(p, "done")
        /\ repo' = IF repo[proc[p].r] = "absent" THEN repo
                   ELSE [repo EXCEPT ![proc[p].r] = IF proc[p].active THEN "active" ELSE "inactive"]
        /\ raced' = IF proc[p].op = "activate" THEN raced \cup {proc[p].r} ELSE raced
        /\ UNCHANGED <<gh, inst, gir, queued, budget, chosen, stale>>
    BY <1>2, WriteTurn
  <1>4. PICK r \in Repos : r = proc[p].r
    BY <1>3, PlacedFacts
  <1>5. proc[p].op \in {"patch", "activate"} /\ proc[p].d = 0
    <2>1. Placed(p)
      BY PlacedFacts
    <2>2. QED
      BY <1>3, <2>1, IdleTyped DEF Placed, OfRequest, OfDelivery, Refreshing
  <1>6. /\ \A s \in Repos : s # r => repo'[s] = repo[s]
        /\ \A s \in Repos : repo[s] = "absent" <=> repo'[s] = "absent"
        /\ repo'[r] = "active" => repo[r] # "absent" /\ proc[p].active
    BY <1>2, <1>3, <1>4 DEF RowsOK
  <1>7. raced \subseteq raced' /\ raced' \subseteq Repos
    BY <1>2, <1>3, <1>4 DEF RowsOK
  <1>8. repo'[r] = "active" => r \in Linked \cup raced' /\ (Disconnected => r \in raced')
    <2>1. CASE proc[p].op = "activate"
      BY <1>3, <1>4, <2>1
    <2>2. CASE proc[p].op = "patch"
      BY <1>1, <1>3, <1>4, <1>6, <1>7, <2>2 DEF GoesOn, Bound
    <2>3. QED
      BY <1>5, <2>1, <2>2
  <1>9. Linked' = Linked /\ Disconnected' = Disconnected /\ \A s \in Repos : Accessible(s)' <=> Accessible(s)
    BY <1>3 DEF Linked, Disconnected, Accessible
  <1>10. RowsInv'
    BY <1>1, <1>3, <1>6, <1>7, <1>8, <1>9 DEF RowsInv
  <1>11. ASSUME NEW q \in Goroutines, q # p
         PROVE  GoesOn(proc[q])'
    <2>1. proc'[q] = proc[q] /\ GoesOn(proc[q])
      BY <1>1, <1>3, <1>11 DEF Turn, Others
    <2>2. raced = Repos => raced' = Repos
      BY <1>7
    <2>3. Bound(proc[q]) => repo'[proc[q].r] = "absent" \/ proc[q].r \in Linked' \cup raced'
      <3>1. Bound(proc[q]) => proc[q].r \in Repos /\ (repo[proc[q].r] = "absent" \/ proc[q].r \in Linked \cup raced)
        BY <2>1, BoundFacts DEF GoesOn
      <3>2. QED
        BY <3>1, <1>6, <1>7, <1>9
    <2>4. QED
      BY <1>3, <1>7, <1>9, <2>1, <2>2, <2>3 DEF GoesOn, Bound
  <1>12. GoesOn(proc[p])'
    BY <1>3, <1>5, IdleTyped DEF WentBack, Released, GoesOn, Bound
  <1>13. QED
    BY <1>10, <1>11, <1>12, ConnParts

\* The installation is purged, with everything it gave access to.
LEMMA ConnDelete ==
  ASSUME TypeInv, ConnInv, NEW p \in Goroutines, DeleteInstallation(p)
  PROVE  ConnInv'
  <1>1. RowsInv /\ \A q \in Goroutines : GoesOn(proc[q])
    BY DEF ConnInv
  <1>2. Procing /\ Rowing /\ RowsOK
    BY TypeParts DEF TypeInv
  <1>3. /\ Turn(p) /\ proc[p].at = "delete" /\ WentBack(p, "done")
        /\ inst' = None /\ gir' = [r \in Repos |-> None]
        /\ repo' = [r \in Repos |-> IF gir[r] = None THEN repo[r] ELSE "absent"]
        /\ queued' = [r \in Repos |-> IF gir[r] = None THEN queued[r] ELSE 0]
        /\ chosen' = {} /\ UNCHANGED raced
    BY <1>2, DeleteTurn
  <1>4. Linked' = {} /\ ~Disconnected'
    BY <1>3 DEF Linked, Disconnected
  <1>5. \A s \in Repos : (repo[s] = "absent" \/ s \in Linked) => repo'[s] = "absent"
    BY <1>3 DEF Linked
  <1>6. \A s \in Repos : repo'[s] = "active" \/ queued'[s] # 0 => s \in raced
    BY <1>1, <1>3 DEF RowsInv, Linked
  <1>7. \A s \in Repos : queued[s] = 0 => queued'[s] = 0
    BY <1>3
  <1>8. RowsInv'
    BY <1>3, <1>4, <1>6 DEF RowsInv
  <1>9. ASSUME NEW q \in Goroutines, q # p
        PROVE  GoesOn(proc[q])'
    <2>1. proc'[q] = proc[q] /\ GoesOn(proc[q])
      BY <1>1, <1>3, <1>9 DEF Turn, Others
    <2>2. Bound(proc[q]) => repo'[proc[q].r] = "absent" \/ proc[q].r \in raced
      <3>1. Bound(proc[q]) => proc[q].r \in Repos /\ (repo[proc[q].r] = "absent" \/ proc[q].r \in Linked \cup raced)
        BY <2>1, BoundFacts DEF GoesOn
      <3>2. QED
        BY <3>1, <1>5
    <2>3. QED
      BY <1>3, <1>4, <1>7, <2>1, <2>2 DEF GoesOn, Bound
  <1>10. GoesOn(proc[p])'
    <2>1. proc[p].d = 0
      <3>1. Placed(p)
        BY PlacedFacts
      <3>2. QED
        BY <1>3, <3>1, IdleTyped DEF Placed, OfRequest, OfDelivery, Refreshing
    <2>2. QED
      BY <1>3, <2>1, IdleTyped DEF WentBack, Released, GoesOn, Bound
  <1>11. QED
    BY <1>8, <1>9, <1>10, ConnParts

LEMMA ConnWrites ==
  ASSUME TypeInv, ConnInv, NEW p \in Goroutines, UpsertInstallation(p) \/ SuspendInstallation(p)
  PROVE  ConnInv'
  <1>1. Procing /\ RowsOK
    BY TypeParts DEF TypeInv
  <1>2. CASE UpsertInstallation(p)
    <2>1. PICK suspended \in BOOLEAN : suspended = (proc[p].seen = "suspended")
      OBVIOUS
    <2>2. PICK status \in {"connected", "installation_required"} :
            status = DeriveInstallationLifecycleStatus(proc[p].seen)
      BY DEF DeriveInstallationLifecycleStatus
    <2>3. /\ Turn(p) /\ proc[p].at = "upsert" /\ Went(p, "list")
          /\ inst' = [status |-> status, suspended |-> suspended, disconnected |-> FALSE]
          /\ UNCHANGED <<gir, repo, queued, chosen, raced>>
      BY <1>1, <1>2, <2>1, <2>2, UpsertTurn
    <2>4. inst' \in Installation
      BY <2>3 DEF Installation
    <2>5. inst' # None /\ ~Disconnected'
      BY <2>3, <2>4, NoConnectionRow DEF Disconnected
    <2>6. QED
      BY <2>3, <2>5, ConnUpsert
  <1>3. CASE SuspendInstallation(p)
    <2>1. /\ Turn(p) /\ proc[p].at = "suspend" /\ WentBack(p, "done")
          /\ inst' = IF inst = None THEN None
                     ELSE [status |-> "installation_required", suspended |-> TRUE, disconnected |-> FALSE]
          /\ UNCHANGED <<gir, repo, queued, chosen, raced>>
      BY <1>1, <1>3, SuspendTurn
    <2>2. [status |-> "installation_required", suspended |-> TRUE, disconnected |-> FALSE] \in Installation
      BY DEF Installation
    <2>3. (inst' = None <=> inst = None) /\ ~Disconnected'
      BY <2>1, <2>2, NoConnectionRow DEF Disconnected
    <2>4. QED
      BY <2>1, <2>3, ConnUpsert
  <1>4. QED
    BY <1>2, <1>3

LEMMA ConnRest ==
  ASSUME TypeInv, ConnInv, NEW p \in Goroutines,
         \/ EnqueueWebhookSync(p) \/ ProjectRepositoryEvent(p) \/ ProcessPersistedDelivery(p)
         \/ MarkDeliveryStatus(p) \/ ScheduleRetryFailure(p) \/ DeleteInstallation(p)
         \/ CallFails(p) /\ UNCHANGED webhookVars
         \/ DeliveryFails(p) \/ StatementFails(p) \/ GoroutineEnds(p)
  PROVE  ConnInv'
  <1>1. Procing /\ Rowing /\ Placed(p)
    BY TypeParts, PlacedFacts DEF TypeInv
  <1>2. proc[p].at \in {"store", "project", "apply", "mark", "done", "failed"} => HandledBy(p)
    BY <1>1, HandlerTyped, IdleTyped DEF Placed, OfRequest, Refreshing
  <1>3. CASE ProjectRepositoryEvent(p)
    BY <1>1, <1>3, ProjectTurn, ConnFree, HarmlessPlaces
  <1>4. CASE ProcessPersistedDelivery(p)
    BY <1>1, <1>4, ProcessTurn, ConnFree, HarmlessPlaces
  <1>5. CASE MarkDeliveryStatus(p)
    <2>1. proc[p].at \in {"mark", "done"}
      BY <1>5 DEF MarkDeliveryStatus, At
    <2>2. QED
      BY <1>1, <1>2, <1>5, <2>1, MarkTurn, ConnFree
  <1>6. CASE ScheduleRetryFailure(p)
    <2>1. proc[p].at = "failed"
      BY <1>6 DEF ScheduleRetryFailure, At
    <2>2. QED
      BY <1>1, <1>2, <1>6, <2>1, ScheduleTurn, ConnFree
  <1>7. CASE DeliveryFails(p)
    BY <1>1, <1>7, DeliveryFailsTurn, ConnFree
  <1>8. CASE StatementFails(p)
    BY <1>1, <1>8, StatementFailsTurn, ConnFree, HarmlessPlaces
  <1>9. CASE GoroutineEnds(p)
    BY <1>1, <1>9, EndsTurn, ConnFree
  <1>10. QED
    BY <1>3, <1>4, <1>5, <1>6, <1>7, <1>8, <1>9, ConnEnqueue, ConnDelete, ConnReads

LEMMA ConnStepKeeps ==
  ASSUME TypeInv, ConnInv, [Next]_vars
  PROVE  ConnInv'
  <1>1. Procing /\ Rowing /\ BudgetOK /\ TypeOK
    BY TypeParts DEF TypeInv
  <1>2. ASSUME UNCHANGED rows, UNCHANGED proc PROVE ConnInv'
    BY <1>2, KeepRows DEF ConnInv
  <1>3. CASE UNCHANGED vars
    BY <1>2, <1>3 DEF vars, rows
  <1>4. CASE GithubChange
    BY <1>1, <1>2, <1>4, ChangeTurn
  <1>5. CASE \E r \in Repos : RepositoryEvent(r)
    BY <1>1, <1>2, <1>5, EventTurn
  <1>6. CASE \E r \in Repos : JobEnds(r) /\ UNCHANGED webhookVars
    BY <1>6, ConnJobEnds
  <1>7. CASE \E p \in Procs : ConnRequest(p) /\ UNCHANGED webhookVars
    <2>1. PICK p \in Procs : ConnRequest(p)
      BY <1>7
    <2>2. Turn(p) /\ UNCHANGED rows /\ Request0(proc'[p]) /\ p \in Goroutines
      BY <1>1, <2>1, RequestTurn DEF BudgetOK, Goroutines
    <2>3. QED
      BY <2>2, ConnRequests
  <1>8. CASE \E p \in Procs : \E d \in Deliveries : Handle(p, d)
    <2>1. PICK p \in Procs, d \in Deliveries : Handle(p, d)
      BY <1>8
    <2>2. QED
      BY <2>1, HandleTurn, ConnRequests
  <1>9. CASE \E d \in Deliveries : Retry(d)
    <2>1. PICK d \in Deliveries : Retry(d)
      BY <1>9
    <2>2. Turn(Worker) /\ Worker \in Goroutines /\ UNCHANGED rows
          /\ proc'[Worker].op = "retry" /\ proc'[Worker].at \in {"project", "apply", "mark"}
      BY <1>1, <2>1, RetryTurn
    <2>3. QED
      BY <2>2, ConnRequests
  <1>10. CASE \E d \in Deliveries : CleanupExpiredWebhookPayload(d)
    BY <1>1, <1>2, <1>10, CleanupTurn
  <1>11. ASSUME NEW p \in Goroutines, ConnStep(p)
         PROVE  ConnInv'
    BY <1>11, ConnReads, ConnWrites, ConnReplace, ConnDrop, ConnCancel, ConnLink, ConnInsert, ConnWrite, Zenon
       DEF ConnStep
  <1>12. ASSUME NEW p \in Goroutines,
              \/ EnqueueWebhookSync(p) \/ ProjectRepositoryEvent(p) \/ ProcessPersistedDelivery(p)
              \/ MarkDeliveryStatus(p) \/ ScheduleRetryFailure(p) \/ DeleteInstallation(p)
              \/ CallFails(p) /\ UNCHANGED webhookVars
              \/ DeliveryFails(p) \/ StatementFails(p) \/ GoroutineEnds(p)
         PROVE  ConnInv'
    BY <1>12, ConnRest, Zenon
  <1>13. QED
    BY <1>3, <1>4, <1>5, <1>6, <1>7, <1>8, <1>9, <1>10, <1>11, <1>12, Steps, Zenon

LEMMA ConnStart ==
  ASSUME Init
  PROVE  ConnInv
  <1>1. /\ \/ /\ inst = None /\ gir = [r \in Repos |-> None] /\ repo = [r \in Repos |-> "absent"]
              /\ chosen = {}
           \/ /\ inst = [status |-> "connected", suspended |-> FALSE, disconnected |-> FALSE]
              /\ gir = [r \in Repos |-> [status |-> "accessible", linked |-> TRUE]]
              /\ chosen = Repos
        /\ queued = [r \in Repos |-> 0] /\ proc = [p \in Goroutines |-> Idle]
    BY Zenon DEF Init, ConnInit
  <1>2. [status |-> "connected", suspended |-> FALSE, disconnected |-> FALSE] \in Installation
    BY DEF Installation
  <1>3. [status |-> "accessible", linked |-> TRUE] \in AccessRow
    BY DEF AccessRow
  <1>4. ~Disconnected
    BY <1>1 DEF Disconnected
  <1>5. RowsInv
    <2>1. CASE /\ inst = None /\ gir = [r \in Repos |-> None] /\ repo = [r \in Repos |-> "absent"] /\ chosen = {}
      BY <1>1, <1>4, <2>1 DEF RowsInv, Linked
    <2>2. CASE /\ inst = [status |-> "connected", suspended |-> FALSE, disconnected |-> FALSE]
               /\ gir = [r \in Repos |-> [status |-> "accessible", linked |-> TRUE]] /\ chosen = Repos
      <3>1. Linked = Repos /\ inst # None
        BY <1>2, <1>3, <2>2, NoConnectionRow DEF Linked
      <3>2. QED
        BY <1>1, <1>4, <2>2, <3>1 DEF RowsInv
    <2>3. QED
      BY <1>1, <2>1, <2>2
  <1>6. \A q \in Goroutines : GoesOn(proc[q])
    BY <1>1, IdleTyped DEF GoesOn, Bound
  <1>7. QED
    BY <1>5, <1>6 DEF ConnInv

LEMMA Connected == Spec => []ConnInv
  <1>1. Init => ConnInv
    BY ConnStart
  <1>2. TypeInv /\ ConnInv /\ [Next]_vars => ConnInv'
    BY ConnStepKeeps
  <1>3. QED
    BY <1>1, <1>2, Typed, PTL DEF Spec

\* FindInstallationIDByRepositoryFullName gives a token for no repository but those a user
\* linked since the organization's installation was last disconnected or purged:
\* ReplaceAccessibleRepositories and the upsert of the installation, however late they come,
\* revive no link that DisconnectInstallation took away.
THEOREM TokensForSelected == Spec => []TokenNeedsSelection
  <1>1. ConnInv => TokenNeedsSelection
    BY DEF ConnInv, RowsInv, TokenNeedsSelection, HasToken, Linked
  <1>2. QED
    BY <1>1, Connected, PTL

\* DisconnectInstallation leaves no repository active and no job queued, whatever
\* is linked, listed, patched or delivered at the same time, except for the repositories
\* something else was at when it committed.
THEOREM DisconnectHolds == Spec => []DisconnectedIsInactive
  <1>1. ConnInv => DisconnectedIsInactive
    BY DEF ConnInv, RowsInv, DisconnectedIsInactive, Disconnected
  <1>2. QED
    BY <1>1, Connected, PTL

-----------------------------------------------------------------------------
(* Deliveries in hand: which goroutine has one, and what becomes of its row.    *)

Longer == \A d \in DOMAIN sent : d \in DOMAIN sent' /\ sent'[d] = sent[d]

\* A goroutine that goes on with what it has, and does not come to marking it.
KeepsHand(p) ==
  \/ proc[p].d = 0 /\ proc'[p].d = 0
  \/ /\ proc[p].d # 0 /\ proc'[p].d = proc[p].d /\ proc'[p].op = proc[p].op
     /\ proc[p].at # "store" /\ proc'[p].at \notin {"store", "mark"}

LEMMA ConnHand ==
  ASSUME TypeInv, NEW p \in Goroutines, ConnStep(p) \/ CallFails(p)
  PROVE  Turn(p) /\ KeepsHand(p)
  <1>1. Procing /\ gh.state \in GhStates /\ gh.repos \in SUBSET Repos
    BY TypeParts DEF TypeInv, GhOK
  <1>2. Placed(p)
    BY PlacedFacts
  <1>3. proc[p].at \in {"target", "insert", "link", "cancel", "write"} => proc[p].d = 0
    BY <1>2, IdleTyped DEF Placed, OfRequest, OfDelivery, Refreshing
  <1>4. Idle.d = 0
    BY IdleTyped
  <1> USE DEF Went, WentBack, Released, NextOne, KeepsHand
  <1>5. CASE FindOrganization(p)
    BY <1>1, <1>4, <1>5, FindTurn
  <1>6. CASE GetInstallation(p)
    BY <1>1, <1>4, <1>6, GetTurn
  <1>7. CASE UpsertInstallation(p)
    BY <1>1, <1>4, <1>7, UpsertTurn
  <1>8. CASE ListInstallationRepositories(p)
    BY <1>1, <1>4, <1>8, ListTurn
  <1>9. CASE ReplaceAccessibleRepositories(p)
    BY <1>1, <1>4, <1>9, ReplaceTurn
  <1>10. CASE SuspendInstallation(p)
    BY <1>1, <1>4, <1>10, SuspendTurn
  <1>11. CASE DisconnectInstallation(p)
    BY <1>1, <1>4, <1>11, DropTurn
  <1>12. CASE CancelActiveSyncJobs(p)
    BY <1>1, <1>3, <1>4, <1>12, CancelTurn
  <1>13. CASE LinkRepositoryAndMarkSelected(p)
    BY <1>1, <1>3, <1>4, <1>13, LinkTurn
  <1>14. CASE GetRepositoryTarget(p)
    BY <1>1, <1>3, <1>4, <1>14, TargetTurn
  <1>15. CASE InsertJob(p)
    BY <1>1, <1>3, <1>4, <1>15, InsertTurn
  <1>16. CASE WriteRepository(p)
    BY <1>1, <1>3, <1>4, <1>16, WriteTurn
  <1>17. CASE CallFails(p)
    BY <1>1, <1>3, <1>4, <1>17, CallFailsTurn DEF Refreshing
  <1>18. QED
    BY <1>5, <1>6, <1>7, <1>8, <1>9, <1>10, <1>11, <1>12, <1>13, <1>14, <1>15, <1>16, <1>17, Zenon DEF ConnStep

LEMMA StoredSent ==
  ASSUME TypeInv, Longer
  PROVE  \A d \in Deliveries : delivery[d] # None => sent'[d] = sent[d]
  BY DEF TypeInv, Longer

\* No goroutine takes a delivery, and no row of one in hand changes.
LEMMA HandsKept ==
  ASSUME TypeInv, DeliveryInv, lost \subseteq lost', Longer,
         \A q \in Goroutines, d \in Deliveries \ lost' : Has(q, d)' =>
           /\ Has(q, d)
           /\ proc'[q].at = "mark" /\ IsInstallationEvent(sent[d].kind) => proc[q].at = "mark"
           /\ delivery'[d] # None /\ delivery'[d].status = delivery[d].status
           /\ delivery'[d].known = delivery[d].known
  PROVE  DeliveryInv'
  <1>1. SUFFICES ASSUME NEW d \in Deliveries \ lost'
                 PROVE  /\ \A p, q \in Goroutines : Has(p, d)' /\ Has(q, d)' => p = q
                        /\ \A q \in Goroutines : Has(q, d)' =>
                             /\ delivery'[d] # None
                             /\ delivery'[d].status \in (IF q = Worker THEN {"failed"} ELSE {"enqueued", "ignored"})
                             /\ proc'[q].at = "mark" /\ IsInstallationEvent(sent'[d].kind) => ~delivery'[d].known
    BY DEF DeliveryInv, IsInstallationEvent, InstallationKinds
  <1>2. d \in Deliveries /\ d \notin lost
    OBVIOUS
  <1>3. \A p, q \in Goroutines : Has(p, d) /\ Has(q, d) => p = q
    BY <1>2 DEF DeliveryInv
  <1>4. ASSUME NEW q \in Goroutines, Has(q, d)
        PROVE  /\ delivery[d] # None
               /\ delivery[d].status \in (IF q = Worker THEN {"failed"} ELSE {"enqueued", "ignored"})
               /\ proc[q].at = "mark" /\ IsInstallationEvent(sent[d].kind) => ~delivery[d].known
    BY <1>2, <1>4 DEF DeliveryInv
  <1>5. delivery[d] # None => sent'[d] = sent[d]
    BY <1>2, StoredSent
  <1>6. QED
    BY <1>3, <1>4, <1>5

\* A goroutine that lets a delivery go leaves its event to a retry, or it was lost.
LEMMA EventsKept ==
  ASSUME TypeInv, EventAppliedOrRetried, lost \subseteq lost', Longer, delivery' = delivery,
         \A q \in Goroutines, d \in Deliveries : Has(q, d) /\ delivery[d] # None =>
           \/ Has(q, d)' \/ d \in lost' \/ delivery[d].status \in {"failed", "dead_letter"}
           \/ ~IsInstallationEvent(sent[d].kind)
  PROVE  EventAppliedOrRetried'
  <1>1. SUFFICES ASSUME NEW d \in Deliveries, delivery'[d] # None, delivery'[d].known,
                        IsInstallationEvent(sent'[d].kind)
                 PROVE  \/ delivery'[d].applied \/ InHand(d)' \/ d \in lost'
                        \/ delivery'[d].status \in {"failed", "dead_letter"}
    BY DEF EventAppliedOrRetried
  <1>2. sent'[d] = sent[d]
    BY <1>1, StoredSent
  <1>3. \/ delivery[d].applied \/ InHand(d) \/ d \in lost
        \/ delivery[d].status \in {"failed", "dead_letter"}
    BY <1>1, <1>2 DEF EventAppliedOrRetried
  <1>4. InHand(d) => \E q \in Goroutines : Has(q, d)
    BY DEF InHand, Has
  <1>5. (\E q \in Goroutines : Has(q, d)') => InHand(d)'
    BY DEF InHand, Has
  <1>6. QED
    BY <1>1, <1>2, <1>3, <1>4, <1>5

LEMMA KeepsApplied ==
  ASSUME TypeInv, AppliedInv, Longer, UNCHANGED <<delivery, lost>>,
         \/ UNCHANGED proc
         \/ \E p \in Goroutines : Turn(p) /\ KeepsHand(p)
  PROVE  AppliedInv'
  <1>1. \A q \in Goroutines : \/ proc'[q] = proc[q]
                              \/ KeepsHand(q)
    BY DEF Turn, Others
  <1>2. 0 \notin Deliveries
    BY SentTyped DEF TypeInv
  <1>3. \A q \in Goroutines, d \in Deliveries : Has(q, d)' <=> Has(q, d)
    BY <1>1, <1>2 DEF Has, KeepsHand
  <1>4. \A q \in Goroutines, d \in Deliveries : Has(q, d)' /\ proc'[q].at = "mark" => proc[q].at = "mark"
    BY <1>1, <1>2 DEF Has, KeepsHand
  <1>5. \A q \in Goroutines, d \in Deliveries \ lost : Has(q, d) => delivery[d] # None
    BY DEF AppliedInv, DeliveryInv
  <1>6. DeliveryInv'
    BY <1>3, <1>4, <1>5, HandsKept DEF AppliedInv
  <1>7. EventAppliedOrRetried'
    BY <1>3, EventsKept DEF AppliedInv
  <1>8. QED
    BY <1>6, <1>7 DEF AppliedInv

\* What DeliveryInv says of one goroutine.
LEMMA InHandFacts ==
  ASSUME TypeInv, DeliveryInv, NEW d \in Deliveries, d \notin lost
  PROVE  /\ \A p, q \in Goroutines : Has(p, d) /\ Has(q, d) => p = q
         /\ \A q \in Goroutines : Has(q, d) =>
              /\ delivery[d] # None
              /\ delivery[d].status \in (IF q = Worker THEN {"failed"} ELSE {"enqueued", "ignored"})
              /\ proc[q].at = "mark" /\ IsInstallationEvent(sent[d].kind) => ~delivery[d].known
  BY DEF DeliveryInv

LEMMA WorkerRetries ==
  ASSUME TypeInv, NEW p \in Goroutines
  PROVE  /\ proc[p].d # 0 => proc[p].op = (IF p = Worker THEN "retry" ELSE "handle")
         /\ proc[p].d # 0 => proc[p].d \in DOMAIN sent /\ proc[p].d \in Deliveries
         /\ proc[p].at \in {"store", "apply", "project", "mark", "failed", "done"} => proc[p].d # 0
         /\ proc[p].at = "store" => proc[p].op = "handle"
         /\ proc[p].at = "project" => sent[proc[p].d].kind = "deployment"
         /\ proc[p].op \in {"handle", "retry"} => proc[p].d # 0
         /\ proc[p].op = "idle" => proc[p] = Idle /\ proc[p].d = 0
         /\ proc[p].at = "delete" => proc[p].d = 0
  <1>1. Placed(p) /\ (proc[p].d = 0 \/ (proc[p].d # 0 /\ proc[p].d \in DOMAIN sent /\ proc[p].d \in Deliveries))
    BY PlacedFacts
  <1>2. OfDelivery(proc[p]) => proc[p].d # 0
    BY SentTyped DEF OfDelivery, TypeInv
  <1>3. QED
    BY <1>1, <1>2, IdleTyped DEF Placed, OfRequest, OfDelivery, Refreshing

\* p lets its delivery go, and no row changes.
LEMMA LetsGo ==
  ASSUME TypeInv, AppliedInv, NEW p \in Goroutines, Turn(p), Released(p), UNCHANGED <<sent, delivery>>,
         lost \subseteq lost',
         \/ proc[p].at = "store" \/ proc[p].d = 0 \/ proc[p].d \in lost'
         \/ ~IsInstallationEvent(sent[proc[p].d].kind)
         \/ p = Worker
  PROVE  AppliedInv'
  <1>1. 0 \notin Deliveries
    BY SentTyped DEF TypeInv
  <1>2. \A d \in Deliveries : ~Has(p, d)'
    BY <1>1, IdleTyped DEF Has, Released
  <1>3. \A q \in Goroutines, d \in Deliveries : Has(q, d)' => q # p /\ Has(q, d) /\ proc'[q] = proc[q]
    BY <1>2 DEF Has, Turn, Others
  <1>4. \A q \in Goroutines, d \in Deliveries : q # p /\ Has(q, d) => Has(q, d)'
    BY DEF Has, Turn, Others
  <1>5. Longer
    BY DEF Longer
  <1>6. \A q \in Goroutines, d \in Deliveries \ lost' : Has(q, d)' => delivery[d] # None
    BY <1>3, InHandFacts DEF AppliedInv
  <1>7. DeliveryInv'
    BY <1>3, <1>5, <1>6, HandsKept DEF AppliedInv
  <1>8. ASSUME NEW d \in Deliveries, Has(p, d), delivery[d] # None
        PROVE  \/ d \in lost' \/ delivery[d].status \in {"failed", "dead_letter"}
               \/ ~IsInstallationEvent(sent[d].kind)
    <2>1. proc[p].d = d /\ proc[p].at # "store"
      BY <1>8 DEF Has
    <2>2. CASE p = Worker /\ d \notin lost
      BY <1>8, <2>2, InHandFacts DEF AppliedInv
    <2>3. QED
      BY <1>1, <2>1, <2>2
  <1>9. EventAppliedOrRetried'
    BY <1>4, <1>5, <1>8, EventsKept DEF AppliedInv
  <1>10. QED
    BY <1>7, <1>9 DEF AppliedInv

\* p goes on with its delivery; to marking it only when it is no event of the installation.
LEMMA GoesOnWith ==
  ASSUME TypeInv, AppliedInv, NEW p \in Goroutines, Turn(p), NEW at, Went(p, at), UNCHANGED <<sent, delivery, lost>>,
         proc[p].at # "store", at # "store", proc[p].d # 0,
         at = "mark" => ~IsInstallationEvent(sent[proc[p].d].kind)
  PROVE  AppliedInv'
  <1>1. \A q \in Goroutines : proc'[q] = proc[q] \/ q = p
    BY DEF Turn, Others
  <1>2. \A q \in Goroutines, d \in Deliveries : Has(q, d)' <=> Has(q, d)
    BY <1>1 DEF Has, Went
  <1>3. \A q \in Goroutines, d \in Deliveries :
          Has(q, d)' /\ proc'[q].at = "mark" /\ IsInstallationEvent(sent[d].kind) => proc[q].at = "mark"
    BY <1>1 DEF Has, Went
  <1>4. Longer
    BY DEF Longer
  <1>5. \A q \in Goroutines, d \in Deliveries \ lost : Has(q, d) => delivery[d] # None
    BY InHandFacts DEF AppliedInv
  <1>6. DeliveryInv'
    BY <1>2, <1>3, <1>4, <1>5, HandsKept DEF AppliedInv
  <1>7. EventAppliedOrRetried'
    BY <1>2, <1>4, EventsKept DEF AppliedInv
  <1>8. QED
    BY <1>6, <1>7 DEF AppliedInv

\* p writes the row of the delivery it has, and lets it go.
LEMMA Settles ==
  ASSUME TypeInv, AppliedInv, NEW p \in Goroutines, Turn(p), Released(p), UNCHANGED <<sent, lost>>,
         proc[p].d # 0, proc[p].at # "store", OtherRows(proc[p].d),
         delivery[proc[p].d] = None => delivery'[proc[p].d] = None,
         delivery[proc[p].d] # None =>
           /\ delivery'[proc[p].d] # None /\ delivery'[proc[p].d].known = delivery[proc[p].d].known
           /\ \/ delivery'[proc[p].d].status \in {"failed", "dead_letter"}
              \/ proc[p].at = "mark" \/ delivery'[proc[p].d].applied
  PROVE  AppliedInv'
  <1>1. PICK e \in Deliveries : e = proc[p].d
    BY WorkerRetries
  <1>2. 0 \notin Deliveries /\ Has(p, e)
    BY SentTyped, <1>1 DEF TypeInv, Has
  <1>3. \A d \in Deliveries : ~Has(p, d)'
    BY <1>2, IdleTyped DEF Has, Released
  <1>4. \A q \in Goroutines, d \in Deliveries : Has(q, d)' => q # p /\ Has(q, d) /\ proc'[q] = proc[q]
    BY <1>3 DEF Has, Turn, Others
  <1>5. \A q \in Goroutines, d \in Deliveries : q # p /\ Has(q, d) => Has(q, d)'
    BY DEF Has, Turn, Others
  <1>6. Longer
    BY DEF Longer
  <1>7. ASSUME NEW q \in Goroutines, NEW d \in Deliveries \ lost', Has(q, d)'
        PROVE  delivery'[d] = delivery[d] /\ delivery[d] # None
    <2>1. q # p /\ Has(q, d) /\ d \notin lost
      BY <1>4, <1>7
    <2>2. d # e /\ delivery[d] # None
      BY <1>2, <2>1, InHandFacts DEF AppliedInv
    <2>3. QED
      BY <1>1, <2>2 DEF OtherRows
  <1>8. DeliveryInv'
    BY <1>4, <1>6, <1>7, HandsKept DEF AppliedInv
  <1>9. ASSUME NEW d \in Deliveries, delivery'[d] # None, delivery'[d].known, IsInstallationEvent(sent[d].kind)
        PROVE  \/ delivery'[d].applied \/ InHand(d)' \/ d \in lost
               \/ delivery'[d].status \in {"failed", "dead_letter"}
    <2>1. CASE d # e
      <3>1. delivery'[d] = delivery[d]
        BY <1>1, <2>1 DEF OtherRows
      <3>2. \/ delivery[d].applied \/ InHand(d) \/ d \in lost
            \/ delivery[d].status \in {"failed", "dead_letter"}
        BY <1>9, <3>1 DEF AppliedInv, EventAppliedOrRetried
      <3>3. InHand(d) => InHand(d)'
        <4>1. ASSUME NEW q \in Goroutines, Has(q, d)
              PROVE  Has(q, d)'
          BY <1>1, <1>5, <2>1, <4>1 DEF Has
        <4>2. QED
          BY <4>1 DEF InHand, Has
      <3>4. QED
        BY <3>1, <3>2, <3>3
    <2>2. CASE d = e /\ d \notin lost
      <3>1. proc[p].at = "mark" => ~delivery[e].known
        BY <1>2, <1>9, <2>2, InHandFacts DEF AppliedInv
      <3>2. QED
        BY <1>1, <1>9, <2>2, <3>1
    <2>3. QED
      BY <2>1, <2>2
  <1>10. EventAppliedOrRetried'
    BY <1>9 DEF EventAppliedOrRetried
  <1>11. QED
    BY <1>8, <1>10 DEF AppliedInv

\* A delivery that nobody has comes into the hands of p: a new one, or one that failed.
LEMMA TakesUp ==
  ASSUME TypeInv, AppliedInv, NEW p \in Goroutines, Turn(p), UNCHANGED <<sent, lost>>, NEW e \in Deliveries,
         proc'[p].d = e, proc'[p].at # "store", proc[p].d = 0 \/ (proc[p].d = e /\ proc[p].at = "store"),
         OtherRows(e), delivery'[e] # None,
         delivery[e] = None \/ (delivery[e] = delivery'[e] /\ delivery[e].status = "failed" /\ p = Worker),
         delivery'[e].status \in (IF p = Worker THEN {"failed"} ELSE {"enqueued", "ignored"}),
         proc'[p].at = "mark" /\ IsInstallationEvent(sent[e].kind) => ~delivery'[e].known,
         proc[Worker].op = "idle" \/ p # Worker
  PROVE  AppliedInv'
  <1>1. 0 \notin Deliveries
    BY SentTyped DEF TypeInv
  <1>2. \A d \in Deliveries : ~Has(p, d)
    BY <1>1 DEF Has
  <1>3. \A q \in Goroutines, d \in Deliveries : q # p => (Has(q, d)' <=> Has(q, d)) /\ proc'[q] = proc[q]
    BY DEF Has, Turn, Others
  <1>4. \A d \in Deliveries : Has(p, d)' <=> d = e
    BY DEF Has
  <1>5. \A q \in Goroutines : e \notin lost => ~Has(q, e)
    <2>1. ASSUME NEW q \in Goroutines, e \notin lost, Has(q, e)
          PROVE  FALSE
      <3>1. q # p
        BY <1>2, <2>1
      <3>2. delivery[e] # None /\ delivery[e].status \in (IF q = Worker THEN {"failed"} ELSE {"enqueued", "ignored"})
        BY <2>1, InHandFacts DEF AppliedInv
      <3>3. QED
        BY <3>1, <3>2
    <2>2. QED
      BY <2>1
  <1>6. DeliveryInv'
    <2>1. SUFFICES ASSUME NEW d \in Deliveries \ lost
                   PROVE  /\ \A o, q \in Goroutines : Has(o, d)' /\ Has(q, d)' => o = q
                          /\ \A q \in Goroutines : Has(q, d)' =>
                               /\ delivery'[d] # None
                               /\ delivery'[d].status \in (IF q = Worker THEN {"failed"} ELSE {"enqueued", "ignored"})
                               /\ proc'[q].at = "mark" /\ IsInstallationEvent(sent[d].kind) => ~delivery'[d].known
      BY DEF DeliveryInv
    <2>2. CASE d = e
      BY <1>3, <1>4, <1>5, <2>1, <2>2
    <2>3. CASE d # e
      <3>1. delivery'[d] = delivery[d]
        BY <2>3 DEF OtherRows
      <3>2. /\ \A o, q \in Goroutines : Has(o, d) /\ Has(q, d) => o = q
            /\ \A q \in Goroutines : Has(q, d) =>
                 /\ delivery[d] # None
                 /\ delivery[d].status \in (IF q = Worker THEN {"failed"} ELSE {"enqueued", "ignored"})
                 /\ proc[q].at = "mark" /\ IsInstallationEvent(sent[d].kind) => ~delivery[d].known
        BY InHandFacts DEF AppliedInv
      <3>3. \A q \in Goroutines : Has(q, d)' => q # p
        BY <1>4, <2>3
      <3>4. QED
        BY <1>3, <3>1, <3>2, <3>3
    <2>4. QED
      BY <2>2, <2>3
  <1>7. ASSUME NEW d \in Deliveries, delivery'[d] # None, delivery'[d].known, IsInstallationEvent(sent[d].kind)
        PROVE  \/ delivery'[d].applied \/ InHand(d)' \/ d \in lost
               \/ delivery'[d].status \in {"failed", "dead_letter"}
    <2>1. CASE d = e
      <3>1. Has(p, d)'
        BY <1>4, <2>1
      <3>2. QED
        BY <3>1 DEF InHand, Has
    <2>2. CASE d # e
      <3>1. delivery'[d] = delivery[d]
        BY <2>2 DEF OtherRows
      <3>2. \/ delivery[d].applied \/ InHand(d) \/ d \in lost
            \/ delivery[d].status \in {"failed", "dead_letter"}
        BY <1>7, <3>1 DEF AppliedInv, EventAppliedOrRetried
      <3>3. InHand(d) => InHand(d)'
        <4>1. ASSUME NEW q \in Goroutines, Has(q, d)
              PROVE  Has(q, d)'
          BY <1>2, <1>3, <4>1
        <4>2. QED
          BY <4>1 DEF InHand, Has
      <3>4. QED
        BY <3>1, <3>2, <3>3
    <2>3. QED
      BY <2>1, <2>2
  <1>8. EventAppliedOrRetried'
    BY <1>7 DEF EventAppliedOrRetried
  <1>9. QED
    BY <1>6, <1>8 DEF AppliedInv

LEMMA AppliedRest ==
  ASSUME TypeInv, AppliedInv, NEW p \in Goroutines,
         \/ EnqueueWebhookSync(p) \/ ProjectRepositoryEvent(p) \/ ProcessPersistedDelivery(p)
         \/ MarkDeliveryStatus(p) \/ ScheduleRetryFailure(p) \/ DeleteInstallation(p)
         \/ CallFails(p) /\ UNCHANGED webhookVars
         \/ DeliveryFails(p) \/ StatementFails(p) \/ GoroutineEnds(p)
  PROVE  AppliedInv'
  <1>1. Procing /\ Rowing /\ Placed(p)
    BY TypeParts, PlacedFacts DEF TypeInv
  <1>2. /\ proc[p].at \in {"store", "project", "apply", "mark", "done", "failed"} => HandledBy(p) /\ proc[p].d # 0
        /\ p = Worker => proc[p].op # "handle"
    BY <1>1, HandlerTyped, WorkerRetries, IdleTyped DEF Placed, OfRequest, Refreshing
  <1>3. Longer \/ sent' # sent
    BY DEF Longer
  <1>4. CASE EnqueueWebhookSync(p)
    <2>1. proc[p].at = "store"
      BY <1>4, Zenon DEF EnqueueWebhookSync, At
    <2>2. PICK e \in Deliveries : e = proc[p].d
      BY <1>2, <2>1, WorkerRetries
    <2>3. Turn(p) /\ UNCHANGED <<sent, lost>> /\ OtherRows(e)
      BY <1>1, <1>2, <1>4, <2>1, <2>2, EnqueueTurn
    <2>4. CASE Released(p) /\ UNCHANGED delivery
      BY <2>1, <2>3, <2>4, LetsGo
    <2>5. CASE /\ delivery[e] = None /\ delivery'[e] \in Row
               /\ delivery'[e].status \in {"enqueued", "ignored"}
               /\ Went(p, "project") \/ Went(p, "apply")
      <3>1. p # Worker
        BY <1>2, <2>1, WorkerRetries
      <3>2. delivery'[e] # None
        BY <2>5, NoDeliveryRow
      <3>3. proc'[p].d = e /\ proc'[p].at \in {"project", "apply"}
        BY <2>2, <2>5 DEF Went
      <3>4. QED
        BY <2>1, <2>2, <2>3, <2>5, <3>1, <3>2, <3>3, TakesUp
    <2>6. QED
      BY <1>1, <1>2, <1>4, <2>1, <2>2, <2>4, <2>5, EnqueueTurn
  <1>5. CASE ProjectRepositoryEvent(p)
    <2>1. /\ Turn(p) /\ proc[p].at = "project"
          /\ UNCHANGED <<sent, delivery, lost>>
          /\ WentBack(p, "failed") \/ Went(p, "mark") \/ Released(p)
      BY <1>1, <1>5, ProjectTurn
    <2>2. ~IsInstallationEvent(sent[proc[p].d].kind) /\ proc[p].d # 0
      BY <2>1, WorkerRetries DEF IsInstallationEvent, InstallationKinds
    <2>3. QED
      BY <2>1, <2>2, LetsGo, GoesOnWith DEF WentBack
  <1>6. CASE ProcessPersistedDelivery(p)
    <2>1. proc[p].at = "apply" /\ Turn(p) /\ UNCHANGED <<sent, delivery, lost>>
      BY <1>1, <1>6, ProcessTurn DEF webhookVars
    <2>2. \/ KindOf(p) = "deployment" /\ Released(p)
          \/ \E at \in {"find to drop", "suspend", "find to refresh"} : Went(p, at)
          \/ KindOf(p) \notin InstallationKinds /\ Went(p, "mark")
      BY <1>1, <1>6, ProcessTurn
    <2>3. CASE KindOf(p) = "deployment" /\ Released(p)
      BY <2>1, <2>3, LetsGo DEF KindOf, IsInstallationEvent, InstallationKinds
    <2>4. CASE \E at \in {"find to drop", "suspend", "find to refresh"} : Went(p, at)
      BY <1>2, <2>1, <2>4, GoesOnWith
    <2>5. CASE KindOf(p) \notin InstallationKinds /\ Went(p, "mark")
      BY <1>2, <2>1, <2>5, GoesOnWith DEF KindOf, IsInstallationEvent
    <2>6. QED
      BY <2>2, <2>3, <2>4, <2>5
  <1>7. CASE MarkDeliveryStatus(p)
    <2>1. proc[p].at \in {"mark", "done"}
      BY <1>7 DEF MarkDeliveryStatus, At
    <2>2. /\ Turn(p) /\ Released(p) /\ UNCHANGED <<sent, lost>> /\ OtherRows(proc[p].d)
          /\ \/ delivery[proc[p].d] = None /\ UNCHANGED delivery
             \/ /\ delivery[proc[p].d] # None /\ delivery'[proc[p].d] # None
                /\ Kept(delivery[proc[p].d], delivery'[proc[p].d])
                /\ delivery'[proc[p].d].applied = (proc[p].at = "done")
      BY <1>1, <1>2, <1>7, <2>1, MarkTurn
    <2>3. QED
      BY <1>2, <2>1, <2>2, Settles DEF Kept
  <1>8. CASE ScheduleRetryFailure(p)
    <2>1. proc[p].at = "failed"
      BY <1>8 DEF ScheduleRetryFailure, At
    <2>2. /\ Turn(p) /\ Released(p) /\ UNCHANGED <<sent, lost>> /\ OtherRows(proc[p].d)
          /\ \/ delivery[proc[p].d] = None /\ UNCHANGED delivery
             \/ /\ delivery[proc[p].d] # None /\ delivery'[proc[p].d] # None
                /\ Kept(delivery[proc[p].d], delivery'[proc[p].d])
                /\ delivery'[proc[p].d].status \in {"failed", "dead_letter"}
      BY <1>1, <1>2, <1>8, <2>1, ScheduleTurn
    <2>3. QED
      BY <1>2, <2>1, <2>2, Settles DEF Kept
  <1>9. CASE DeleteInstallation(p)
    <2>1. /\ Turn(p) /\ WentBack(p, "done") /\ proc[p].at = "delete"
          /\ lost' = lost \cup {d \in Deliveries : delivery[d] # None} /\ UNCHANGED sent
          /\ \A d \in Deliveries : delivery'[d] # None => delivery[d] # None
      BY <1>1, <1>9, DeleteTurn
    <2>2. proc[p].d = 0 /\ Released(p)
      BY <2>1, WorkerRetries DEF WentBack
    <2>3. 0 \notin Deliveries /\ Longer
      BY <2>1, SentTyped DEF TypeInv, Longer
    <2>4. \A q \in Goroutines, d \in Deliveries : Has(q, d)' => Has(q, d)
      BY <2>1, <2>2, <2>3, IdleTyped DEF Has, Turn, Others, Released
    <2>5. \A q \in Goroutines, d \in Deliveries \ lost' : ~Has(q, d)
      BY <2>1, InHandFacts DEF AppliedInv
    <2>6. DeliveryInv'
      BY <2>1, <2>3, <2>4, <2>5, HandsKept DEF AppliedInv
    <2>7. EventAppliedOrRetried'
      BY <2>1 DEF EventAppliedOrRetried
    <2>8. QED
      BY <2>6, <2>7 DEF AppliedInv
  <1>10. CASE CallFails(p) /\ UNCHANGED webhookVars
    BY <1>3, <1>10, ConnHand, KeepsApplied DEF webhookVars
  <1>11. CASE DeliveryFails(p)
    <2>1. /\ Turn(p) /\ Released(p) /\ UNCHANGED <<sent, delivery>> /\ lost \subseteq lost'
          /\ \/ proc[p].at = "store" \/ proc[p].op = "retry"
             \/ proc[p].at = "failed" /\ proc[p].op = "handle" /\ lost' = lost \cup {proc[p].d}
             \/ proc[p].at = "failed" /\ proc[p].op # "handle"
      BY <1>1, <1>11, DeliveryFailsTurn
    <2>2. proc[p].at = "store" \/ p = Worker \/ proc[p].d \in lost'
      BY <1>2, <2>1, WorkerRetries, HandlerTyped DEF Placed
    <2>3. QED
      BY <2>1, <2>2, LetsGo
  <1>12. CASE StatementFails(p)
    BY <1>1, <1>2, <1>12, StatementFailsTurn, GoesOnWith DEF webhookVars
  <1>13. CASE GoroutineEnds(p)
    <2>1. /\ Turn(p) /\ Released(p) /\ UNCHANGED <<sent, delivery>> /\ lost \subseteq lost'
          /\ proc[p].op = "handle" => proc[p].d \in lost'
      BY <1>1, <1>13, EndsTurn
    <2>2. proc[p].d = 0 \/ p = Worker \/ proc[p].d \in lost'
      BY <2>1, WorkerRetries
    <2>3. QED
      BY <2>1, <2>2, LetsGo
  <1>14. QED
    BY <1>4, <1>5, <1>6, <1>7, <1>8, <1>9, <1>10, <1>11, <1>12, <1>13, Zenon

LEMMA AppliedStep ==
  ASSUME TypeInv, AppliedInv, [Next]_vars
  PROVE  AppliedInv'
  <1>1. Procing /\ Rowing /\ BudgetOK /\ TypeOK
    BY TypeParts DEF TypeInv
  <1>2. sent' = sent => Longer
    BY DEF Longer
  <1>3. CASE UNCHANGED vars
    BY <1>2, <1>3, KeepsApplied DEF vars
  <1>4. ASSUME NEW kind, NEW r, OneMore(kind, r)
        PROVE  Longer
    BY <1>4 DEF OneMore, Longer
  <1>5. CASE GithubChange
    BY <1>1, <1>4, <1>5, ChangeTurn, KeepsApplied
  <1>6. CASE \E r \in Repos : RepositoryEvent(r)
    BY <1>1, <1>4, <1>6, EventTurn, KeepsApplied
  <1>7. CASE \E r \in Repos : JobEnds(r) /\ UNCHANGED webhookVars
    BY <1>2, <1>7, KeepsApplied DEF JobEnds, webhookVars
  <1>8. CASE \E p \in Procs : ConnRequest(p) /\ UNCHANGED webhookVars
    <2>1. PICK p \in Procs : ConnRequest(p) /\ UNCHANGED webhookVars
      BY <1>8
    <2>2. Turn(p) /\ proc[p].op = "idle" /\ proc'[p].d = 0 /\ p \in Goroutines
      BY <1>1, <2>1, RequestTurn DEF BudgetOK, Goroutines
    <2>3. KeepsHand(p)
      BY <2>2, WorkerRetries DEF KeepsHand
    <2>4. QED
      BY <1>2, <2>1, <2>2, <2>3, KeepsApplied DEF webhookVars
  <1>9. CASE \E p \in Procs : \E d \in Deliveries : Handle(p, d)
    <2>1. PICK p \in Procs, d \in Deliveries : Handle(p, d)
      BY <1>9
    <2>2. /\ p \in Goroutines /\ Turn(p) /\ proc[p].op = "idle" /\ proc'[p].at = "store"
          /\ UNCHANGED <<sent, delivery, lost>>
      BY <2>1, HandleTurn DEF webhookVars
    <2>3. proc[p].d = 0 /\ 0 \notin Deliveries
      BY <2>2, WorkerRetries, SentTyped DEF TypeInv
    <2>4. \A q \in Goroutines, e \in Deliveries : Has(q, e)' <=> Has(q, e)
      BY <2>2, <2>3 DEF Has, Turn, Others
    <2>5. \A q \in Goroutines, e \in Deliveries : Has(q, e)' => proc'[q] = proc[q]
      BY <2>2 DEF Has, Turn, Others
    <2>6. \A q \in Goroutines, e \in Deliveries \ lost : Has(q, e) => delivery[e] # None
      BY InHandFacts DEF AppliedInv
    <2>7. DeliveryInv'
      BY <1>2, <2>2, <2>4, <2>5, <2>6, HandsKept DEF AppliedInv
    <2>8. EventAppliedOrRetried'
      BY <1>2, <2>2, <2>4, EventsKept DEF AppliedInv
    <2>9. QED
      BY <2>7, <2>8 DEF AppliedInv
  <1>10. CASE \E d \in Deliveries : Retry(d)
    <2>1. PICK d \in Deliveries : Retry(d)
      BY <1>10
    <2>2. /\ Turn(Worker) /\ Worker \in Goroutines /\ proc[Worker].op = "idle"
          /\ UNCHANGED <<sent, delivery, lost>>
          /\ delivery[d] # None /\ delivery[d].status = "failed" /\ proc'[Worker].d = d
          /\ proc'[Worker].at \in {"project", "apply", "mark"}
          /\ proc'[Worker].at = "mark" => (IsInstallationEvent(sent[d].kind) => ~delivery[d].known)
      BY <1>1, <2>1, RetryTurn DEF webhookVars
    <2>3. proc[Worker].d = 0 /\ OtherRows(d)
      BY <2>2, WorkerRetries DEF OtherRows
    <2>4. QED
      BY <2>2, <2>3, TakesUp
  <1>11. CASE \E d \in Deliveries : CleanupExpiredWebhookPayload(d)
    <2>1. PICK d \in Deliveries : CleanupExpiredWebhookPayload(d)
      BY <1>11
    <2>2. /\ OtherRows(d) /\ UNCHANGED <<proc, sent, lost>>
          /\ delivery[d] # None /\ delivery'[d] # None /\ delivery'[d].known = delivery[d].known
          /\ delivery'[d].status = delivery[d].status /\ delivery'[d].applied = delivery[d].applied
      BY <1>1, <2>1, CleanupTurn DEF Kept
    <2>3. \A e \in Deliveries :
            /\ delivery'[e] = None <=> delivery[e] = None
            /\ delivery[e] # None => /\ delivery'[e].known = delivery[e].known
                                     /\ delivery'[e].status = delivery[e].status
                                     /\ delivery'[e].applied = delivery[e].applied
      BY <2>2 DEF OtherRows
    <2>4. \A q \in Goroutines, e \in Deliveries : Has(q, e)' <=> Has(q, e)
      BY <2>2 DEF Has
    <2>5. \A q \in Goroutines, e \in Deliveries \ lost : Has(q, e) => delivery[e] # None
      BY InHandFacts DEF AppliedInv
    <2>6. DeliveryInv'
      BY <1>2, <2>2, <2>3, <2>4, <2>5, HandsKept DEF AppliedInv
    <2>7. \A e \in Deliveries : InHand(e)' <=> InHand(e)
      BY <2>2 DEF InHand
    <2>8. EventAppliedOrRetried'
      BY <2>2, <2>3, <2>7 DEF AppliedInv, EventAppliedOrRetried
    <2>9. QED
      BY <2>6, <2>8 DEF AppliedInv
  <1>12. CASE \E p \in Goroutines : ConnStep(p) /\ UNCHANGED webhookVars
    BY <1>2, <1>12, ConnHand, KeepsApplied DEF webhookVars
  <1>13. ASSUME NEW p \in Goroutines,
              \/ EnqueueWebhookSync(p) \/ ProjectRepositoryEvent(p) \/ ProcessPersistedDelivery(p)
              \/ MarkDeliveryStatus(p) \/ ScheduleRetryFailure(p) \/ DeleteInstallation(p)
              \/ CallFails(p) /\ UNCHANGED webhookVars
              \/ DeliveryFails(p) \/ StatementFails(p) \/ GoroutineEnds(p)
         PROVE  AppliedInv'
    BY <1>13, AppliedRest, Zenon
  <1>14. QED
    BY <1>3, <1>5, <1>6, <1>7, <1>8, <1>9, <1>10, <1>11, <1>12, <1>13, Steps, Zenon

-----------------------------------------------------------------------------
(* Rows of deliveries and deployments.                                          *)

\* How any step treats the row of a delivery.
RowMoves(d) ==
  \/ delivery'[d] = delivery[d] \/ delivery'[d] = None
  \/ delivery[d] = None /\ delivery'[d].jobs \in {0, 1}
  \/ /\ delivery[d] # None /\ delivery'[d] # None /\ delivery'[d].jobs = delivery[d].jobs
     /\ \/ delivery'[d].status = delivery[d].status
        \/ \E p \in Goroutines : Has(p, d)

LEMMA RowMovesRest ==
  ASSUME TypeInv, NEW p \in Goroutines,
         \/ EnqueueWebhookSync(p) \/ ProjectRepositoryEvent(p) \/ ProcessPersistedDelivery(p)
         \/ MarkDeliveryStatus(p) \/ ScheduleRetryFailure(p) \/ DeleteInstallation(p)
         \/ CallFails(p) /\ UNCHANGED webhookVars
         \/ DeliveryFails(p) \/ StatementFails(p) \/ GoroutineEnds(p)
  PROVE  \A d \in Deliveries : RowMoves(d)
  <1>1. Procing /\ Rowing /\ Placed(p)
    BY TypeParts, PlacedFacts DEF TypeInv
  <1>2. /\ proc[p].at \in {"store", "project", "apply", "mark", "done", "failed"} => HandledBy(p) /\ proc[p].d # 0
    BY <1>1, HandlerTyped, WorkerRetries, IdleTyped DEF Placed, OfRequest, Refreshing
  <1>3. CASE EnqueueWebhookSync(p)
    <2>1. proc[p].at = "store"
      BY <1>3, Zenon DEF EnqueueWebhookSync, At
    <2>2. /\ OtherRows(proc[p].d)
          /\ \/ UNCHANGED delivery
             \/ delivery[proc[p].d] = None /\ delivery'[proc[p].d].jobs \in {0, 1}
      BY <1>1, <1>2, <1>3, <2>1, EnqueueTurn
    <2>3. QED
      BY <2>2 DEF OtherRows, RowMoves
  <1>4. CASE MarkDeliveryStatus(p)
    <2>1. proc[p].at \in {"mark", "done"}
      BY <1>4 DEF MarkDeliveryStatus, At
    <2>2. /\ OtherRows(proc[p].d)
          /\ \/ UNCHANGED delivery
             \/ /\ delivery[proc[p].d] # None /\ delivery'[proc[p].d] # None
                /\ Kept(delivery[proc[p].d], delivery'[proc[p].d])
      BY <1>1, <1>2, <1>4, <2>1, MarkTurn
    <2>3. Has(p, proc[p].d)
      BY <2>1 DEF Has
    <2>4. QED
      BY <2>2, <2>3 DEF OtherRows, RowMoves, Kept
  <1>5. CASE ScheduleRetryFailure(p)
    <2>1. proc[p].at = "failed"
      BY <1>5 DEF ScheduleRetryFailure, At
    <2>2. /\ OtherRows(proc[p].d)
          /\ \/ UNCHANGED delivery
             \/ /\ delivery[proc[p].d] # None /\ delivery'[proc[p].d] # None
                /\ Kept(delivery[proc[p].d], delivery'[proc[p].d])
      BY <1>1, <1>2, <1>5, <2>1, ScheduleTurn
    <2>3. Has(p, proc[p].d)
      BY <2>1 DEF Has
    <2>4. QED
      BY <2>2, <2>3 DEF OtherRows, RowMoves, Kept
  <1>6. CASE DeleteInstallation(p)
    <2>1. \A d \in Deliveries : delivery'[d] # None =>
            /\ delivery[d] # None /\ Kept(delivery[d], delivery'[d])
            /\ delivery'[d].status = delivery[d].status
      BY <1>1, <1>6, DeleteTurn
    <2>2. QED
      BY <2>1 DEF RowMoves, Kept
  <1>7. ASSUME UNCHANGED delivery
        PROVE  \A d \in Deliveries : RowMoves(d)
    BY <1>7 DEF RowMoves
  <1>8. CASE ProjectRepositoryEvent(p)
    BY <1>7, <1>8 DEF ProjectRepositoryEvent
  <1>9. CASE ProcessPersistedDelivery(p)
    BY <1>7, <1>9 DEF ProcessPersistedDelivery, webhookVars
  <1>10. CASE CallFails(p) /\ UNCHANGED webhookVars
    BY <1>7, <1>10 DEF webhookVars
  <1>11. CASE DeliveryFails(p)
    BY <1>7, <1>11 DEF DeliveryFails
  <1>12. CASE StatementFails(p)
    BY <1>7, <1>12 DEF StatementFails, webhookVars
  <1>13. CASE GoroutineEnds(p)
    BY <1>7, <1>13 DEF GoroutineEnds
  <1>14. QED
    BY <1>3, <1>4, <1>5, <1>6, <1>8, <1>9, <1>10, <1>11, <1>12, <1>13, Zenon

LEMMA RowsMove ==
  ASSUME TypeInv, [Next]_vars
  PROVE  \A d \in Deliveries : RowMoves(d)
  <1>1. Rowing /\ TypeOK
    BY TypeParts DEF TypeInv
  <1>2. ASSUME UNCHANGED delivery
        PROVE  \A d \in Deliveries : RowMoves(d)
    BY <1>2 DEF RowMoves
  <1>3. CASE UNCHANGED vars
    BY <1>2, <1>3 DEF vars
  <1>4. CASE GithubChange
    BY <1>2, <1>4 DEF GithubChange
  <1>5. CASE \E r \in Repos : RepositoryEvent(r)
    BY <1>2, <1>5 DEF RepositoryEvent
  <1>6. CASE \/ \E r \in Repos : JobEnds(r) /\ UNCHANGED webhookVars
             \/ \E p \in Procs : ConnRequest(p) /\ UNCHANGED webhookVars
             \/ \E p \in Goroutines : ConnStep(p) /\ UNCHANGED webhookVars
    BY <1>2, <1>6 DEF webhookVars
  <1>7. CASE \E p \in Procs : \E d \in Deliveries : Handle(p, d)
    BY <1>2, <1>7, HandleTurn DEF webhookVars
  <1>8. CASE \E d \in Deliveries : Retry(d)
    BY <1>2, <1>8 DEF Retry, webhookVars
  <1>9. CASE \E d \in Deliveries : CleanupExpiredWebhookPayload(d)
    <2>1. PICK d \in Deliveries : CleanupExpiredWebhookPayload(d)
      BY <1>9
    <2>2. QED
      BY <1>1, <2>1, CleanupTurn DEF OtherRows, RowMoves, Kept
  <1>10. ASSUME NEW p \in Goroutines,
              \/ EnqueueWebhookSync(p) \/ ProjectRepositoryEvent(p) \/ ProcessPersistedDelivery(p)
              \/ MarkDeliveryStatus(p) \/ ScheduleRetryFailure(p) \/ DeleteInstallation(p)
              \/ CallFails(p) /\ UNCHANGED webhookVars
              \/ DeliveryFails(p) \/ StatementFails(p) \/ GoroutineEnds(p)
         PROVE  \A d \in Deliveries : RowMoves(d)
    BY <1>10, RowMovesRest, Zenon
  <1>11. QED
    BY <1>3, <1>4, <1>5, <1>6, <1>7, <1>8, <1>9, <1>10, Steps, Zenon

LEMMA JobsStep ==
  ASSUME TypeInv, JobOncePerDelivery, [Next]_vars
  PROVE  JobOncePerDelivery'
  BY RowsMove DEF RowMoves, JobOncePerDelivery

\* The deployments are written by the projection and by the purge only.
DeploymentMoves ==
  \/ UNCHANGED deployed
  \/ deployed' = [r \in Repos |-> IF gir[r] = None THEN deployed[r] ELSE [status |-> 0, at |-> 0]]
  \/ \E r \in Repos, d \in Deliveries :
       deployed' = [deployed EXCEPT ![r] = NewerDeployment(deployed[r], d)]

LEMMA DeployedMoves ==
  ASSUME TypeInv, [Next]_vars
  PROVE  DeploymentMoves
  <1>1. Procing /\ Rowing
    BY TypeParts DEF TypeInv
  <1>2. ASSUME NEW p \in Goroutines, ProjectRepositoryEvent(p)
        PROVE  DeploymentMoves
    <2>1. /\ proc[p].at = "project"
          /\ \/ UNCHANGED deployed
             \/ deployed' = [deployed EXCEPT ![proc[p].r] = NewerDeployment(deployed[proc[p].r], proc[p].d)]
      BY <1>1, <1>2, ProjectTurn
    <2>2. proc[p].r \in Repos
      BY <2>1, PlacedFacts
    <2>3. proc[p].d \in Deliveries
      BY <2>1, WorkerRetries
    <2>4. QED
      BY <2>1, <2>2, <2>3 DEF DeploymentMoves
  <1>3. ASSUME NEW p \in Goroutines, DeleteInstallation(p)
        PROVE  DeploymentMoves
    BY <1>1, <1>3, DeleteTurn DEF DeploymentMoves
  <1>4. ASSUME NEW p \in Goroutines,
              \/ EnqueueWebhookSync(p) \/ ProcessPersistedDelivery(p) \/ MarkDeliveryStatus(p)
              \/ ScheduleRetryFailure(p) \/ (CallFails(p) /\ UNCHANGED webhookVars)
              \/ DeliveryFails(p) \/ StatementFails(p) \/ GoroutineEnds(p)
        PROVE  DeploymentMoves
    BY <1>4 DEF DeploymentMoves, EnqueueWebhookSync, ProcessPersistedDelivery, MarkDeliveryStatus, ScheduleRetryFailure,
               DeliveryFails, StatementFails, GoroutineEnds, webhookVars
  <1>5. CASE UNCHANGED vars
    BY <1>5 DEF DeploymentMoves, vars
  <1>6. CASE GithubChange \/ \E r \in Repos : RepositoryEvent(r)
    BY <1>6 DEF DeploymentMoves, GithubChange, RepositoryEvent
  <1>7. CASE \/ \E r \in Repos : JobEnds(r) /\ UNCHANGED webhookVars
             \/ \E p \in Procs : ConnRequest(p) /\ UNCHANGED webhookVars
             \/ \E p \in Goroutines : ConnStep(p) /\ UNCHANGED webhookVars
    BY <1>7 DEF DeploymentMoves, webhookVars
  <1>8. CASE \E p \in Procs : \E d \in Deliveries : Handle(p, d)
    BY <1>8, HandleTurn DEF DeploymentMoves, webhookVars
  <1>9. CASE \E d \in Deliveries : Retry(d)
    BY <1>9 DEF DeploymentMoves, Retry, webhookVars
  <1>10. CASE \E d \in Deliveries : CleanupExpiredWebhookPayload(d)
    BY <1>10 DEF DeploymentMoves, CleanupExpiredWebhookPayload
  <1>11. ASSUME NEW p \in Goroutines,
              \/ EnqueueWebhookSync(p) \/ ProjectRepositoryEvent(p) \/ ProcessPersistedDelivery(p)
              \/ MarkDeliveryStatus(p) \/ ScheduleRetryFailure(p) \/ DeleteInstallation(p)
              \/ CallFails(p) /\ UNCHANGED webhookVars
              \/ DeliveryFails(p) \/ StatementFails(p) \/ GoroutineEnds(p)
         PROVE  DeploymentMoves
    BY <1>2, <1>3, <1>4, <1>11, Zenon
  <1>12. QED
    BY <1>5, <1>6, <1>7, <1>8, <1>9, <1>10, <1>11, Steps, Zenon

LEMMA DeployedStep ==
  ASSUME TypeInv, LatestDeploymentWins, [Next]_vars
  PROVE  LatestDeploymentWins'
  <1>1. DeployedOK
    BY TypeParts DEF TypeInv
  <1>2. CASE UNCHANGED deployed
    BY <1>2 DEF LatestDeploymentWins
  <1>3. CASE deployed' = [r \in Repos |-> IF gir[r] = None THEN deployed[r] ELSE [status |-> 0, at |-> 0]]
    BY <1>3 DEF LatestDeploymentWins
  <1>4. CASE \E r \in Repos, d \in Deliveries :
               deployed' = [deployed EXCEPT ![r] = NewerDeployment(deployed[r], d)]
    <2>1. PICK r \in Repos, d \in Deliveries :
            deployed' = [deployed EXCEPT ![r] = NewerDeployment(deployed[r], d)]
      BY <1>4
    <2>2. PICK old \in [status : 0 .. MaxDeliveries, at : 0 .. MaxDeliveries] : old = deployed[r]
      BY <1>1 DEF DeployedOK
    <2>3. PICK new : new = NewerDeployment(old, d)
      OBVIOUS
    <2>4. old.status = old.at => new.status = new.at
      BY <2>3, NewerFields
    <2>5. deployed' = [deployed EXCEPT ![r] = new]
      BY <2>1, <2>2, <2>3
    <2>6. QED
      BY <1>1, <2>2, <2>4, <2>5 DEF LatestDeploymentWins, DeployedOK
  <1>5. QED
    BY <1>2, <1>3, <1>4, DeployedMoves DEF DeploymentMoves

LEMMA DeliveriesStart ==
  ASSUME Init
  PROVE  AppliedInv /\ JobOncePerDelivery /\ LatestDeploymentWins
  <1>1. /\ proc = [p \in Goroutines |-> Idle] /\ delivery = [d \in Deliveries |-> None]
        /\ deployed = [r \in Repos |-> [status |-> 0, at |-> 0]] /\ sent = <<>>
    BY Zenon DEF Init, ConnInit
  <1>2. 0 \notin Deliveries
    BY TypeInit, SentTyped DEF TypeInv
  <1>3. \A q \in Goroutines, d \in Deliveries : ~Has(q, d)
    BY <1>1, <1>2, IdleTyped DEF Has
  <1>4. DeliveryInv
    BY <1>3 DEF DeliveryInv
  <1>5. EventAppliedOrRetried /\ JobOncePerDelivery /\ LatestDeploymentWins
    BY <1>1 DEF EventAppliedOrRetried, JobOncePerDelivery, LatestDeploymentWins
  <1>6. QED
    BY <1>4, <1>5 DEF AppliedInv

LEMMA AppliedAlways == Spec => []AppliedInv
  <1>1. Init => AppliedInv
    BY DeliveriesStart
  <1>2. TypeInv /\ AppliedInv /\ [Next]_vars => AppliedInv'
    BY AppliedStep
  <1>3. QED
    BY <1>1, <1>2, Typed, PTL DEF Spec

\* Handle stores a delivery, applies it and marks it in steps of their own, and
\* RetryFailedPending takes up what failed: an event of a known installation is applied, in
\* hand, to be retried or given up, unless the goroutine that had it ended.
THEOREM EventsApplied == Spec => []EventAppliedOrRetried
  <1>1. AppliedInv => EventAppliedOrRetried
    BY DEF AppliedInv
  <1>2. QED
    BY <1>1, AppliedAlways, PTL

\* No repeated delivery and no retry changes the verdict of a delivery that is processed
\* or a dead letter: whoever writes a status has that delivery, and nobody has it then.
THEOREM VerdictsFinal == Spec => SettledDeliveryIsFinal
  <1> DEFINE Final == \A d \in Deliveries \ lost :
        delivery[d] # None /\ delivery'[d] # None /\ delivery[d].status \in {"processed", "dead_letter"}
          => delivery'[d].status = delivery[d].status
  <1>1. TypeInv /\ AppliedInv /\ [Next]_vars => Final
    <2>1. SUFFICES ASSUME TypeInv, AppliedInv, [Next]_vars, NEW d \in Deliveries \ lost,
                          delivery[d] # None, delivery'[d] # None,
                          delivery[d].status \in {"processed", "dead_letter"}
                   PROVE  delivery'[d].status = delivery[d].status
      OBVIOUS
    <2>2. RowMoves(d)
      BY <2>1, RowsMove
    <2>3. \A p \in Goroutines : ~Has(p, d)
      BY <2>1, InHandFacts DEF AppliedInv
    <2>4. QED
      BY <2>1, <2>2, <2>3 DEF RowMoves
  <1>2. [][Final]_vars <=> SettledDeliveryIsFinal
    BY DEF SettledDeliveryIsFinal
  <1>3. TypeInv /\ AppliedInv /\ [Next]_vars => [Final]_vars
    BY <1>1
  <1> HIDE DEF Final
  <1>4. Spec => [][Final]_vars
    BY <1>3, Typed, AppliedAlways, PTL DEF Spec
  <1>5. QED
    BY <1>2, <1>4, PTL

\* EnqueueWebhookSync inserts the job in the transaction of the delivery, ON CONFLICT DO
\* NOTHING: however often GitHub sends a delivery, one job is kept for it.
THEOREM OneJobEach == Spec => []JobOncePerDelivery
  <1>1. Init => JobOncePerDelivery
    BY DeliveriesStart
  <1>2. TypeInv /\ JobOncePerDelivery /\ [Next]_vars => JobOncePerDelivery'
    BY JobsStep
  <1>3. QED
    BY <1>1, <1>2, Typed, PTL DEF Spec

\* projectDeployment compares dates: statuses projected in any order, and again by
\* retries, leave the latest.
THEOREM DeploymentsLatest == Spec => []LatestDeploymentWins
  <1>1. Init => LatestDeploymentWins
    BY DeliveriesStart
  <1>2. TypeInv /\ LatestDeploymentWins /\ [Next]_vars => LatestDeploymentWins'
    BY DeployedStep
  <1>3. QED
    BY <1>1, <1>2, Typed, PTL DEF Spec

-----------------------------------------------------------------------------
(* What GitHub says: SettleInv.                                                 *)

\* What may go on with an event that is not applied: it comes to no row, except
\* that a goroutine which has listed goes on to replace.
PassesOn(p) ==
  proc'[p].d # 0 =>
    \/ proc'[p] = proc[p] \/ proc'[p].at \notin {"list", "replace", "done"}
    \/ proc'[p].at = "replace" /\ proc[p].at = "list" /\ proc'[p].d = proc[p].d

\* No event comes to be applied, but one whose goroutine is through.
AppliesDone(p) ==
  \A d \in Deliveries : Applied(d)' => Applied(d) \/ (proc[p].d = d /\ proc[p].at = "done")

LEMMA StillUnapplied ==
  ASSUME TypeInv, NEW p \in Goroutines, Others(p), Longer, AppliesDone(p), NEW d \in Deliveries,
         NEW W, Unapplied(d, W), "done" \in W,
         proc'[p].d = d /\ proc'[p].at \in W => proc[p].d = d /\ proc[p].at \in W
  PROVE  /\ Unapplied(d, W)' /\ sent'[d] = sent[d]
  <1>1. d \in DOMAIN sent' /\ sent'[d] = sent[d]
    BY DEF Unapplied, Longer
  <1>2. IsInstallationEvent(sent'[d].kind)
    BY <1>1 DEF Unapplied, IsInstallationEvent
  <1>3. \A q \in Goroutines : proc[q].d = d => proc[q].at \notin W
    BY DEF Unapplied
  <1>4. ~Applied(d)'
    BY <1>3 DEF AppliesDone, Unapplied
  <1>5. \A q \in Goroutines : proc'[q].d = d => proc'[q].at \notin W
    BY <1>3 DEF Others
  <1>6. QED
    BY <1>1, <1>2, <1>4, <1>5 DEF Unapplied

LEMMA EventsSent ==
  ASSUME TypeInv, NEW d, NEW W, Unapplied(d, W)
  PROVE  d \in Deliveries /\ d # 0
  BY SentTyped DEF TypeInv, Unapplied

\* The events that S2 and S3 of SettleInv wait for stay unapplied.
LEMMA StillWaiting ==
  ASSUME TypeInv, NEW p \in Goroutines, Others(p), Longer, AppliesDone(p), PassesOn(p)
  PROVE  /\ (\E d \in Deliveries : Unapplied(d, {"list", "replace", "done"})) =>
              \E d \in Deliveries : Unapplied(d, {"list", "replace", "done"})'
         /\ (\E d \in Deliveries : sent[d].kind = "refresh" /\ Unapplied(d, {"done"})) =>
              \E d \in Deliveries : sent'[d].kind = "refresh" /\ Unapplied(d, {"done"})'
  <1>1. ASSUME NEW d \in Deliveries, Unapplied(d, {"list", "replace", "done"})
        PROVE  Unapplied(d, {"list", "replace", "done"})'
    <2>1. d # 0
      BY <1>1, EventsSent
    <2>2. proc'[p].d = d /\ proc'[p].at \in {"list", "replace", "done"} =>
            proc[p].d = d /\ proc[p].at \in {"list", "replace", "done"}
      BY <2>1 DEF PassesOn
    <2>3. QED
      BY <1>1, <2>2, StillUnapplied
  <1>2. ASSUME NEW d \in Deliveries, sent[d].kind = "refresh", Unapplied(d, {"done"})
        PROVE  sent'[d].kind = "refresh" /\ Unapplied(d, {"done"})'
    <2>1. d # 0
      BY <1>2, EventsSent
    <2>2. proc'[p].d = d /\ proc'[p].at \in {"done"} => proc[p].d = d /\ proc[p].at \in {"done"}
      BY <2>1 DEF PassesOn
    <2>3. QED
      BY <1>2, <2>2, StillUnapplied
  <1>3. QED
    BY <1>1, <1>2

\* A step that writes none of the rows GitHub tells of.
LEMMA SettleKept ==
  ASSUME TypeInv, SettleInv, NEW p \in Goroutines, Others(p), Longer, AppliesDone(p), PassesOn(p),
         UNCHANGED <<inst, gh, stale>>, \A r \in Repos : Accessible(r)' <=> Accessible(r)
  PROVE  SettleInv'
  <1>1. InstMatches' <=> InstMatches
    BY DEF InstMatches, DeriveInstallationLifecycleStatus
  <1>2. GirMatches' <=> GirMatches
    BY DEF GirMatches
  <1>3. QED
    BY <1>1, <1>2, StillWaiting DEF SettleInv

\* Accessibility depends on the status of a row.
LEMMA SameAccess ==
  ASSUME UNCHANGED gir
  PROVE  \A r \in Repos : Accessible(r)' <=> Accessible(r)
  BY DEF Accessible

LEMMA LinkedAccess ==
  ASSUME RowsOK, NEW s \in Repos, gir[s] # None, gir' = [gir EXCEPT ![s].linked = TRUE]
  PROVE  \A r \in Repos : Accessible(r)' <=> Accessible(r)
  <1>1. PICK old \in AccessRow : old = gir[s]
    BY DEF RowsOK
  <1>2. PICK new : new = [old EXCEPT !.linked = TRUE]
    OBVIOUS
  <1>3. new \in AccessRow /\ new.status = old.status
    BY <1>2 DEF AccessRow
  <1>4. gir' = [gir EXCEPT ![s] = new]
    BY <1>1, <1>2
  <1>5. gir'[s] = new /\ \A r \in Repos : r # s => gir'[r] = gir[r]
    BY <1>4 DEF RowsOK
  <1>6. new # None
    BY <1>3, NoConnectionRow
  <1>7. QED
    BY <1>1, <1>3, <1>5, <1>6 DEF Accessible

\* The statements that read, and those of the rows of DevLens alone.
LEMMA SettleReads ==
  ASSUME TypeInv, SettleInv, NEW p \in Goroutines, UNCHANGED webhookVars,
         \/ GetInstallation(p) \/ ListInstallationRepositories(p) \/ CancelActiveSyncJobs(p)
         \/ LinkRepositoryAndMarkSelected(p) \/ GetRepositoryTarget(p) \/ InsertJob(p)
         \/ WriteRepository(p) \/ CallFails(p)
  PROVE  SettleInv'
  <1>1. /\ Procing /\ gh.state \in GhStates /\ gh.repos \in SUBSET Repos /\ RowsOK
        /\ Longer /\ AppliesDone(p) /\ Idle.d = 0 /\ Idle.at = "idle"
    BY TypeParts, IdleTyped DEF TypeInv, GhOK, webhookVars, Longer, AppliesDone, Applied
  <1>2. proc[p].at \in {"target", "insert", "link", "cancel", "write"} => proc[p].d = 0
    BY PlacedFacts, IdleTyped DEF Placed, OfRequest, OfDelivery, Refreshing
  <1> USE DEF Went, WentBack, Released, NextOne, PassesOn, Turn
  <1>3. CASE GetInstallation(p)
    <2>1. Others(p) /\ PassesOn(p)
      BY <1>1, <1>3, GetTurn
    <2>2. UNCHANGED <<inst, gh, stale, gir>>
      BY <1>3 DEF GetInstallation, rows
    <2>3. QED
      BY <1>1, <2>1, <2>2, SameAccess, SettleKept
  <1>4. CASE ListInstallationRepositories(p)
    <2>1. Others(p) /\ PassesOn(p)
      BY <1>1, <1>4, ListTurn
    <2>2. UNCHANGED <<inst, gh, stale, gir>>
      BY <1>4 DEF ListInstallationRepositories, rows
    <2>3. QED
      BY <1>1, <2>1, <2>2, SameAccess, SettleKept
  <1>5. CASE CancelActiveSyncJobs(p)
    <2>1. Others(p) /\ PassesOn(p)
      BY <1>1, <1>2, <1>5, CancelTurn
    <2>2. UNCHANGED <<inst, gh, stale, gir>>
      BY <1>5 DEF CancelActiveSyncJobs
    <2>3. QED
      BY <1>1, <2>1, <2>2, SameAccess, SettleKept
  <1>6. CASE LinkRepositoryAndMarkSelected(p)
    <2>1. Others(p) /\ PassesOn(p)
      BY <1>1, <1>2, <1>6, LinkTurn
    <2>2. UNCHANGED <<inst, gh, stale>>
      BY <1>6 DEF LinkRepositoryAndMarkSelected
    <2>3. UNCHANGED gir \/ \E r \in Repos : gir[r] # None /\ gir' = [gir EXCEPT ![r].linked = TRUE]
      BY <1>1, <1>6, LinkTurn
    <2>4. \A r \in Repos : Accessible(r)' <=> Accessible(r)
      BY <1>1, <2>3, SameAccess, LinkedAccess
    <2>5. QED
      BY <1>1, <2>1, <2>2, <2>4, SettleKept
  <1>7. CASE GetRepositoryTarget(p)
    <2>1. Others(p) /\ PassesOn(p)
      BY <1>1, <1>2, <1>7, TargetTurn
    <2>2. UNCHANGED <<inst, gh, stale, gir>>
      BY <1>7 DEF GetRepositoryTarget, rows
    <2>3. QED
      BY <1>1, <2>1, <2>2, SameAccess, SettleKept
  <1>8. CASE InsertJob(p)
    <2>1. Others(p) /\ PassesOn(p)
      BY <1>1, <1>2, <1>8, InsertTurn
    <2>2. UNCHANGED <<inst, gh, stale, gir>>
      BY <1>8 DEF InsertJob
    <2>3. QED
      BY <1>1, <2>1, <2>2, SameAccess, SettleKept
  <1>9. CASE WriteRepository(p)
    <2>1. Others(p) /\ PassesOn(p)
      BY <1>1, <1>2, <1>9, WriteTurn
    <2>2. UNCHANGED <<inst, gh, stale, gir>>
      BY <1>9 DEF WriteRepository
    <2>3. QED
      BY <1>1, <2>1, <2>2, SameAccess, SettleKept
  <1>10. CASE CallFails(p)
    <2>1. Others(p) /\ PassesOn(p)
      BY <1>1, <1>2, <1>10, CallFailsTurn
    <2>2. UNCHANGED <<inst, gh, stale, gir>>
      BY <1>10 DEF CallFails, rows
    <2>3. QED
      BY <1>1, <2>1, <2>2, SameAccess, SettleKept
  <1>11. QED
    BY <1>3, <1>4, <1>5, <1>6, <1>7, <1>8, <1>9, <1>10, Zenon

\* UpsertInstallation and SuspendInstallation leave what the repositories wait for, which
\* another event tells of.
LEMMA ReposStillWait ==
  ASSUME TypeInv, SettleInv, NEW p \in Goroutines, Others(p), UNCHANGED webhookVars, UNCHANGED gh,
         UNCHANGED gir, inst # None, "gir" \notin stale, gh.state # "deleted",
         \/ proc'[p].at # "done" \/ proc'[p].d = 0
         \/ proc'[p].d = proc[p].d /\ sent[proc[p].d].kind # "refresh"
  PROVE  GirMatches' \/ \E d \in Deliveries : sent'[d].kind = "refresh" /\ Unapplied(d, {"done"})'
  <1>1. Longer /\ AppliesDone(p)
    BY DEF webhookVars, Longer, AppliesDone, Applied
  <1>2. CASE GirMatches
    BY <1>2, SameAccess DEF GirMatches
  <1>3. ASSUME NEW d \in Deliveries, sent[d].kind = "refresh", Unapplied(d, {"done"})
        PROVE  sent'[d].kind = "refresh" /\ Unapplied(d, {"done"})'
    <2>1. d # 0
      BY <1>3, EventsSent
    <2>2. proc'[p].d = d /\ proc'[p].at \in {"done"} => FALSE
      BY <1>3, <2>1
    <2>3. QED
      BY <1>1, <1>3, <2>2, StillUnapplied
  <1>4. QED
    BY <1>2, <1>3 DEF SettleInv

LEMMA SettleUpsert ==
  ASSUME TypeInv, SettleInv, NEW p \in Goroutines, UNCHANGED webhookVars, UpsertInstallation(p)
  PROVE  SettleInv'
  <1>1. /\ Others(p) /\ proc'[p].at = "list" /\ proc[p].at = "upsert"
        /\ inst' = [status |-> DeriveInstallationLifecycleStatus(proc[p].seen),
                    suspended |-> proc[p].seen = "suspended", disconnected |-> FALSE]
        /\ stale' = IF proc[p].seen = gh.state THEN stale \ {"inst"} ELSE stale \cup {"inst"}
        /\ UNCHANGED <<gh, gir>>
    BY TypeParts, UpsertTurn DEF TypeInv, Turn, Went
  <1>2. proc[p].seen # "deleted" /\ inst' \in Installation /\ inst' # None
    <2>1. proc[p].seen # "deleted"
      BY <1>1, PlacedFacts
    <2>2. PICK b \in BOOLEAN : b = (proc[p].seen = "suspended")
      OBVIOUS
    <2>3. PICK st \in {"connected", "installation_required"} : st = DeriveInstallationLifecycleStatus(proc[p].seen)
      BY DEF DeriveInstallationLifecycleStatus
    <2>4. inst' = [status |-> st, suspended |-> b, disconnected |-> FALSE]
      BY <1>1, <2>2, <2>3, Zenon
    <2>5. inst' \in Installation
      BY <2>4 DEF Installation
    <2>6. QED
      BY <2>1, <2>5, NoConnectionRow
  <1>3. "inst" \notin stale' => InstMatches'
    <2>1. SUFFICES ASSUME "inst" \notin stale'
                   PROVE  InstMatches'
      OBVIOUS
    <2>2. proc[p].seen = gh.state
      BY <1>1, <2>1
    <2>3. inst'.status = DeriveInstallationLifecycleStatus(gh.state) /\ inst'.suspended = (gh.state = "suspended")
      BY <1>1, <2>2
    <2>4. gh' = gh /\ gh.state # "deleted"
      BY <1>1, <1>2, <2>2
    <2>5. QED
      BY <2>3, <2>4 DEF InstMatches, DeriveInstallationLifecycleStatus
  <1>4. "gir" \notin stale' => inst # None /\ "gir" \notin stale
    BY <1>1 DEF SettleInv
  <1>5. "gir" \notin stale' /\ gh'.state # "deleted" =>
          GirMatches' \/ \E d \in Deliveries : sent'[d].kind = "refresh" /\ Unapplied(d, {"done"})'
    BY <1>1, <1>4, ReposStillWait
  <1>6. QED
    BY <1>2, <1>3, <1>5 DEF SettleInv

LEMMA SettleSuspend ==
  ASSUME TypeInv, SettleInv, NEW p \in Goroutines, UNCHANGED webhookVars, SuspendInstallation(p)
  PROVE  SettleInv'
  <1>1. /\ Others(p) /\ proc[p].at = "suspend" /\ WentBack(p, "done")
        /\ inst' = IF inst = None THEN None
                   ELSE [status |-> "installation_required", suspended |-> TRUE, disconnected |-> FALSE]
        /\ stale' = IF gh.state = "suspended" THEN stale \ {"inst"} ELSE stale \cup {"inst"}
        /\ UNCHANGED <<gh, gir>>
    BY TypeParts, SuspendTurn DEF TypeInv, Turn
  <1>2. proc[p].d # 0 => sent[proc[p].d].kind = "suspend"
    BY <1>1, PlacedFacts, IdleTyped DEF Placed, OfRequest, OfDelivery, Refreshing
  <1>3. "inst" \notin stale' /\ inst' # None => InstMatches'
    <2>1. SUFFICES ASSUME "inst" \notin stale', inst' # None
                   PROVE  InstMatches'
      OBVIOUS
    <2>2. gh'.state = "suspended"
      BY <1>1, <2>1
    <2>3. inst'.status = "installation_required" /\ inst'.suspended = TRUE
      BY <1>1, <2>1
    <2>4. QED
      BY <2>2, <2>3 DEF InstMatches, DeriveInstallationLifecycleStatus
  <1>4. inst' # None => inst # None
    BY <1>1
  <1>5. "gir" \in stale' <=> "gir" \in stale
    BY <1>1
  <1>6. \/ proc'[p].at # "done" \/ proc'[p].d = 0
        \/ proc'[p].d = proc[p].d /\ sent[proc[p].d].kind # "refresh"
    BY <1>1, <1>2, IdleTyped DEF WentBack, Released, Went
  <1>7. inst' # None /\ "gir" \notin stale' /\ gh'.state # "deleted" =>
          GirMatches' \/ \E d \in Deliveries : sent'[d].kind = "refresh" /\ Unapplied(d, {"done"})'
    BY <1>1, <1>4, <1>5, <1>6, ReposStillWait
  <1>8. inst' = None => "gir" \in stale'
    <2>1. [status |-> "installation_required", suspended |-> TRUE, disconnected |-> FALSE] \in Installation
      BY DEF Installation
    <2>2. inst' = None => inst = None
      BY <1>1, <2>1, NoConnectionRow
    <2>3. QED
      BY <1>5, <2>2 DEF SettleInv
  <1>9. QED
    BY <1>3, <1>7, <1>8 DEF SettleInv

LEMMA SettleReplace ==
  ASSUME TypeInv, SettleInv, NEW p \in Goroutines, UNCHANGED webhookVars, ReplaceAccessibleRepositories(p)
  PROVE  SettleInv'
  <1>1. Procing /\ RowsOK /\ Longer /\ AppliesDone(p)
    BY TypeParts DEF TypeInv, webhookVars, Longer, AppliesDone, Applied
  <1>2. Others(p) /\ proc[p].at = "replace" /\ UNCHANGED <<gh, inst>>
    BY <1>1, ReplaceTurn DEF Turn
  <1>3. CASE inst = None /\ UNCHANGED <<gir, stale>>
    BY <1>2, <1>3 DEF SettleInv
  <1>4. CASE /\ inst # None /\ WentBack(p, "done")
             /\ gir' = [r \in Repos |->
                  IF r \in proc[p].items THEN Listed(r)
                  ELSE IF gir[r] = None THEN None
                  ELSE [gir[r] EXCEPT !.status = "installation_required"]]
             /\ stale' = IF proc[p].items = gh.repos THEN stale \ {"gir"} ELSE stale \cup {"gir"}
    <2>1. InstMatches' <=> InstMatches
      BY <1>2 DEF InstMatches, DeriveInstallationLifecycleStatus
    <2>2. "inst" \notin stale' => "inst" \notin stale
      BY <1>4
    <2>3. ASSUME NEW d \in Deliveries, Unapplied(d, {"list", "replace", "done"})
          PROVE  Unapplied(d, {"list", "replace", "done"})'
      <3>1. d # 0
        BY <2>3, EventsSent
      <3>2. proc'[p].d = d /\ proc'[p].at \in {"list", "replace", "done"} =>
              proc[p].d = d /\ proc[p].at \in {"list", "replace", "done"}
        BY <1>2, <1>4, <3>1, IdleTyped DEF WentBack, Released, Went
      <3>3. QED
        BY <1>1, <1>2, <2>3, <3>2, StillUnapplied
    <2>4. ASSUME NEW r \in Repos
          PROVE  Accessible(r)' <=> r \in proc[p].items
      <3>1. CASE r \in proc[p].items
        <4>1. gir'[r] = [status |-> "accessible", linked |-> r \in Linked]
          BY <1>4, <3>1 DEF Listed
        <4>2. (r \in Linked) \in BOOLEAN
          OBVIOUS
        <4>3. PICK b \in BOOLEAN : b = (r \in Linked)
          BY <4>2, Zenon
        <4>4. gir'[r] = [status |-> "accessible", linked |-> b]
          BY <4>1, <4>3, Zenon
        <4>5. gir'[r] \in AccessRow /\ gir'[r].status = "accessible"
          BY <4>4 DEF AccessRow
        <4>6. QED
          BY <3>1, <4>5, NoConnectionRow DEF Accessible
      <3>2. CASE r \notin proc[p].items /\ gir[r] = None
        BY <1>4, <3>2 DEF Accessible
      <3>3. CASE r \notin proc[p].items /\ gir[r] # None
        <4>1. PICK old \in AccessRow : old = gir[r]
          BY <1>1, <3>3 DEF RowsOK
        <4>2. gir'[r] = [old EXCEPT !.status = "installation_required"]
          BY <1>4, <3>3, <4>1
        <4>3. gir'[r].status = "installation_required"
          BY <4>2 DEF AccessRow
        <4>4. QED
          BY <3>3, <4>3 DEF Accessible
      <3>4. QED
        BY <3>1, <3>2, <3>3
    <2>5. "gir" \notin stale' => proc[p].items = gh'.repos
      BY <1>2, <1>4
    <2>6. "gir" \notin stale' => GirMatches'
      BY <2>4, <2>5 DEF GirMatches
    <2>7. inst' # None /\ "inst" \notin stale' =>
            InstMatches' \/ \E d \in Deliveries : Unapplied(d, {"list", "replace", "done"})'
      BY <1>2, <2>1, <2>2, <2>3 DEF SettleInv
    <2>8. QED
      BY <1>2, <1>4, <2>6, <2>7 DEF SettleInv
  <1>5. QED
    BY <1>1, <1>3, <1>4, ReplaceTurn

LEMMA SettleDrop ==
  ASSUME TypeInv, SettleInv, NEW p \in Goroutines, UNCHANGED webhookVars, DisconnectInstallation(p)
  PROVE  SettleInv'
  <1>1. Procing /\ UNCHANGED gh
    BY TypeParts DEF TypeInv, DisconnectInstallation
  <1>2. \/ inst = None /\ UNCHANGED <<inst, stale>>
        \/ /\ inst # None
           /\ inst' = [status |-> "installation_required", suspended |-> FALSE, disconnected |-> TRUE]
           /\ stale' = IF gh.state = "deleted" THEN {} ELSE {"inst", "gir"}
    BY <1>1, DropTurn DEF rows
  <1>3. CASE inst = None /\ UNCHANGED <<inst, stale>>
    BY <1>3 DEF SettleInv
  <1>4. CASE /\ inst' = [status |-> "installation_required", suspended |-> FALSE, disconnected |-> TRUE]
             /\ stale' = IF gh.state = "deleted" THEN {} ELSE {"inst", "gir"}
    <2>1. inst' \in Installation
      BY <1>4 DEF Installation
    <2>2. inst' # None
      BY <2>1, NoConnectionRow
    <2>3. "inst" \notin stale' => InstMatches'
      BY <1>1, <1>4 DEF InstMatches
    <2>4. QED
      BY <1>1, <1>4, <2>2, <2>3 DEF SettleInv
  <1>5. QED
    BY <1>2, <1>3, <1>4

LEMMA SettleFind ==
  ASSUME TypeInv, SettleInv, NEW p \in Goroutines, UNCHANGED webhookVars, FindOrganization(p)
  PROVE  SettleInv'
  <1>1. Procing /\ Longer /\ AppliesDone(p)
    BY TypeParts DEF TypeInv, webhookVars, Longer, AppliesDone, Applied
  <1>2. UNCHANGED <<inst, gh, stale, gir>>
    BY DEF FindOrganization, rows
  <1>3. CASE inst = None
    BY <1>2, <1>3 DEF SettleInv
  <1>4. CASE inst # None
    <2>1. Others(p) /\ PassesOn(p)
      BY <1>1, <1>4, FindTurn DEF Turn, PassesOn, Went
    <2>2. QED
      BY <1>1, <1>2, <2>1, SameAccess, SettleKept
  <1>5. QED
    BY <1>3, <1>4

LEMMA SettleConn ==
  ASSUME TypeInv, SettleInv, NEW p \in Goroutines, UNCHANGED webhookVars, ConnStep(p) \/ CallFails(p)
  PROVE  SettleInv'
  <1>1. CASE \/ GetInstallation(p) \/ ListInstallationRepositories(p) \/ CancelActiveSyncJobs(p)
             \/ LinkRepositoryAndMarkSelected(p) \/ GetRepositoryTarget(p) \/ InsertJob(p)
             \/ WriteRepository(p) \/ CallFails(p)
    BY <1>1, SettleReads, Zenon
  <1>2. CASE \/ UpsertInstallation(p) \/ ReplaceAccessibleRepositories(p) \/ FindOrganization(p)
             \/ SuspendInstallation(p) \/ DisconnectInstallation(p)
    BY <1>2, SettleUpsert, SettleReplace, SettleFind, SettleSuspend, SettleDrop, Zenon
  <1>3. QED
    BY <1>1, <1>2, Zenon DEF ConnStep

\* GitHub changes, and sends the event that tells of it: it is not applied yet.
LEMMA SettleChange ==
  ASSUME TypeInv, SettleInv, GithubChange
  PROVE  SettleInv'
  <1>1. /\ UNCHANGED <<inst, gir, stale, proc, delivery>> /\ gh.state # "deleted"
        /\ \/ OneMore("deleted", None) /\ gh'.state = "deleted" /\ gh'.repos = gh.repos
           \/ OneMore("suspend", None) /\ gh'.state = "suspended" /\ gh'.repos = gh.repos
           \/ OneMore("refresh", None)
    BY ChangeTurn DEF TypeInv, rows
  <1>2. PICK kind \in InstallationKinds :
          /\ OneMore(kind, None)
          /\ kind # "refresh" => gh'.repos = gh.repos
    BY <1>1 DEF InstallationKinds
  <1>3. PICK e \in Deliveries : e \in DOMAIN sent' /\ e \notin DOMAIN sent /\ sent'[e] = [kind |-> kind, r |-> None]
    BY <1>2 DEF OneMore
  <1>4. Longer
    BY <1>2 DEF OneMore, Longer
  <1>5. delivery[e] = None /\ \A q \in Goroutines : proc[q].d # e
    <2>1. \A q \in Goroutines : proc[q].d # 0 => proc[q].d \in DOMAIN sent
      BY WorkerRetries
    <2>2. e # 0
      BY <1>3, SentTyped DEF TypeInv
    <2>3. QED
      BY <1>3, <2>1, <2>2 DEF TypeInv
  <1>6. ASSUME NEW W
        PROVE  Unapplied(e, W)'
    <2>1. sent'[e].kind \in InstallationKinds
      BY <1>3
    <2>2. QED
      BY <1>1, <1>3, <1>5, <2>1 DEF Unapplied, IsInstallationEvent, Applied
  <1>7. CASE kind = "refresh"
    <2>1. sent'[e].kind = "refresh"
      BY <1>3, <1>7
    <2>2. Unapplied(e, {"list", "replace", "done"})' /\ Unapplied(e, {"done"})'
      BY <1>6
    <2>3. QED
      BY <1>1, <2>1, <2>2 DEF SettleInv
  <1>8. CASE kind # "refresh"
    <2>1. GirMatches' <=> GirMatches
      BY <1>1, <1>2, <1>8, SameAccess DEF GirMatches
    <2>2. ASSUME NEW d \in Deliveries, sent[d].kind = "refresh", Unapplied(d, {"done"})
          PROVE  sent'[d].kind = "refresh" /\ Unapplied(d, {"done"})'
      BY <1>1, <1>4, <2>2 DEF Unapplied, Longer, Applied, IsInstallationEvent
    <2>3. Unapplied(e, {"list", "replace", "done"})'
      BY <1>6
    <2>4. QED
      BY <1>1, <2>1, <2>2, <2>3 DEF SettleInv
  <1>9. QED
    BY <1>7, <1>8

\* A delivery is stored, taken up, projected, marked or scheduled, a payload purged, or a
\* goroutine ends; and the installation is purged.
LEMMA SettleDelivery ==
  ASSUME TypeInv, SettleInv, NEW p \in Goroutines,
         \/ EnqueueWebhookSync(p) \/ ProjectRepositoryEvent(p) \/ ProcessPersistedDelivery(p)
         \/ MarkDeliveryStatus(p) \/ ScheduleRetryFailure(p) \/ DeleteInstallation(p)
         \/ CallFails(p) /\ UNCHANGED webhookVars
         \/ DeliveryFails(p) \/ StatementFails(p) \/ GoroutineEnds(p)
  PROVE  SettleInv'
  <1>1. Procing /\ Rowing /\ Placed(p)
    BY TypeParts, PlacedFacts DEF TypeInv
  <1>2. proc[p].at \in {"store", "project", "apply", "mark", "done", "failed"} => HandledBy(p) /\ proc[p].d # 0
    BY <1>1, HandlerTyped, WorkerRetries, IdleTyped DEF Placed, OfRequest, Refreshing
  <1>3. sent' = sent => Longer
    BY DEF Longer
  <1>4. UNCHANGED delivery => AppliesDone(p)
    BY DEF AppliesDone, Applied
  <1>5. Idle.d = 0
    BY IdleTyped
  <1> USE DEF Went, WentBack, Released, PassesOn, Turn
  <1>6. CASE EnqueueWebhookSync(p)
    <2>1. proc[p].at = "store"
      BY <1>6, Zenon DEF EnqueueWebhookSync, At
    <2>2. /\ Others(p) /\ PassesOn(p) /\ OtherRows(proc[p].d) /\ UNCHANGED <<inst, gh, gir, stale, sent>>
          /\ UNCHANGED delivery \/ delivery'[proc[p].d].applied = FALSE
      BY <1>1, <1>2, <1>5, <1>6, <2>1, EnqueueTurn
    <2>3. AppliesDone(p)
      BY <2>2 DEF AppliesDone, Applied, OtherRows
    <2>4. QED
      BY <1>3, <2>2, <2>3, SameAccess, SettleKept
  <1>7. CASE ProjectRepositoryEvent(p)
    <2>1. Others(p) /\ PassesOn(p) /\ UNCHANGED <<inst, gh, gir, stale, sent, delivery>>
      BY <1>1, <1>5, <1>7, ProjectTurn DEF rows
    <2>2. QED
      BY <1>3, <1>4, <2>1, SameAccess, SettleKept
  <1>8. CASE ProcessPersistedDelivery(p)
    <2>1. Others(p) /\ PassesOn(p) /\ UNCHANGED <<inst, gh, gir, stale, sent, delivery>>
      BY <1>1, <1>5, <1>8, ProcessTurn DEF rows, webhookVars
    <2>2. QED
      BY <1>3, <1>4, <2>1, SameAccess, SettleKept
  <1>9. CASE MarkDeliveryStatus(p)
    <2>1. proc[p].at \in {"mark", "done"}
      BY <1>9 DEF MarkDeliveryStatus, At
    <2>2. /\ Others(p) /\ PassesOn(p) /\ OtherRows(proc[p].d) /\ UNCHANGED <<inst, gh, gir, stale, sent>>
          /\ UNCHANGED delivery \/ delivery'[proc[p].d].applied = (proc[p].at = "done")
      BY <1>1, <1>2, <1>5, <1>9, <2>1, MarkTurn DEF rows
    <2>3. AppliesDone(p)
      BY <2>2 DEF AppliesDone, Applied, OtherRows
    <2>4. QED
      BY <1>3, <2>2, <2>3, SameAccess, SettleKept
  <1>10. CASE ScheduleRetryFailure(p)
    <2>1. proc[p].at = "failed"
      BY <1>10 DEF ScheduleRetryFailure, At
    <2>2. /\ Others(p) /\ PassesOn(p) /\ OtherRows(proc[p].d) /\ UNCHANGED <<inst, gh, gir, stale, sent>>
          /\ \/ UNCHANGED delivery
             \/ delivery[proc[p].d] # None /\ delivery'[proc[p].d].applied = delivery[proc[p].d].applied
      BY <1>1, <1>2, <1>5, <1>10, <2>1, ScheduleTurn DEF rows
    <2>3. AppliesDone(p)
      BY <2>2 DEF AppliesDone, Applied, OtherRows
    <2>4. QED
      BY <1>3, <2>2, <2>3, SameAccess, SettleKept
  <1>11. CASE DeleteInstallation(p)
    <2>1. inst' = None /\ stale' = {"inst", "gir"}
      BY <1>1, <1>11, DeleteTurn
    <2>2. QED
      BY <2>1 DEF SettleInv
  <1>12. CASE CallFails(p) /\ UNCHANGED webhookVars
    BY <1>12, SettleConn
  <1>13. CASE DeliveryFails(p)
    <2>1. Others(p) /\ PassesOn(p) /\ UNCHANGED <<inst, gh, gir, stale, sent, delivery>>
      BY <1>1, <1>5, <1>13, DeliveryFailsTurn DEF rows
    <2>2. QED
      BY <1>3, <1>4, <2>1, SameAccess, SettleKept
  <1>14. CASE StatementFails(p)
    <2>1. Others(p) /\ PassesOn(p) /\ UNCHANGED <<inst, gh, gir, stale, sent, delivery>>
      BY <1>1, <1>5, <1>14, StatementFailsTurn DEF rows, webhookVars
    <2>2. QED
      BY <1>3, <1>4, <2>1, SameAccess, SettleKept
  <1>15. CASE GoroutineEnds(p)
    <2>1. Others(p) /\ PassesOn(p) /\ UNCHANGED <<inst, gh, gir, stale, sent, delivery>>
      BY <1>1, <1>5, <1>15, EndsTurn DEF rows
    <2>2. QED
      BY <1>3, <1>4, <2>1, SameAccess, SettleKept
  <1>16. QED
    BY <1>6, <1>7, <1>8, <1>9, <1>10, <1>11, <1>12, <1>13, <1>14, <1>15, Zenon

LEMMA SettleStep ==
  ASSUME TypeInv, SettleInv, [Next]_vars
  PROVE  SettleInv'
  <1>1. Procing /\ Rowing /\ BudgetOK /\ TypeOK /\ Worker \in Goroutines
    BY TypeParts DEF TypeInv, Goroutines
  <1>2. /\ sent' = sent => Longer
        /\ UNCHANGED delivery => \A p \in Goroutines : AppliesDone(p)
    BY DEF Longer, AppliesDone, Applied
  <1>3. ASSUME UNCHANGED <<proc, inst, gh, gir, stale, delivery>>, Longer
        PROVE  SettleInv'
    <2>1. Others(Worker) /\ PassesOn(Worker)
      BY <1>3 DEF Others, PassesOn
    <2>2. QED
      BY <1>1, <1>2, <1>3, <2>1, SameAccess, SettleKept
  <1>4. CASE UNCHANGED vars
    BY <1>2, <1>3, <1>4 DEF vars
  <1>5. CASE GithubChange
    BY <1>5, SettleChange
  <1>6. CASE \E r \in Repos : RepositoryEvent(r)
    <2>1. PICK r \in Repos : RepositoryEvent(r)
      BY <1>6
    <2>2. UNCHANGED <<proc, inst, gh, gir, stale, delivery>> /\ Longer
      BY <1>1, <2>1, EventTurn DEF rows, OneMore, Longer
    <2>3. QED
      BY <1>3, <2>2
  <1>7. CASE \E r \in Repos : JobEnds(r) /\ UNCHANGED webhookVars
    BY <1>2, <1>3, <1>7 DEF JobEnds, webhookVars
  <1>8. CASE \E p \in Procs : ConnRequest(p) /\ UNCHANGED webhookVars
    <2>1. PICK p \in Procs : ConnRequest(p) /\ UNCHANGED webhookVars
      BY <1>8
    <2>2. Turn(p) /\ proc'[p].d = 0 /\ p \in Goroutines /\ UNCHANGED <<inst, gh, gir, stale>>
      BY <1>1, <2>1, RequestTurn DEF BudgetOK, Goroutines, rows
    <2>3. Others(p) /\ PassesOn(p)
      BY <2>2 DEF Turn, PassesOn
    <2>4. QED
      BY <1>2, <2>1, <2>2, <2>3, SameAccess, SettleKept DEF webhookVars
  <1>9. CASE \E p \in Procs : \E d \in Deliveries : Handle(p, d)
    <2>1. PICK p \in Procs, d \in Deliveries : Handle(p, d)
      BY <1>9
    <2>2. /\ p \in Goroutines /\ Others(p) /\ proc'[p].at = "store"
          /\ UNCHANGED <<inst, gh, gir, stale, sent, delivery>>
      BY <2>1, HandleTurn DEF webhookVars, rows, Turn
    <2>3. QED
      BY <1>2, <2>2, SameAccess, SettleKept DEF PassesOn
  <1>10. CASE \E d \in Deliveries : Retry(d)
    <2>1. PICK d \in Deliveries : Retry(d)
      BY <1>10
    <2>2. /\ Others(Worker) /\ proc'[Worker].at \in {"project", "apply", "mark"}
          /\ UNCHANGED <<inst, gh, gir, stale, sent, delivery>>
      BY <1>1, <2>1, RetryTurn DEF webhookVars, rows, Turn
    <2>3. PassesOn(Worker)
      BY <2>2 DEF PassesOn
    <2>4. QED
      BY <1>1, <1>2, <2>2, <2>3, SameAccess, SettleKept
  <1>11. CASE \E d \in Deliveries : CleanupExpiredWebhookPayload(d)
    <2>1. PICK d \in Deliveries : CleanupExpiredWebhookPayload(d)
      BY <1>11
    <2>2. /\ OtherRows(d) /\ UNCHANGED <<proc, inst, gh, gir, stale, sent>>
          /\ delivery[d] # None /\ delivery'[d].applied = delivery[d].applied
      BY <1>1, <2>1, CleanupTurn DEF rows
    <2>3. AppliesDone(Worker)
      BY <2>2 DEF AppliesDone, Applied, OtherRows
    <2>4. Others(Worker) /\ PassesOn(Worker)
      BY <2>2 DEF Others, PassesOn
    <2>5. QED
      BY <1>1, <1>2, <2>2, <2>3, <2>4, SameAccess, SettleKept
  <1>12. CASE \E p \in Goroutines : ConnStep(p) /\ UNCHANGED webhookVars
    BY <1>12, SettleConn
  <1>13. ASSUME NEW p \in Goroutines,
              \/ EnqueueWebhookSync(p) \/ ProjectRepositoryEvent(p) \/ ProcessPersistedDelivery(p)
              \/ MarkDeliveryStatus(p) \/ ScheduleRetryFailure(p) \/ DeleteInstallation(p)
              \/ CallFails(p) /\ UNCHANGED webhookVars
              \/ DeliveryFails(p) \/ StatementFails(p) \/ GoroutineEnds(p)
         PROVE  SettleInv'
    BY <1>13, SettleDelivery, Zenon
  <1>14. QED
    BY <1>4, <1>5, <1>6, <1>7, <1>8, <1>9, <1>10, <1>11, <1>12, <1>13, Steps, Zenon

LEMMA SettleStart ==
  ASSUME Init
  PROVE  SettleInv
  <1>1. /\ gh = [state |-> "ok", repos |-> Repos]
        /\ \/ inst = None /\ stale = {"inst", "gir"}
           \/ /\ inst = [status |-> "connected", suspended |-> FALSE, disconnected |-> FALSE]
              /\ gir = [r \in Repos |-> [status |-> "accessible", linked |-> TRUE]]
    BY Zenon DEF Init, ConnInit
  <1>2. CASE inst = None /\ stale = {"inst", "gir"}
    BY <1>2 DEF SettleInv
  <1>3. CASE /\ inst = [status |-> "connected", suspended |-> FALSE, disconnected |-> FALSE]
             /\ gir = [r \in Repos |-> [status |-> "accessible", linked |-> TRUE]]
    <2>1. inst \in Installation /\ [status |-> "accessible", linked |-> TRUE] \in AccessRow
      BY <1>3 DEF Installation, AccessRow
    <2>2. inst # None /\ [status |-> "accessible", linked |-> TRUE] # None
      BY <2>1, NoConnectionRow
    <2>3. InstMatches
      BY <1>1, <1>3 DEF InstMatches, DeriveInstallationLifecycleStatus
    <2>4. GirMatches
      BY <1>1, <1>3, <2>2 DEF GirMatches, Accessible
    <2>5. QED
      BY <2>2, <2>3, <2>4 DEF SettleInv
  <1>4. QED
    BY <1>1, <1>2, <1>3

\* HandleInstallationEvent answers an event by asking GitHub, or by what the event says: once
\* every event is applied and nothing is under way, what is stored is what GitHub says, unless
\* the last to write a row had asked before a later change.
THEOREM GithubMatched == Spec => []SettledMatchesGithub
  <1>1. Init => SettleInv
    BY SettleStart
  <1>2. TypeInv /\ SettleInv /\ [Next]_vars => SettleInv'
    BY SettleStep
  <1>3. SettleInv => SettledMatchesGithub
    <2>1. SUFFICES ASSUME SettleInv, AllApplied, inst # None
                   PROVE  /\ "inst" \notin stale => InstMatches
                          /\ "gir" \notin stale /\ gh.state = "ok" => GirMatches
      BY DEF SettledMatchesGithub, InstMatches, GirMatches, Accessible
    <2>2. \A d, W : ~Unapplied(d, W)
      BY <2>1 DEF AllApplied, Unapplied
    <2>3. QED
      BY <2>1, <2>2 DEF SettleInv
  <1>4. QED
    BY <1>1, <1>2, <1>3, Typed, PTL DEF Spec
=============================================================================
