-------------------------------- MODULE Lifecycle --------------------------------
(***************************************************************************)
(* What datacleanup removes of organizations (datalifecycle): the analytics  *)
(* of the ones that were deleted long enough ago, in ClickHouse, then their  *)
(* rows in PostgreSQL; then, of every other organization, the raw analytics  *)
(* older than it wants (orgretention). ClickHouse only accepts the mutations *)
(* and applies them when it comes to it, which nothing waits for or looks    *)
(* at. Metrics calculations go on meanwhile.                                 *)
(* The payloads and installations it removes before that are in Webhooks.    *)
(* An organization has one repository with one pull request.                 *)
(***************************************************************************)
EXTENDS Integers, FiniteSetsExt, Functions

CONSTANTS
  Orgs,
  Grace,        \* SoftDeletedOrganizationRetentionDays
  RawDays,      \* AnalyticsRawRetentionDays
  Retentions,   \* the days organizations ask for
  MaxDay,       \* bound
  MaxBegun      \* bound: calculations and cleanups that begin

ASSUME LifecycleAssumption ==
  {Grace, RawDays} \cup Retentions \subseteq Nat \ {0} /\ {MaxDay, MaxBegun} \subseteq Nat

VARIABLES
  today,
  orgs,      \* organizations with the settings rows that reference them
  analytics, \* ClickHouse: of every table, what was synced of an organization on which day
  pending,   \* ClickHouse: the rows that mutations it accepted have yet to look at
  copying,   \* the days on which the calculations under way began
  cleanup,   \* the command
  late,      \* history: what was inserted beside a cleanup, or for no organization
  resaved,   \* history: the organizations that changed their days beside a cleanup or
             \* before its mutations were applied
  spent      \* of MaxBegun

lifecycleVars == <<today, orgs, analytics, pending, copying, cleanup, late, resaved, spent>>

Never == -1
Tables == {1, 2}  \* those with ids of pull requests come before those with ids of repositories
NoCleanup == [at |-> "idle", ids |-> {}, table |-> 1, days |-> <<>>, todo |-> {}]
CleanupAt(at) == cleanup.at = at

Mutation(row, days) == [row |-> row, days |-> days]
Mutating(o) == \E m \in pending : m.row.org = o

LifecycleInit ==
  /\ today = 0 /\ analytics = {} /\ pending = {} /\ cleanup = NoCleanup /\ late = {} /\ resaved = {}
  /\ spent = 0
  /\ copying = [o \in Orgs |-> Never]
  /\ orgs = [o \in Orgs |-> [deleted |-> Never, saved |-> FALSE, days |-> Never]]

-----------------------------------------------------------------------------
(* Beside the command.                                                       *)

\* Bound: a cleanup, which has seconds, is over before the next day; mutations need not be.
DayPasses ==
  /\ CleanupAt("idle") /\ today < MaxDay /\ today' = today + 1
  /\ UNCHANGED <<orgs, analytics, pending, copying, cleanup, late, resaved, spent>>

SoftDelete(o) ==
  /\ o \in DOMAIN orgs /\ orgs[o].deleted = Never
  /\ orgs' = [orgs EXCEPT ![o].deleted = today]
  /\ UNCHANGED <<today, analytics, pending, copying, cleanup, late, resaved, spent>>

\* Update of orgretention; no days are the default again, and the row stays. A row of
\* orgrulesettings is saved no other way.
SaveRetention(o) ==
  /\ o \in DOMAIN orgs /\ orgs[o].deleted = Never
  /\ \E days \in Retentions \cup {Never} :
       orgs' = [orgs EXCEPT ![o].saved = TRUE, ![o].days = days]
  /\ resaved' = IF CleanupAt("idle") /\ ~Mutating(o) THEN resaved ELSE resaved \cup {o}
  /\ UNCHANGED <<today, analytics, pending, copying, cleanup, late, spent>>

\* A calculation takes the time and reads what there is of an organization, deleted or
\* not, then inserts it. A mutation looks at nothing that was inserted after it.
ReadForAnalytics(o) ==
  /\ o \in DOMAIN orgs /\ copying[o] = Never /\ spent < MaxBegun
  /\ copying' = [copying EXCEPT ![o] = today]
  /\ spent' = spent + 1
  /\ UNCHANGED <<today, orgs, analytics, pending, cleanup, late, resaved>>
InsertAnalytics(o) ==
  LET copied == {[org |-> o, table |-> t, synced |-> copying[o]] : t \in Tables}
  IN
  /\ copying[o] # Never
  /\ analytics' = analytics \cup copied
  /\ pending' = {m \in pending : m.row \notin copied}
  /\ late' = IF CleanupAt("idle") /\ o \in DOMAIN orgs THEN late ELSE late \cup copied
  /\ copying' = [copying EXCEPT ![o] = Never]
  /\ UNCHANGED <<today, orgs, cleanup, resaved, spent>>

\* ClickHouse comes to a part, here a row, when it does, maybe never; now() is the time it
\* does. Where that fails, it is tried again, and the row stays.
ApplyMutation ==
  /\ \E m \in pending :
       IF m.days = Never \/ m.row.synced < today - m.days
         THEN analytics' = analytics \ {m.row} /\ pending' = {n \in pending : n.row # m.row}
         ELSE pending' = pending \ {m} /\ UNCHANGED analytics
  /\ UNCHANGED <<today, orgs, copying, cleanup, late, resaved, spent>>

-----------------------------------------------------------------------------
(* The command.                                                              *)

\* A mutated command that deletes the organizations first, and purges when they are gone.
ListSoftDeletedDeletes ==
  LET ids == {o \in DOMAIN orgs : orgs[o].deleted # Never /\ orgs[o].deleted <= today - Grace}
  IN
  /\ CleanupAt("idle") /\ spent < MaxBegun
  /\ spent' = spent + 1
  /\ cleanup' = [NoCleanup EXCEPT !.at = IF ids = {} THEN "list" ELSE "delete", !.ids = ids]
  /\ late' = {row \in late : row.org \notin DOMAIN orgs}
  /\ resaved' = {o \in resaved : Mutating(o)}
  /\ UNCHANGED <<today, orgs, analytics, pending, copying>>

\* PurgeExpiredSoftDeletedOrganizations: which, then a mutation of their analytics for
\* every table.
ListSoftDeleted ==
  LET ids == {o \in DOMAIN orgs : orgs[o].deleted # Never /\ orgs[o].deleted <= today - Grace}
  IN
  /\ CleanupAt("idle") /\ spent < MaxBegun
  /\ spent' = spent + 1
  /\ cleanup' = [NoCleanup EXCEPT !.at = IF ids = {} THEN "list" ELSE "purge", !.ids = ids]
  /\ late' = {row \in late : row.org \notin DOMAIN orgs}
  /\ resaved' = {o \in resaved : Mutating(o)}
  /\ UNCHANGED <<today, orgs, analytics, pending, copying>>

PurgeClickHouse ==
  /\ CleanupAt("purge")
  /\ pending' = pending \cup {Mutation(row, Never) :
       row \in {x \in analytics : x.org \in cleanup.ids /\ x.table = cleanup.table}}
  /\ cleanup' = [cleanup EXCEPT !.table = 2, !.at = IF @ = "purge" /\ cleanup.table = 2 THEN "delete" ELSE @]
  /\ UNCHANGED <<today, orgs, analytics, copying, late, resaved, spent>>

\* One statement for all of them. The settings rows reference their organization without
\* ON DELETE: one that saved any is not deleted, with it none is, and the command ends.
DeleteOrganizations ==
  /\ CleanupAt("delete")
  /\ IF \E o \in cleanup.ids : orgs[o].saved
       THEN cleanup' = NoCleanup /\ UNCHANGED orgs
       ELSE /\ orgs' = Restrict(orgs, DOMAIN orgs \ cleanup.ids)
            /\ cleanup' = [cleanup EXCEPT !.at = "list"]
  /\ UNCHANGED <<today, analytics, pending, copying, late, resaved, spent>>

\* PurgeExpiredAnalyticsRawData: the days of every organization, then one after the other.
RetentionOf(o) == IF orgs[o].days = Never THEN RawDays ELSE orgs[o].days
ListRetentions ==
  LET live == {o \in DOMAIN orgs : orgs[o].deleted = Never}
  IN
  /\ CleanupAt("list")
  /\ cleanup' = IF live = {} THEN NoCleanup
                ELSE [cleanup EXCEPT !.at = "expire", !.days = [o \in live |-> RetentionOf(o)],
                                     !.todo = live \X Tables]
  /\ UNCHANGED <<today, orgs, analytics, pending, copying, late, resaved, spent>>

ExpireRawData(o, t) ==
  LET begun == {p \in DOMAIN cleanup.days : <<p, 1>> \notin cleanup.todo /\ <<p, 2>> \in cleanup.todo}
      todo == cleanup.todo \ {<<o, t>>}
  IN
  /\ CleanupAt("expire") /\ <<o, t>> \in cleanup.todo
  /\ IF begun = {} THEN t = 1 ELSE o \in begun
  /\ pending' = pending \cup {Mutation(row, cleanup.days[o]) :
       row \in {x \in analytics : x.org = o /\ x.table = t}}
  /\ cleanup' = IF todo = {} THEN NoCleanup ELSE [cleanup EXCEPT !.todo = todo]
  /\ UNCHANGED <<today, orgs, analytics, copying, late, resaved, spent>>

\* A statement fails, or the seconds are over. What was accepted stays.
CleanupFails ==
  /\ ~CleanupAt("idle") /\ cleanup' = NoCleanup
  /\ UNCHANGED <<today, orgs, analytics, pending, copying, late, resaved, spent>>

LifecycleNext ==
  \/ DayPasses \/ ApplyMutation \/ ListSoftDeleted \/ PurgeClickHouse \/ DeleteOrganizations
  \/ ListRetentions \/ CleanupFails
  \/ \E o \in Orgs :
       \/ SoftDelete(o) \/ SaveRetention(o) \/ ReadForAnalytics(o) \/ InsertAnalytics(o)
       \/ \E t \in Tables : ExpireRawData(o, t)

-----------------------------------------------------------------------------

\* A mutation that removes the row was accepted; the one of this cleanup is to look at it.
Purging(row) == \E m \in pending : m.row = row /\ m.days = Never
Expiring(row) == Mutation(row, cleanup.days[row.org]) \in pending

PurgesWhatIsDue ==
  /\ \A row \in analytics' : row.org \in DOMAIN orgs' \/ row \in late' \/ Purging(row)'
  /\ \A row \in analytics \ analytics' :
       \/ row.org \notin DOMAIN orgs
       \/ orgs[row.org].deleted # Never /\ today - orgs[row.org].deleted >= Grace
       \/ row.synced < today - RetentionOf(row.org) \/ row.org \in resaved
  /\ \A row \in analytics' :
       \/ row.org \notin DOMAIN cleanup'.days \/ <<row.org, row.table>> \in cleanup'.todo
       \/ row.synced >= today' - RetentionOf(row.org)' \/ row.org \in resaved'
       \/ row \in late' \/ Expiring(row)'

\* Wherever a cleanup ends, the next one begins and ClickHouse gets to its mutations: an
\* organization is gone only after mutations were accepted that remove all its analytics,
\* which nothing could find any more, but for what a calculation inserts beside the
\* cleanup; nothing is removed before its time, that of a deleted organization or the days
\* an organization asks for, however late its mutation is applied; and what a cleanup has
\* been through is no older than that, or its mutation has yet to look at it.
PurgedEverywhere == [][PurgesWhatIsDue]_lifecycleVars
=============================================================================
