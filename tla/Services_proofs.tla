--------------------------- MODULE Services_proofs ---------------------------
(****************************************************************************)
(* Proofs of what the run of Calculations checks of requests to services:   *)
(* of the rules of organizations and of their removal, for every set of     *)
(* writers, organizations and definitions; of calls that are limited, those *)
(* of syncs to GitHub and those to the API, for any syncs, addresses, quota *)
(* and window; and of lists that are read page by page, for any finite list, *)
(* any order of it and any changes.                                         *)
(****************************************************************************)
EXTENDS Calculations, Folds_proofs

(***************************************************************************)
(* Settings.                                                                 *)
(***************************************************************************)

-----------------------------------------------------------------------------
(* The inductive invariants.                                                  *)

IsUpdate(W) == W = [at |-> W.at, request |-> W.request, read |-> W.read, missed |-> W.missed]
WritersHaveUpdates == writer = [w \in Writers |-> writer[w]] /\ \A w \in Writers : IsUpdate(writer[w])

\* What an update has read is what was accepted, but for the sections that were raced, or
\* that others have named since.
ReadIsKept ==
  \A w \in Writers : writer[w].at = "write" =>
    /\ DOMAIN writer[w].read \subseteq DOMAIN kept
    /\ \A s \in DOMAIN kept \ (raced \cup writer[w].missed) :
         s \in DOMAIN writer[w].read /\ writer[w].read[s] = kept[s]

KeptInv == WritersHaveUpdates /\ ReadIsKept /\ UpdateKept

\* The defaults are those of a boot, and what is stored was validated with them.
UsableInv ==
  /\ Valid(defaults) /\ DOMAIN defaults = DOMAIN SectionOf
  /\ rebooted \/ stored = <<>> \/ ValidateStoredConfig(stored, defaults)

-----------------------------------------------------------------------------
(* What the operators of the merge return.                                    *)

LEMMA OverApplied ==
  ASSUME NEW f, NEW g
  PROVE  /\ DOMAIN Over(f, g) = DOMAIN f \cup DOMAIN g
         /\ \A x \in DOMAIN f : Over(f, g)[x] = f[x]
         /\ \A x \in DOMAIN g \ DOMAIN f : Over(f, g)[x] = g[x]
  BY DEF Over

\* A section that was validated leaves rules that can be calculated with, over any
\* defaults that can be.
LEMMA ValidatedIsCalculable ==
  ASSUME NEW sections, NEW d, Valid(d), DOMAIN d = DOMAIN SectionOf, ValidateStoredConfig(sections, d)
  PROVE  Calculable(Effective(sections, d))
  <1> DEFINE E == Effective(sections, d)
  <1>1. \A f \in DOMAIN d : SectionOf[f] \notin DOMAIN sections => E[f] = d[f]
    BY DEF Effective, ApplyOverrides
  <1>2. \A f \in DOMAIN d : SectionOf[f] \in DOMAIN sections =>
          \/ f \in DOMAIN sections[SectionOf[f]] /\ E[f] = sections[SectionOf[f]][f]
          \/ E[f] = d[f]
    <2> SUFFICES ASSUME NEW f \in DOMAIN d, SectionOf[f] \in DOMAIN sections
                 PROVE  \/ f \in DOMAIN sections[SectionOf[f]] /\ E[f] = sections[SectionOf[f]][f]
                        \/ E[f] = d[f]
      OBVIOUS
    <2>1. E[f] = Over(sections[SectionOf[f]], d)[f]
      BY DEF Effective, ApplyOverrides
    <2>2. QED
      BY <2>1 DEF Over
  <1>3. {"wait", "rate", "commits", "additions"} \subseteq DOMAIN d
    BY DEF SectionOf
  <1>4. \A f \in DOMAIN d, s \in DOMAIN sections : f \in DOMAIN sections[s] =>
          /\ f \in Thresholds => sections[s][f] > 0
          /\ f \in Shares01 => sections[s][f] \in 1 .. Whole
          /\ f \in Weights => sections[s][f] >= 0
    BY DEF ValidateStoredConfig, Thresholds, Shares01, Weights
  <1>5. \A f \in Thresholds : E[f] > 0
    BY <1>1, <1>2, <1>3, <1>4 DEF Thresholds, Valid, Calculable
  <1>6. \A f \in Shares01 : E[f] \in 1 .. Whole
    BY <1>1, <1>2, <1>3, <1>4 DEF Shares01, Valid, Calculable
  <1>7. \A f \in Weights : E[f] >= 0
    BY <1>1, <1>2, <1>3, <1>4 DEF Weights, Valid, Calculable
  <1>8. \E f \in Weights : E[f] > 0
    <2>1. \A f \in Weights : f \in DOMAIN d /\ SectionOf[f] = "metrics"
      BY DEF Weights, SectionOf
    <2>2. CASE "metrics" \in DOMAIN sections
      <3>1. \A f \in Weights : E[f] = ApplyOverrides(sections, "metrics", d)[f]
        BY <2>1 DEF Effective
      <3>2. QED
        BY <2>2, <3>1 DEF ValidateStoredConfig
    <2>3. CASE "metrics" \notin DOMAIN sections
      BY <2>1, <2>3, <1>1 DEF Valid, Calculable
    <2>4. QED
      BY <2>2, <2>3
  <1>9. QED
    BY <1>5, <1>6, <1>7, <1>8 DEF Calculable

LEMMA NothingStoredIsCalculable ==
  ASSUME NEW d, Valid(d), DOMAIN d = DOMAIN SectionOf
  PROVE  Calculable(Effective(<<>>, d))
  <1>1. \A f \in DOMAIN d : Effective(<<>>, d)[f] = d[f]
    BY DEF Effective, ApplyOverrides
  <1>2. Thresholds \cup Shares01 \cup Weights \subseteq DOMAIN d
    BY DEF Thresholds, Shares01, Weights, SectionOf
  <1>3. QED
    BY <1>1, <1>2 DEF Valid, Calculable

-----------------------------------------------------------------------------
(* The steps.                                                                 *)

LEMMA ReadKeeps ==
  ASSUME KeptInv, NEW w \in Writers, ReadSettings(w)
  PROVE  KeptInv'
  <1>1. PICK r \in Requests : writer' = [writer EXCEPT ![w] =
          [at |-> "write", request |-> r, read |-> stored, missed |-> {}]]
    BY DEF ReadSettings
  <1>2. WritersHaveUpdates'
    BY <1>1 DEF KeptInv, WritersHaveUpdates, IsUpdate
  <1>3. UNCHANGED <<stored, kept, raced>>
    BY DEF ReadSettings
  <1>4. ReadIsKept'
    <2>1. \A v \in Writers : writer'[v] = IF v = w THEN [at |-> "write", request |-> r, read |-> stored,
                                                         missed |-> {}] ELSE writer[v]
      BY <1>1 DEF KeptInv, WritersHaveUpdates
    <2>2. QED
      BY <1>3, <2>1 DEF KeptInv, ReadIsKept, UpdateKept
  <1>5. QED
    BY <1>2, <1>3, <1>4 DEF KeptInv, UpdateKept

LEMMA WriteKeepsUpdates ==
  ASSUME KeptInv, NEW w \in Writers, WriteSettings(w)
  PROVE  KeptInv'
  <1> DEFINE W == writer[w]  named == DOMAIN writer[w].request
  <1>1. /\ stored' = Over(W.request, W.read) /\ kept' = Over(W.request, kept)
        /\ raced' = (raced \cup W.missed) \ named
        /\ DOMAIN W.read \subseteq DOMAIN kept
        /\ \A s \in DOMAIN kept \ (raced \cup W.missed) : s \in DOMAIN W.read /\ W.read[s] = kept[s]
    BY DEF WriteSettings, MergeStoredConfig, KeptInv, ReadIsKept
  <1>2. UpdateKept'
    <2>1. DOMAIN stored' = named \cup DOMAIN W.read /\ DOMAIN kept' = named \cup DOMAIN kept
      BY <1>1, OverApplied
    <2>2. \A s \in named : stored'[s] = W.request[s] /\ kept'[s] = W.request[s]
      BY <1>1 DEF Over
    <2>3. /\ \A s \in DOMAIN W.read \ named : stored'[s] = W.read[s]
          /\ \A s \in DOMAIN kept \ named : kept'[s] = kept[s]
      BY <1>1 DEF Over
    <2>4. QED
      BY <1>1, <2>1, <2>2, <2>3 DEF UpdateKept
  <1>3. WritersHaveUpdates'
    BY DEF WriteSettings, NoUpdate, KeptInv, WritersHaveUpdates, IsUpdate
  <1>4. ASSUME NEW v \in Writers, writer'[v].at = "write"
        PROVE  /\ writer[v].at = "write" /\ writer'[v].read = writer[v].read
               /\ writer'[v].missed = writer[v].missed \cup named \cup W.missed
    BY <1>4 DEF WriteSettings, NoUpdate, KeptInv, WritersHaveUpdates, IsUpdate
  <1>5. ReadIsKept'
    <2>1. DOMAIN kept' = named \cup DOMAIN kept /\ \A s \in DOMAIN kept \ named : kept'[s] = kept[s]
      BY <1>1 DEF Over
    <2>2. QED
      BY <1>1, <1>4, <2>1 DEF KeptInv, ReadIsKept
  <1>6. QED
    BY <1>2, <1>3, <1>5 DEF KeptInv

LEMMA OthersKeep ==
  ASSUME KeptInv, Boot \/ (\E w \in Writers : RefuseSettings(w)) \/ UNCHANGED settingsVars
  PROVE  KeptInv'
  <1>1. UNCHANGED <<stored, kept, raced>>
    BY DEF Boot, RefuseSettings, settingsVars
  <1>2. /\ writer' = [w \in Writers |-> writer'[w]]
        /\ \A v \in Writers : writer'[v] = NoUpdate \/ writer'[v] = writer[v]
    <2>1. CASE writer' = writer
      BY <2>1 DEF KeptInv, WritersHaveUpdates
    <2>2. CASE writer' = [w \in Writers |-> NoUpdate]
      BY <2>2
    <2>3. ASSUME NEW w \in Writers, writer' = [writer EXCEPT ![w] = NoUpdate]
          PROVE  /\ writer' = [v \in Writers |-> writer'[v]]
                 /\ \A v \in Writers : writer'[v] = NoUpdate \/ writer'[v] = writer[v]
      BY <2>3 DEF KeptInv, WritersHaveUpdates
    <2>4. QED
      BY <2>1, <2>2, <2>3 DEF Boot, RefuseSettings, settingsVars
  <1>3. QED
    BY <1>1, <1>2 DEF KeptInv, WritersHaveUpdates, IsUpdate, ReadIsKept, UpdateKept, NoUpdate

LEMMA BootIsValid ==
  ASSUME NEW e \in Boots, NEW m \in Definitions, Valid(LoadMetricsRuleConfig(e, m))
  PROVE  DOMAIN LoadMetricsRuleConfig(e, m) = DOMAIN SectionOf
  <1>1. DOMAIN m \subseteq DOMAIN SectionOf /\ DOMAIN e = DOMAIN SectionOf
    BY SettingsAssumption DEF Weights, SectionOf
  <1>2. QED
    BY <1>1 DEF LoadMetricsRuleConfig, Over

LEMMA UsableStep ==
  ASSUME UsableInv, [SettingsNext]_settingsVars
  PROVE  UsableInv'
  <1>1. CASE Boot
    BY <1>1, BootIsValid DEF Boot, UsableInv
  <1>2. ASSUME NEW w \in Writers, WriteSettings(w) PROVE UsableInv'
    BY <1>2 DEF WriteSettings, UsableInv
  <1>3. ASSUME NEW w \in Writers, ReadSettings(w) \/ RefuseSettings(w) PROVE UsableInv'
    BY <1>3 DEF ReadSettings, RefuseSettings, UsableInv
  <1>4. CASE UNCHANGED settingsVars
    BY <1>4 DEF settingsVars, UsableInv
  <1>5. QED
    BY <1>1, <1>2, <1>3, <1>4 DEF SettingsNext

\* The other parts leave the settings alone.
LEMMA SettingsPart == [Next]_vars => [SettingsNext]_settingsVars
  BY DEF Next, vars

LEMMA SettingsStart ==
  ASSUME Init
  PROVE  /\ stored = <<>> /\ kept = <<>> /\ writer = [w \in Writers |-> NoUpdate]
         /\ Valid(defaults) /\ DOMAIN defaults = DOMAIN SectionOf
  <1>1. CASE SettingsInit
    BY <1>1, BootIsValid DEF SettingsInit
  <1>2. CASE NoSettings
    BY <1>2, SettingsAssumption DEF NoSettings
  <1>3. QED
    BY <1>1, <1>2 DEF Init

-----------------------------------------------------------------------------
(* The theorems.                                                              *)

\* What an accepted update said of a section stays until another names it, however many
\* writers read and write the row at once, are refused or lost in a restart: only an
\* update that had read the row before may set it back.
THEOREM AcceptedUpdatesStay == Spec => []UpdateKept
  <1>1. Init => KeptInv
    BY SettingsStart DEF KeptInv, WritersHaveUpdates, IsUpdate, ReadIsKept, UpdateKept, NoUpdate
  <1>2. KeptInv /\ [Next]_vars => KeptInv'
    BY SettingsPart, ReadKeeps, WriteKeepsUpdates, OthersKeep DEF SettingsNext
  <1>3. KeptInv => UpdateKept
    BY DEF KeptInv
  <1>4. QED
    BY <1>1, <1>2, <1>3, PTL DEF Spec

\* The rules an organization is answered can be calculated with, whatever it stored over
\* whatever environment, as long as the defaults are those its row was validated with.
THEOREM RulesUsable == Spec => []EffectiveUsable
  <1>1. Init => UsableInv
    BY SettingsStart DEF UsableInv
  <1>2. UsableInv /\ [Next]_vars => UsableInv'
    BY SettingsPart, UsableStep
  <1>3. UsableInv => EffectiveUsable
    BY ValidatedIsCalculable, NothingStoredIsCalculable DEF UsableInv, EffectiveUsable
  <1>4. QED
    BY <1>1, <1>2, <1>3, PTL DEF Spec

(***************************************************************************)
(* Lifecycle.                                                                *)
(***************************************************************************)

-----------------------------------------------------------------------------
(* The inductive invariant.                                                   *)

IsOrg(O) ==
  /\ O = [deleted |-> O.deleted, saved |-> O.saved, days |-> O.days]
  /\ O.deleted \in Int /\ O.days \in Int
IsCopied(R) ==
  /\ R = [org |-> R.org, table |-> R.table, synced |-> R.synced]
  /\ R.table \in Tables /\ R.synced \in Int
IsCleanup(C) ==
  /\ C = [at |-> C.at, ids |-> C.ids, table |-> C.table, days |-> C.days, todo |-> C.todo]
  /\ C.at \in {"idle", "purge", "delete", "list", "expire"} /\ C.table \in Tables

LifecycleTypes ==
  /\ today \in Int
  /\ orgs = [o \in DOMAIN orgs |-> orgs[o]] /\ \A o \in DOMAIN orgs : IsOrg(orgs[o])
  /\ copying \in [Orgs -> Int]
  /\ \A row \in analytics : IsCopied(row)
  /\ IsCleanup(cleanup)

\* What mutations have yet to look at was there when they were accepted; one without days is
\* of an organization deleted long enough ago, one with days goes by what its organization
\* wanted.
MutationsAreDue ==
  \A m \in pending :
    /\ m.row \in analytics
    /\ m.row.org \in DOMAIN orgs =>
         IF m.days = Never
           THEN orgs[m.row.org].deleted # Never /\ today - orgs[m.row.org].deleted >= Grace
           ELSE m.days = RetentionOf(m.row.org) \/ m.row.org \in resaved

\* The organizations a cleanup purges and deletes were deleted long enough ago.
PurgesTheDead ==
  cleanup.at \in {"purge", "delete"} =>
    \A o \in cleanup.ids : /\ o \in DOMAIN orgs /\ orgs[o].deleted # Never
                           /\ today - orgs[o].deleted >= Grace

\* The days a cleanup goes by are those of organizations there are, as they want them.
ExpiresTheLiving ==
  /\ cleanup.at # "expire" => cleanup.days = <<>>
  /\ cleanup.todo \subseteq (DOMAIN cleanup.days) \X Tables
  /\ \A o \in DOMAIN cleanup.days :
       /\ o \in DOMAIN orgs /\ cleanup.days[o] \in Int /\ cleanup.days[o] # Never
       /\ cleanup.days[o] = RetentionOf(o) \/ o \in resaved

\* What was not inserted beside a cleanup is of an organization there is, and in no table
\* the cleanup has been through, unless a mutation is to look at it.
NothingLeftBehind ==
  \A row \in analytics \ late :
    /\ \/ Purging(row)
       \/ /\ row.org \in DOMAIN orgs
          /\ cleanup.at = "purge" /\ row.org \in cleanup.ids => cleanup.table = 1 \/ row.table = 2
          /\ cleanup.at = "delete" => row.org \notin cleanup.ids
    /\ row.org \in DOMAIN cleanup.days /\ <<row.org, row.table>> \notin cleanup.todo =>
         row.synced >= today - RetentionOf(row.org) \/ row.org \in resaved \/ Expiring(row)

LInv == LifecycleTypes /\ MutationsAreDue /\ PurgesTheDead /\ ExpiresTheLiving /\ NothingLeftBehind

\* What a step may remove: what is of an organization deleted long enough ago, or older
\* than its organization wants.
RemovesWhatIsDue ==
  \A row \in analytics \ analytics' :
    \/ row.org \notin DOMAIN orgs
    \/ orgs[row.org].deleted # Never /\ today - orgs[row.org].deleted >= Grace
    \/ row.synced < today - RetentionOf(row.org) \/ row.org \in resaved

-----------------------------------------------------------------------------
(* Steps beside the command.                                                  *)

\* What is left behind is said of each row.
LEMMA RowByRow ==
  ASSUME \A row \in analytics' \ late' :
    /\ \/ Purging(row)'
       \/ /\ row.org \in DOMAIN orgs'
          /\ cleanup'.at = "purge" /\ row.org \in cleanup'.ids => cleanup'.table = 1 \/ row.table = 2
          /\ cleanup'.at = "delete" => row.org \notin cleanup'.ids
    /\ row.org \in DOMAIN cleanup'.days /\ <<row.org, row.table>> \notin cleanup'.todo =>
         row.synced >= today' - RetentionOf(row.org)' \/ row.org \in resaved' \/ Expiring(row)'
  PROVE  NothingLeftBehind'
  BY DEF NothingLeftBehind

LEMMA NoDays ==
  ASSUME LInv, cleanup.at # "expire"
  PROVE  DOMAIN cleanup.days = {}
  <1>1. cleanup.days = <<>>
    BY DEF LInv, ExpiresTheLiving
  <1>2. QED
    BY <1>1

LEMMA RetentionIsInt ==
  ASSUME LInv, NEW o \in DOMAIN orgs
  PROVE  RetentionOf(o) \in Int /\ RetentionOf(o) # Never
  BY LifecycleAssumption DEF LInv, LifecycleTypes, IsOrg, RetentionOf, Never

LEMMA DayKeeps ==
  ASSUME LInv, DayPasses
  PROVE  LInv'
  <1>1. /\ UNCHANGED <<orgs, analytics, pending, copying, cleanup, late, resaved>>
        /\ cleanup.at = "idle" /\ today' = today + 1
    BY DEF DayPasses, CleanupAt
  <1>2. DOMAIN cleanup.days = {}
    BY <1>1, NoDays
  <1>3. LifecycleTypes' /\ PurgesTheDead'
    BY <1>1 DEF LInv, LifecycleTypes, PurgesTheDead
  <1>4. ASSUME NEW o \in DOMAIN orgs, orgs[o].deleted # Never, today - orgs[o].deleted >= Grace
        PROVE  today' - orgs[o].deleted >= Grace
    BY <1>1, <1>4, LifecycleAssumption DEF LInv, LifecycleTypes, IsOrg
  <1>5. MutationsAreDue'
    BY <1>1, <1>4 DEF LInv, MutationsAreDue, RetentionOf
  <1>6. ExpiresTheLiving'
    BY <1>1 DEF LInv, ExpiresTheLiving, RetentionOf
  <1>7. \A row \in analytics \ late : Purging(row) \/ row.org \in DOMAIN orgs
    BY DEF LInv, NothingLeftBehind
  <1>8. NothingLeftBehind'
    BY <1>1, <1>2, <1>7, RowByRow DEF Purging
  <1>9. QED
    BY <1>3, <1>5, <1>6, <1>8 DEF LInv

LEMMA SoftDeleteKeeps ==
  ASSUME LInv, NEW o \in Orgs, SoftDelete(o)
  PROVE  LInv'
  <1>1. UNCHANGED <<today, analytics, pending, copying, cleanup, late, resaved>>
    BY DEF SoftDelete
  <1>2. /\ DOMAIN orgs' = DOMAIN orgs /\ orgs' = [p \in DOMAIN orgs' |-> orgs'[p]]
        /\ \A p \in DOMAIN orgs : p # o => orgs'[p] = orgs[p]
        /\ o \in DOMAIN orgs /\ orgs[o].deleted = Never /\ orgs'[o] = [orgs[o] EXCEPT !.deleted = today]
    BY DEF SoftDelete, LInv, LifecycleTypes
  <1>3. IsOrg(orgs'[o]) /\ orgs'[o].days = orgs[o].days
    BY <1>2 DEF LInv, LifecycleTypes, IsOrg
  <1>4. LifecycleTypes'
    BY <1>1, <1>2, <1>3 DEF LInv, LifecycleTypes
  <1>5. PurgesTheDead'
    BY <1>1, <1>2 DEF LInv, PurgesTheDead
  <1>6. \A p \in DOMAIN orgs : RetentionOf(p)' = RetentionOf(p)
    BY <1>2, <1>3 DEF RetentionOf
  <1>7. ExpiresTheLiving'
    BY <1>1, <1>2, <1>6 DEF LInv, ExpiresTheLiving
  <1>8. MutationsAreDue'
    BY <1>1, <1>2, <1>6 DEF LInv, MutationsAreDue
  <1>9. \A row \in analytics : (Purging(row)' <=> Purging(row)) /\ (Expiring(row)' <=> Expiring(row))
    BY <1>1 DEF Purging, Expiring, Mutation
  <1>10. \A row \in analytics \ late : row.org \in DOMAIN cleanup.days => row.org \in DOMAIN orgs
    BY DEF LInv, ExpiresTheLiving
  <1>11. NothingLeftBehind'
    BY <1>1, <1>2, <1>6, <1>9, <1>10, RowByRow DEF LInv, NothingLeftBehind
  <1>12. QED
    BY <1>4, <1>5, <1>7, <1>8, <1>11 DEF LInv

\* Beside a cleanup, or before its mutations are applied, who changes the days is told of.
LEMMA SaveRetentionKeeps ==
  ASSUME LInv, NEW o \in Orgs, SaveRetention(o)
  PROVE  LInv'
  <1>1. UNCHANGED <<today, analytics, pending, copying, cleanup, late>>
    BY DEF SaveRetention
  <1>2. PICK days \in Retentions \cup {Never} :
          orgs' = [orgs EXCEPT ![o].saved = TRUE, ![o].days = days]
    BY DEF SaveRetention
  <1>3. o \in DOMAIN orgs /\ IsOrg(orgs[o]) /\ days \in Int /\ orgs[o].deleted = Never
    BY LifecycleAssumption DEF SaveRetention, LInv, LifecycleTypes, Never
  <1>4. /\ DOMAIN orgs' = DOMAIN orgs /\ orgs' = [p \in DOMAIN orgs' |-> orgs'[p]]
        /\ \A p \in DOMAIN orgs : p # o => orgs'[p] = orgs[p]
        /\ orgs'[o] = [deleted |-> orgs[o].deleted, saved |-> TRUE, days |-> days]
    BY <1>2, <1>3 DEF IsOrg
  <1>5. IsOrg(orgs'[o]) /\ orgs'[o].deleted = orgs[o].deleted
    BY <1>3, <1>4 DEF IsOrg
  <1>6. LifecycleTypes'
    BY <1>1, <1>4, <1>5 DEF LInv, LifecycleTypes
  <1>7. PurgesTheDead'
    BY <1>1, <1>4, <1>5 DEF LInv, PurgesTheDead
  <1>8. \A p \in DOMAIN orgs : p # o => RetentionOf(p)' = RetentionOf(p)
    BY <1>4 DEF RetentionOf
  <1>9. /\ resaved \subseteq resaved'
        /\ o \in resaved' \/ (cleanup.days = <<>> /\ \A m \in pending : m.row.org # o)
    BY DEF SaveRetention, CleanupAt, Mutating, LInv, ExpiresTheLiving
  <1>10. ExpiresTheLiving'
    BY <1>1, <1>4, <1>8, <1>9 DEF LInv, ExpiresTheLiving
  <1>11. MutationsAreDue'
    BY <1>1, <1>3, <1>4, <1>8, <1>9 DEF LInv, MutationsAreDue
  <1>12. \A row \in analytics \ late : row.org \in DOMAIN cleanup.days =>
           \/ row.org # o /\ RetentionOf(row.org)' = RetentionOf(row.org)
           \/ row.org \in resaved'
    BY <1>8, <1>9, NoDays DEF LInv, ExpiresTheLiving
  <1>13. \A row \in analytics : (Purging(row)' <=> Purging(row)) /\ (Expiring(row)' <=> Expiring(row))
    BY <1>1 DEF Purging, Expiring, Mutation
  <1>14. NothingLeftBehind'
    BY <1>1, <1>4, <1>9, <1>12, <1>13, RowByRow DEF LInv, NothingLeftBehind
  <1>15. QED
    BY <1>6, <1>7, <1>10, <1>11, <1>14 DEF LInv

LEMMA CopyKeeps ==
  ASSUME LInv, NEW o \in Orgs, ReadForAnalytics(o)
  PROVE  LInv'
  <1>1. UNCHANGED <<today, orgs, analytics, pending, cleanup, late, resaved>>
    BY DEF ReadForAnalytics
  <1>2. LifecycleTypes'
    BY <1>1 DEF LInv, LifecycleTypes, ReadForAnalytics
  <1>3. MutationsAreDue' /\ PurgesTheDead' /\ ExpiresTheLiving'
    BY <1>1 DEF LInv, MutationsAreDue, PurgesTheDead, ExpiresTheLiving, RetentionOf
  <1>4. NothingLeftBehind'
    BY <1>1 DEF LInv, NothingLeftBehind, RetentionOf, Purging, Expiring, Mutation
  <1>5. QED
    BY <1>2, <1>3, <1>4 DEF LInv

\* Beside a cleanup, what is inserted is told of, and no mutation looks at it.
LEMMA InsertKeeps ==
  ASSUME LInv, NEW o \in Orgs, InsertAnalytics(o)
  PROVE  LInv'
  <1> DEFINE copied == {[org |-> o, table |-> t, synced |-> copying[o]] : t \in Tables}
  <1>1. /\ analytics' = analytics \cup copied
        /\ pending' = {m \in pending : m.row \notin copied}
        /\ late' = IF CleanupAt("idle") /\ o \in DOMAIN orgs THEN late ELSE late \cup copied
        /\ copying' = [copying EXCEPT ![o] = Never]
        /\ UNCHANGED <<today, orgs, cleanup, resaved>>
    BY DEF InsertAnalytics
  <1>2. \A row \in copied : IsCopied(row) /\ row.org = o
    BY DEF LInv, LifecycleTypes, IsCopied
  <1> HIDE DEF copied
  <1>3. LifecycleTypes'
    BY <1>1, <1>2 DEF LInv, LifecycleTypes, Never
  <1>4. PurgesTheDead' /\ ExpiresTheLiving' /\ MutationsAreDue'
    BY <1>1 DEF LInv, PurgesTheDead, ExpiresTheLiving, MutationsAreDue, RetentionOf
  <1>5. ASSUME NEW row \in analytics' \ late', row \notin copied
        PROVE  /\ row \in analytics \ late
               /\ Purging(row) => Purging(row)'
               /\ Expiring(row) => Expiring(row)'
    <2>1. row \in analytics \ late
      BY <1>1, <1>5
    <2>2. Purging(row) => Purging(row)'
      BY <1>1, <1>5 DEF Purging
    <2>3. Expiring(row) => Expiring(row)'
      BY <1>1, <1>5 DEF Expiring, Mutation
    <2>4. QED
      BY <2>1, <2>2, <2>3
  <1>6. ASSUME NEW row \in analytics' \ late', row \in copied
        PROVE  row.org \in DOMAIN orgs /\ cleanup.at = "idle" /\ DOMAIN cleanup.days = {}
    BY <1>1, <1>2, <1>6, NoDays DEF CleanupAt
  <1>7. \A p : RetentionOf(p)' = RetentionOf(p)
    BY <1>1 DEF RetentionOf
  <1>8. NothingLeftBehind'
    BY <1>1, <1>5, <1>6, <1>7, RowByRow DEF LInv, NothingLeftBehind
  <1>9. QED
    BY <1>3, <1>4, <1>8 DEF LInv

\* What a mutation removes is due, and what it looked at and leaves is young enough.
LEMMA ApplyKeeps ==
  ASSUME LInv, ApplyMutation
  PROVE  LInv' /\ RemovesWhatIsDue
  <1>1. UNCHANGED <<today, orgs, copying, cleanup, late, resaved>>
    BY DEF ApplyMutation
  <1>2. PICK m \in pending :
          \/ /\ m.days = Never \/ m.row.synced < today - m.days
             /\ analytics' = analytics \ {m.row} /\ pending' = {n \in pending : n.row # m.row}
          \/ /\ ~(m.days = Never \/ m.row.synced < today - m.days)
             /\ pending' = pending \ {m} /\ UNCHANGED analytics
    BY DEF ApplyMutation
  <1>3. RemovesWhatIsDue
    <2>1. \A row \in analytics \ analytics' :
            row = m.row /\ (m.days = Never \/ m.row.synced < today - m.days)
      BY <1>2
    <2>2. QED
      BY <2>1 DEF LInv, MutationsAreDue, RemovesWhatIsDue
  <1>4. analytics' \subseteq analytics /\ \A n \in pending' : n \in pending /\ n.row \in analytics'
    BY <1>2 DEF LInv, MutationsAreDue
  <1>5. \A p : RetentionOf(p)' = RetentionOf(p)
    BY <1>1 DEF RetentionOf
  <1>6. LifecycleTypes' /\ PurgesTheDead' /\ ExpiresTheLiving' /\ MutationsAreDue'
    <2>1. LifecycleTypes'
      BY <1>1, <1>4 DEF LInv, LifecycleTypes
    <2>2. PurgesTheDead' /\ ExpiresTheLiving'
      BY <1>1, <1>5 DEF LInv, PurgesTheDead, ExpiresTheLiving
    <2>3. MutationsAreDue'
      BY <1>1, <1>4, <1>5 DEF LInv, MutationsAreDue
    <2>4. QED
      BY <2>1, <2>2, <2>3
  <1>7. ASSUME NEW row \in analytics' \ late'
        PROVE  Purging(row) => Purging(row)'
    BY <1>2 DEF Purging
  <1>8. ASSUME NEW row \in analytics' \ late', row.org \in DOMAIN cleanup.days, Expiring(row), ~Expiring(row)'
        PROVE  row.synced >= today - RetentionOf(row.org) \/ row.org \in resaved
    <2>1. m = Mutation(row, cleanup.days[row.org]) /\ ~(m.row.synced < today - m.days)
      BY <1>1, <1>2, <1>8 DEF Expiring, Mutation
    <2>2. /\ cleanup.days[row.org] \in Int
          /\ cleanup.days[row.org] = RetentionOf(row.org) \/ row.org \in resaved
      BY <1>8 DEF LInv, ExpiresTheLiving
    <2>3. row.synced \in Int /\ today \in Int
      BY <1>4, <1>8 DEF LInv, LifecycleTypes, IsCopied
    <2>4. m.row = row /\ m.days = cleanup.days[row.org]
      BY <2>1 DEF Mutation
    <2>5. QED
      BY <2>1, <2>2, <2>3, <2>4
  <1>9. \A row \in analytics' \ late' : row \in analytics \ late
    BY <1>1, <1>4
  <1>10. NothingLeftBehind'
    BY <1>1, <1>5, <1>7, <1>8, <1>9, RowByRow DEF LInv, NothingLeftBehind
  <1>11. QED
    BY <1>3, <1>6, <1>10 DEF LInv

-----------------------------------------------------------------------------
(* Steps of the command.                                                      *)

\* A cleanup that has just begun, or ends, has no days to go by and no tables behind it.
LEMMA FreshCleanupKeeps ==
  ASSUME LInv, UNCHANGED <<today, orgs, analytics, pending, copying>>,
         IsCleanup(cleanup)', cleanup'.days = <<>>, cleanup'.todo = {},
         cleanup'.at # "delete", cleanup'.at = "purge" => cleanup'.table = 1,
         PurgesTheDead', \A row \in late : row \in late' \/ row.org \in DOMAIN orgs,
         \A o \in resaved : o \in resaved' \/ ~Mutating(o)
  PROVE  LInv'
  <1>1. DOMAIN cleanup'.days = {}
    OBVIOUS
  <1>2. LifecycleTypes'
    BY DEF LInv, LifecycleTypes
  <1>3. ExpiresTheLiving'
    BY <1>1 DEF ExpiresTheLiving
  <1>4. MutationsAreDue'
    BY DEF LInv, MutationsAreDue, Mutating, RetentionOf
  <1>5. \A row \in analytics' \ late' : row.org \in DOMAIN orgs \/ Purging(row)
    BY DEF LInv, NothingLeftBehind
  <1>6. \A row : Purging(row)' <=> Purging(row)
    BY DEF Purging
  <1>7. NothingLeftBehind'
    BY <1>1, <1>5, <1>6, RowByRow
  <1>8. QED
    BY <1>2, <1>3, <1>4, <1>7 DEF LInv

LEMMA ListDeadKeeps ==
  ASSUME LInv, ListSoftDeleted
  PROVE  LInv'
  <1> DEFINE ids == {o \in DOMAIN orgs : orgs[o].deleted # Never /\ orgs[o].deleted <= today - Grace}
  <1>1. /\ cleanup' = [NoCleanup EXCEPT !.at = IF ids = {} THEN "list" ELSE "purge", !.ids = ids]
        /\ late' = {row \in late : row.org \notin DOMAIN orgs}
        /\ resaved' = {o \in resaved : Mutating(o)}
        /\ UNCHANGED <<today, orgs, analytics, pending, copying>>
    BY DEF ListSoftDeleted
  <1>2. \A o \in ids : o \in DOMAIN orgs /\ orgs[o].deleted # Never /\ today - orgs[o].deleted >= Grace
    <2>1. SUFFICES ASSUME NEW o \in ids
                   PROVE  today - orgs[o].deleted >= Grace
      OBVIOUS
    <2>2. today \in Int /\ orgs[o].deleted \in Int /\ Grace \in Int
      BY LifecycleAssumption DEF LInv, LifecycleTypes, IsOrg
    <2>3. QED
      BY <2>2
  <1> HIDE DEF ids
  <1>3. cleanup' = [at |-> IF ids = {} THEN "list" ELSE "purge", ids |-> ids, table |-> 1,
                    days |-> <<>>, todo |-> {}]
    BY <1>1 DEF NoCleanup
  <1>4. IsCleanup(cleanup')
    BY <1>3 DEF IsCleanup, Tables
  <1>5. PurgesTheDead'
    BY <1>1, <1>2, <1>3 DEF PurgesTheDead
  <1>6. /\ cleanup'.days = <<>> /\ cleanup'.todo = {} /\ cleanup'.at # "delete"
        /\ cleanup'.table = 1
    BY <1>3
  <1>7. /\ \A row \in late : row \in late' \/ row.org \in DOMAIN orgs
        /\ \A o \in resaved : o \in resaved' \/ ~Mutating(o)
    BY <1>1
  <1>8. QED
    BY <1>1, <1>4, <1>5, <1>6, <1>7, FreshCleanupKeeps

LEMMA EndKeeps ==
  ASSUME LInv, cleanup' = NoCleanup,
         UNCHANGED <<today, orgs, analytics, pending, copying, late, resaved>>
  PROVE  LInv'
  <1>1. IsCleanup(cleanup') /\ PurgesTheDead'
    BY DEF IsCleanup, NoCleanup, Tables, PurgesTheDead
  <1>2. QED
    BY <1>1, FreshCleanupKeeps DEF NoCleanup

\* What mutations are accepted for, where the rest stays.
LEMMA AcceptedKeeps ==
  ASSUME LInv, NEW R \in SUBSET analytics, NEW days,
         pending' = pending \cup {Mutation(row, days) : row \in R},
         UNCHANGED <<today, orgs, analytics, late, resaved>>,
         \A row \in R : row.org \in DOMAIN orgs =>
           IF days = Never THEN orgs[row.org].deleted # Never /\ today - orgs[row.org].deleted >= Grace
           ELSE days = RetentionOf(row.org) \/ row.org \in resaved
  PROVE  /\ MutationsAreDue'
         /\ \A row : Purging(row) => Purging(row)'
         /\ \A row \in R : Mutation(row, days) \in pending' /\ (days = Never => Purging(row)')
  <1>1. \A row \in R : Mutation(row, days) \in pending' /\ Mutation(row, days).row = row
                       /\ Mutation(row, days).days = days
    BY DEF Mutation
  <1>2. \A m \in pending' : m \in pending \/ (m.row \in R /\ m.days = days)
    BY DEF Mutation
  <1>3. \A o : RetentionOf(o)' = RetentionOf(o)
    BY DEF RetentionOf
  <1>4. MutationsAreDue'
    <2>1. SUFFICES ASSUME NEW m \in pending'
                   PROVE  /\ m.row \in analytics
                          /\ m.row.org \in DOMAIN orgs =>
                               IF m.days = Never
                                 THEN orgs[m.row.org].deleted # Never /\ today - orgs[m.row.org].deleted >= Grace
                                 ELSE m.days = RetentionOf(m.row.org) \/ m.row.org \in resaved
      BY <1>3 DEF MutationsAreDue
    <2>2. CASE m \in pending
      BY <2>2 DEF LInv, MutationsAreDue
    <2>3. CASE m.row \in R /\ m.days = days
      BY <2>3
    <2>4. QED
      BY <1>2, <2>2, <2>3
  <1>5. \A row : Purging(row) => Purging(row)'
    BY DEF Purging
  <1>6. \A row \in R : days = Never => Purging(row)'
    BY <1>1 DEF Purging
  <1>7. QED
    BY <1>1, <1>4, <1>5, <1>6

LEMMA PurgeKeeps ==
  ASSUME LInv, PurgeClickHouse
  PROVE  LInv'
  <1> DEFINE R == {row \in analytics : row.org \in cleanup.ids /\ row.table = cleanup.table}
  <1>1. /\ cleanup.at = "purge" /\ UNCHANGED <<today, orgs, analytics, copying, late, resaved>>
        /\ pending' = pending \cup {Mutation(row, Never) : row \in R}
    BY DEF PurgeClickHouse, CleanupAt
  <1>2. cleanup' = [at |-> IF cleanup.table = 2 THEN "delete" ELSE "purge", ids |-> cleanup.ids,
                    table |-> 2, days |-> cleanup.days, todo |-> cleanup.todo]
    BY <1>1 DEF PurgeClickHouse, LInv, LifecycleTypes, IsCleanup
  <1>3. LifecycleTypes'
    BY <1>1, <1>2 DEF LInv, LifecycleTypes, IsCleanup, Tables
  <1>4. PurgesTheDead' /\ ExpiresTheLiving'
    BY <1>1, <1>2 DEF LInv, PurgesTheDead, ExpiresTheLiving, RetentionOf
  <1>5. \A row \in R : orgs[row.org].deleted # Never /\ today - orgs[row.org].deleted >= Grace
    BY <1>1 DEF LInv, PurgesTheDead
  <1>6. R \in SUBSET analytics
    OBVIOUS
  <1>7. \A row \in analytics : row \in R <=> row.org \in cleanup.ids /\ row.table = cleanup.table
    OBVIOUS
  <1> HIDE DEF R
  <1>8. /\ MutationsAreDue' /\ \A row : Purging(row) => Purging(row)'
        /\ \A row \in R : Purging(row)'
    BY <1>1, <1>5, <1>6, AcceptedKeeps
  <1>9. NothingLeftBehind'
    <2>1. cleanup.table \in {1, 2} /\ \A row \in analytics : row.table \in {1, 2}
      BY DEF LInv, LifecycleTypes, IsCleanup, IsCopied, Tables
    <2>2. \A row \in analytics \ late : Purging(row)' \/ row.org \in DOMAIN orgs
      BY <1>8 DEF LInv, NothingLeftBehind
    <2>3. \A row \in analytics \ late : row.org \in cleanup.ids =>
            Purging(row)' \/ (row.table = 2 /\ cleanup.table = 1)
      BY <1>1, <1>7, <1>8, <2>1 DEF LInv, NothingLeftBehind
    <2>4. DOMAIN cleanup'.days = {}
      BY <1>1, <1>2, NoDays
    <2>5. QED
      BY <1>1, <1>2, <2>2, <2>3, <2>4, RowByRow
  <1>10. QED
    BY <1>3, <1>4, <1>8, <1>9 DEF LInv

\* The organizations that go have nothing left in ClickHouse that is not to be removed.
LEMMA DeleteKeeps ==
  ASSUME LInv, DeleteOrganizations
  PROVE  LInv'
  <1>1. CASE cleanup' = NoCleanup /\ UNCHANGED orgs
    BY <1>1, EndKeeps DEF DeleteOrganizations
  <1>2. CASE /\ orgs' = Restrict(orgs, DOMAIN orgs \ cleanup.ids)
             /\ cleanup' = [cleanup EXCEPT !.at = "list"]
    <2>1. cleanup.at = "delete" /\ UNCHANGED <<today, analytics, pending, copying, late, resaved>>
      BY DEF DeleteOrganizations, CleanupAt
    <2>2. /\ DOMAIN orgs' = DOMAIN orgs \ cleanup.ids
          /\ orgs' = [o \in DOMAIN orgs' |-> orgs'[o]] /\ \A o \in DOMAIN orgs' : orgs'[o] = orgs[o]
      BY <1>2 DEF Restrict
    <2>3. cleanup' = [at |-> "list", ids |-> cleanup.ids, table |-> cleanup.table,
                      days |-> cleanup.days, todo |-> cleanup.todo]
      BY <1>2 DEF LInv, LifecycleTypes, IsCleanup
    <2>4. DOMAIN cleanup.days = {} /\ cleanup.days = <<>>
      BY <2>1, NoDays DEF LInv, ExpiresTheLiving
    <2>5. LifecycleTypes'
      BY <2>1, <2>2, <2>3 DEF LInv, LifecycleTypes, IsCleanup
    <2>6. PurgesTheDead' /\ ExpiresTheLiving'
      BY <2>3, <2>4 DEF LInv, PurgesTheDead, ExpiresTheLiving
    <2>7. MutationsAreDue'
      BY <2>1, <2>2 DEF LInv, MutationsAreDue, RetentionOf
    <2>8. \A row \in analytics \ late :
            Purging(row) \/ (row.org \in DOMAIN orgs /\ row.org \notin cleanup.ids)
      BY <2>1 DEF LInv, NothingLeftBehind
    <2>9. \A row : Purging(row)' <=> Purging(row)
      BY <2>1 DEF Purging
    <2>10. NothingLeftBehind'
      BY <2>1, <2>2, <2>3, <2>4, <2>8, <2>9, RowByRow
    <2>11. QED
      BY <2>5, <2>6, <2>7, <2>10 DEF LInv
  <1>3. QED
    BY <1>1, <1>2 DEF DeleteOrganizations

LEMMA ListLivingKeeps ==
  ASSUME LInv, ListRetentions
  PROVE  LInv'
  <1> DEFINE live == {o \in DOMAIN orgs : orgs[o].deleted = Never}
  <1>1. UNCHANGED <<today, orgs, analytics, pending, copying, late, resaved>>
    BY DEF ListRetentions
  <1>2. CASE live = {}
    BY <1>1, <1>2, EndKeeps DEF ListRetentions
  <1>3. CASE live # {}
    <2>1. cleanup' = [cleanup EXCEPT !.at = "expire", !.days = [o \in live |-> RetentionOf(o)],
                                     !.todo = live \X Tables]
      BY <1>3 DEF ListRetentions
    <2>2. live \subseteq DOMAIN orgs
      OBVIOUS
    <2> HIDE DEF live
    <2>3. cleanup' = [at |-> "expire", ids |-> cleanup.ids, table |-> cleanup.table,
                      days |-> [o \in live |-> RetentionOf(o)], todo |-> live \X Tables]
      BY <2>1 DEF LInv, LifecycleTypes, IsCleanup
    <2>4. LifecycleTypes'
      BY <1>1, <2>3 DEF LInv, LifecycleTypes, IsCleanup
    <2>5. PurgesTheDead'
      BY <2>3 DEF PurgesTheDead
    <2>6. \A o : RetentionOf(o)' = RetentionOf(o)
      BY <1>1 DEF RetentionOf
    <2>7. ExpiresTheLiving'
      BY <1>1, <2>2, <2>3, <2>6, RetentionIsInt DEF ExpiresTheLiving
    <2>8. \A row \in analytics : row.table \in Tables
      BY DEF LInv, LifecycleTypes, IsCopied
    <2>9. MutationsAreDue'
      BY <1>1, <2>6 DEF LInv, MutationsAreDue
    <2>10. \A row \in analytics \ late : Purging(row)' \/ row.org \in DOMAIN orgs
      BY <1>1 DEF LInv, NothingLeftBehind, Purging
    <2>11. NothingLeftBehind'
      BY <1>1, <2>3, <2>8, <2>10, RowByRow
    <2>12. QED
      BY <2>4, <2>5, <2>7, <2>9, <2>11 DEF LInv
  <1>4. QED
    BY <1>2, <1>3

LEMMA ExpireKeeps ==
  ASSUME LInv, NEW o \in Orgs, NEW t \in Tables, ExpireRawData(o, t)
  PROVE  LInv'
  <1> DEFINE todo == cleanup.todo \ {<<o, t>>}
             R == {row \in analytics : row.org = o /\ row.table = t}
  <1>1. /\ cleanup.at = "expire" /\ <<o, t>> \in cleanup.todo
        /\ UNCHANGED <<today, orgs, analytics, copying, late, resaved>>
        /\ pending' = pending \cup {Mutation(row, cleanup.days[o]) : row \in R}
        /\ cleanup' = IF todo = {} THEN NoCleanup ELSE [cleanup EXCEPT !.todo = todo]
    BY DEF ExpireRawData, CleanupAt
  <1>2. /\ o \in DOMAIN cleanup.days /\ o \in DOMAIN orgs /\ cleanup.days[o] # Never
        /\ cleanup.days[o] = RetentionOf(o) \/ o \in resaved
    BY <1>1 DEF LInv, ExpiresTheLiving
  <1>3. \A p : RetentionOf(p)' = RetentionOf(p)
    BY <1>1 DEF RetentionOf
  <1>4. R \in SUBSET analytics /\ \A row \in R : row.org = o
    OBVIOUS
  <1>5. \A row \in analytics : row.org = o /\ row.table = t => row \in R
    OBVIOUS
  <1> HIDE DEF R
  <1>6. /\ MutationsAreDue' /\ \A row : Purging(row) => Purging(row)'
        /\ \A row \in R : Mutation(row, cleanup.days[o]) \in pending'
    BY <1>1, <1>2, <1>4, AcceptedKeeps
  <1>7. \A row \in analytics \ late : Purging(row)' \/ row.org \in DOMAIN orgs
    BY <1>6 DEF LInv, NothingLeftBehind
  <1>8. CASE todo = {}
    <2>1. cleanup' = NoCleanup
      BY <1>1, <1>8
    <2>2. IsCleanup(cleanup') /\ PurgesTheDead'
      BY <2>1 DEF IsCleanup, NoCleanup, Tables, PurgesTheDead
    <2>3. cleanup'.at = "idle" /\ cleanup'.days = <<>> /\ cleanup'.todo = {}
      BY <2>1 DEF NoCleanup
    <2>4. LifecycleTypes'
      BY <1>1, <2>2 DEF LInv, LifecycleTypes
    <2>5. DOMAIN cleanup'.days = {}
      BY <2>3
    <2>6. ExpiresTheLiving'
      BY <2>3, <2>5 DEF ExpiresTheLiving
    <2>7. NothingLeftBehind'
      BY <1>1, <1>7, <2>3, <2>5, RowByRow
    <2>8. QED
      BY <1>6, <2>2, <2>4, <2>6, <2>7 DEF LInv
  <1>9. CASE todo # {}
    <2>1. cleanup' = [at |-> "expire", ids |-> cleanup.ids, table |-> cleanup.table,
                      days |-> cleanup.days, todo |-> todo]
      BY <1>1, <1>9 DEF LInv, LifecycleTypes, IsCleanup
    <2>2. LifecycleTypes' /\ PurgesTheDead'
      <3>1. IsCleanup(cleanup')
        BY <2>1 DEF LInv, LifecycleTypes, IsCleanup
      <3>2. LifecycleTypes'
        BY <1>1, <3>1 DEF LInv, LifecycleTypes
      <3>3. PurgesTheDead'
        BY <2>1 DEF PurgesTheDead
      <3>4. QED
        BY <3>2, <3>3
    <2>3. ExpiresTheLiving'
      BY <1>1, <1>3, <2>1 DEF LInv, ExpiresTheLiving
    <2>4. ASSUME NEW row \in analytics \ late, row.org \in DOMAIN cleanup.days,
                 <<row.org, row.table>> \notin todo
          PROVE  row.synced >= today - RetentionOf(row.org) \/ row.org \in resaved \/ Expiring(row)'
      <3>1. CASE row.org = o /\ row.table = t
        BY <1>5, <1>6, <2>1, <3>1 DEF Expiring, Mutation
      <3>2. CASE ~(row.org = o /\ row.table = t)
        <4>1. <<row.org, row.table>> \notin cleanup.todo
          BY <2>4, <3>2
        <4>2. Expiring(row) => Expiring(row)'
          BY <1>1, <2>1 DEF Expiring, Mutation
        <4>3. QED
          BY <2>4, <4>1, <4>2 DEF LInv, NothingLeftBehind
      <3>3. QED
        BY <3>1, <3>2
    <2>5. NothingLeftBehind'
      <3>1. /\ cleanup'.at = "expire" /\ cleanup'.days = cleanup.days /\ cleanup'.todo = todo
        BY <2>1
      <3>2. QED
        BY <1>1, <1>3, <1>7, <2>4, <3>1, RowByRow
    <2>6. QED
      BY <1>6, <2>2, <2>3, <2>5 DEF LInv
  <1>10. QED
    BY <1>8, <1>9

-----------------------------------------------------------------------------
(* The theorem.                                                               *)

LEMMA LifecycleStep ==
  ASSUME LInv, [LifecycleNext]_lifecycleVars
  PROVE  LInv' /\ RemovesWhatIsDue
  <1>1. CASE UNCHANGED lifecycleVars
    <2>1. UNCHANGED <<today, orgs, analytics, pending, copying, cleanup, late, resaved>>
      BY <1>1 DEF lifecycleVars
    <2>2. /\ LifecycleTypes' /\ MutationsAreDue' /\ PurgesTheDead' /\ ExpiresTheLiving'
          /\ RemovesWhatIsDue
      BY <2>1 DEF LInv, LifecycleTypes, MutationsAreDue, PurgesTheDead, ExpiresTheLiving,
                  RetentionOf, RemovesWhatIsDue
    <2>3. NothingLeftBehind'
      BY <2>1 DEF LInv, NothingLeftBehind, RetentionOf, Purging, Expiring, Mutation
    <2>4. QED
      BY <2>2, <2>3 DEF LInv
  <1>2. CASE DayPasses \/ ListSoftDeleted \/ PurgeClickHouse \/ DeleteOrganizations
             \/ ListRetentions \/ CleanupFails
    <2>1. analytics' = analytics
      BY <1>2 DEF DayPasses, ListSoftDeleted, PurgeClickHouse, DeleteOrganizations,
                  ListRetentions, CleanupFails
    <2>2. LInv'
      BY <1>2, DayKeeps, ListDeadKeeps, PurgeKeeps, DeleteKeeps, ListLivingKeeps, EndKeeps
         DEF CleanupFails
    <2>3. QED
      BY <2>1, <2>2 DEF RemovesWhatIsDue
  <1>3. CASE ApplyMutation
    BY <1>3, ApplyKeeps
  <1>4. ASSUME NEW o \in Orgs,
               \/ SoftDelete(o) \/ SaveRetention(o) \/ ReadForAnalytics(o) \/ InsertAnalytics(o)
               \/ \E t \in Tables : ExpireRawData(o, t)
        PROVE  LInv' /\ RemovesWhatIsDue
    <2>1. analytics \subseteq analytics'
      BY <1>4 DEF SoftDelete, SaveRetention, ReadForAnalytics, InsertAnalytics, ExpireRawData
    <2>2. LInv'
      BY <1>4, SoftDeleteKeeps, SaveRetentionKeeps, CopyKeeps, InsertKeeps, ExpireKeeps
    <2>3. QED
      BY <2>1, <2>2 DEF RemovesWhatIsDue
  <1>5. QED
    BY <1>1, <1>2, <1>3, <1>4 DEF LifecycleNext

\* The other parts leave the organizations alone.
LEMMA LifecyclePart == [Next]_vars => [LifecycleNext]_lifecycleVars
  BY DEF Next, vars

LEMMA LifecycleStart == Init => LInv
  BY DEF Init, LifecycleInit, LInv, LifecycleTypes, MutationsAreDue, PurgesTheDead,
         ExpiresTheLiving, NothingLeftBehind, NoCleanup, IsCleanup, IsOrg, Tables, Never

\* Wherever datacleanup ends and begins again and whenever ClickHouse applies the mutations
\* it accepted (datalifecycle, without mutations_sync), for however many organizations: one
\* is gone from PostgreSQL only after ClickHouse accepted to remove all of its analytics, and
\* nothing is removed of one that is neither deleted long enough nor older than it wants.
THEOREM RemovedEverywhere == Spec => PurgedEverywhere
  <1>1. LInv /\ [Next]_vars => LInv' /\ [PurgesWhatIsDue]_lifecycleVars
    <2>1. LInv /\ [Next]_vars => LInv' /\ RemovesWhatIsDue
      BY LifecyclePart, LifecycleStep
    <2>2. LInv' /\ RemovesWhatIsDue => PurgesWhatIsDue
      BY DEF LInv, NothingLeftBehind, RemovesWhatIsDue, PurgesWhatIsDue
    <2>3. QED
      BY <2>1, <2>2
  <1>2. QED
    BY <1>1, LifecycleStart, PTL DEF Spec, PurgedEverywhere

(***************************************************************************)
(* GithubClient.                                                             *)
(***************************************************************************)

-----------------------------------------------------------------------------
(* The inductive invariant.                                                   *)

IsCall(K) ==
  /\ K = [at |-> K.at, listing |-> K.listing, attempt |-> K.attempt, token |-> K.token,
          taken |-> K.taken, wake |-> K.wake, until |-> K.until]
  /\ K.at \in {"next", "send", "sleep", "throttled", "end"} /\ K.listing \in BOOLEAN
  /\ K.attempt \in 0 .. MaxRetries /\ {K.token, K.taken, K.wake, K.until} \subseteq Int

CallTypes ==
  /\ clock \in Nat /\ tokenCache \in Int
  /\ quota = [left |-> quota.left, reset |-> quota.reset] /\ quota.left \in Nat /\ quota.reset \in Int
  /\ call = [c \in Callers |-> call[c]] /\ \A c \in Callers : IsCall(call[c])

\* The token of a call had more than the margin left when it was taken, and a retry has it.
GoodWhenTaken(K) ==
  TokenLife > Margin /\ K.at \in {"send", "sleep"} => K.token - K.taken > Margin

\* Who sleeps wakes no earlier than GitHub said, and has a retry left.
SleepsLongEnough(K, now) ==
  /\ K.at = "sleep" => K.wake >= K.until /\ K.attempt < MaxRetries
  /\ K.at = "send" => now >= K.until

\* The calls GitHub may still count of a sync before a listing throttles it, when what is
\* left of the quota until the reset is little: one listing, with all its attempts, and the
\* detail that may come before it.
Rounds == MaxRetries + 1
Still(K, reset) ==
  CASE K.at = "next"  -> IF K.listing THEN 2 * Rounds ELSE Rounds
    [] K.at = "send"  -> IF K.listing THEN Rounds - K.attempt ELSE 2 * Rounds - K.attempt
    [] K.at = "sleep" -> IF K.listing THEN MaxRetries - K.attempt ELSE MaxRetries + Rounds - K.attempt
    [] K.at = "throttled" -> IF K.wake >= reset THEN 0 ELSE 2 * Rounds
    [] OTHER -> 0

\* All these calls, each by its sync and a number of its own.
CallsLeft(calls, reset) ==
  {p \in Callers \X (1 .. 2 * Rounds) : p[2] <= Still(calls[p[1]], reset)}
Most == 2 * Rounds * Cardinality(Callers)
AmpleQuota == MinRemaining >= Most /\ Quota >= Most

\* What is left is enough for them, from when it is little on.
QuotaLasts ==
  AmpleQuota =>
    /\ "exhausted" \notin refusals
    /\ clock < quota.reset /\ quota.left <= MinRemaining =>
         Cardinality(CallsLeft(call, quota.reset)) <= quota.left

CallInv ==
  /\ CallTypes
  /\ \A c \in Callers : GoodWhenTaken(call[c]) /\ SleepsLongEnough(call[c], clock)
  /\ QuotaLasts

-----------------------------------------------------------------------------
(* Counting the calls that may still come.                                    *)

LEMMA MostAreNat == Most \in Nat /\ Rounds \in Nat \ {0} /\ Cardinality(Callers) \in Nat
  <1>1. Cardinality(Callers) \in Nat
    BY GithubClientAssumption, FS_CardinalityType
  <1>2. Rounds \in Nat \ {0}
    BY GithubClientAssumption DEF Rounds
  <1>3. \A m, n \in Nat : 2 * m * n \in Nat
    OBVIOUS
  <1>4. QED
    BY <1>1, <1>2, <1>3 DEF Most

LEMMA StillBounded ==
  ASSUME NEW K, IsCall(K), NEW reset \in Int
  PROVE  Still(K, reset) \in 0 .. 2 * Rounds
  BY GithubClientAssumption DEF IsCall, Still, Rounds

LEMMA AllCalls ==
  /\ IsFiniteSet(Callers \X (1 .. 2 * Rounds))
  /\ Cardinality(Callers \X (1 .. 2 * Rounds)) = Most
  <1>1. IsFiniteSet(1 .. 2 * Rounds) /\ Cardinality(1 .. 2 * Rounds) = 2 * Rounds
    BY MostAreNat, FS_Interval
  <1>2. /\ IsFiniteSet(Callers \X (1 .. 2 * Rounds))
        /\ Cardinality(Callers \X (1 .. 2 * Rounds)) = Cardinality(Callers) * (2 * Rounds)
    BY <1>1, FS_Product, GithubClientAssumption
  <1>3. QED
    BY <1>2, MostAreNat DEF Most

LEMMA CallsLeftFinite ==
  ASSUME NEW calls, NEW reset
  PROVE  /\ IsFiniteSet(CallsLeft(calls, reset)) /\ Cardinality(CallsLeft(calls, reset)) \in Nat
         /\ Cardinality(CallsLeft(calls, reset)) <= Most
  <1>1. CallsLeft(calls, reset) \subseteq Callers \X (1 .. 2 * Rounds)
    BY DEF CallsLeft
  <1>2. QED
    BY <1>1, AllCalls, FS_Subset, FS_CardinalityType

\* Syncs of which none may call more than before.
LEMMA NoMoreLeft ==
  ASSUME NEW f, NEW g, NEW r, NEW s,
         \A c \in Callers : /\ Still(f[c], r) \in Int /\ Still(g[c], s) \in Int
                            /\ Still(g[c], s) <= Still(f[c], r)
  PROVE  Cardinality(CallsLeft(g, s)) <= Cardinality(CallsLeft(f, r))
  <1>1. CallsLeft(g, s) \subseteq CallsLeft(f, r)
    BY DEF CallsLeft
  <1>2. QED
    BY <1>1, CallsLeftFinite, FS_Subset

\* And one of which has called.
LEMMA OneFewerLeft ==
  ASSUME NEW f, NEW g, NEW r, NEW s, NEW c \in Callers,
         \A d \in Callers : /\ Still(f[d], r) \in 0 .. 2 * Rounds /\ Still(g[d], s) \in 0 .. 2 * Rounds
                            /\ Still(g[d], s) <= Still(f[d], r),
         Still(g[c], s) < Still(f[c], r)
  PROVE  Cardinality(CallsLeft(g, s)) <= Cardinality(CallsLeft(f, r)) - 1
  <1> DEFINE p == <<c, Still(f[c], r)>>  C == CallsLeft(f, r)
  <1>1. Still(f[c], r) \in 1 .. 2 * Rounds
    BY MostAreNat
  <1>2. p \in C /\ p \notin CallsLeft(g, s)
    BY <1>1 DEF CallsLeft
  <1>3. CallsLeft(g, s) \subseteq C
    BY DEF CallsLeft
  <1>4. IsFiniteSet(C) /\ Cardinality(C) \in Nat /\ Cardinality(CallsLeft(g, s)) \in Nat
    BY CallsLeftFinite
  <1> HIDE DEF p, C
  <1>5. IsFiniteSet(C \ {p}) /\ Cardinality(C \ {p}) = Cardinality(C) - 1
    BY <1>2, <1>4, FS_RemoveElement
  <1>6. Cardinality(CallsLeft(g, s)) <= Cardinality(C \ {p})
    BY <1>2, <1>3, <1>5, FS_Subset
  <1>7. QED
    BY <1>4, <1>5, <1>6 DEF C

\* Whatever the others may do, one that has called may not make all of its calls.
LEMMA FewerThanMost ==
  ASSUME NEW g, NEW s, NEW c \in Callers, Still(g[c], s) \in Int, Still(g[c], s) < 2 * Rounds
  PROVE  Cardinality(CallsLeft(g, s)) <= Most - 1
  <1> DEFINE p == <<c, 2 * Rounds>>  C == Callers \X (1 .. 2 * Rounds)
  <1>1. 2 * Rounds \in 1 .. 2 * Rounds
    BY MostAreNat
  <1>2. p \in C /\ p \notin CallsLeft(g, s)
    BY <1>1 DEF CallsLeft
  <1>3. CallsLeft(g, s) \subseteq C
    BY DEF CallsLeft
  <1>4. IsFiniteSet(C) /\ Cardinality(C) = Most /\ Cardinality(CallsLeft(g, s)) \in Nat
    BY AllCalls, CallsLeftFinite
  <1> HIDE DEF p, C
  <1>5. IsFiniteSet(C \ {p}) /\ Cardinality(C \ {p}) = Most - 1
    BY <1>2, <1>4, FS_RemoveElement
  <1>6. QED
    BY <1>2, <1>3, <1>5, FS_Subset

-----------------------------------------------------------------------------
(* One attempt.                                                               *)

\* What an attempt leaves of the quota when GitHub counts it.
Spent == IF clock >= quota.reset THEN [left |-> Quota - 1, reset |-> clock + Window]
         ELSE [quota EXCEPT !.left = Max({0, @ - 1})]

LEMMA MaxWithZero ==
  ASSUME NEW n \in Int
  PROVE  Max({0, n}) = IF n > 0 THEN n ELSE 0
  BY DEF Max

LEMMA SpentTypes ==
  ASSUME CallTypes
  PROVE  /\ Spent = [left |-> Spent.left, reset |-> Spent.reset]
         /\ Spent.left \in Nat /\ Spent.reset \in Int
         /\ clock < quota.reset => /\ Spent.reset = quota.reset
                                   /\ Spent.left = IF quota.left = 0 THEN 0 ELSE quota.left - 1
         /\ clock >= quota.reset => Spent.left = Quota - 1
  <1>1. CASE clock >= quota.reset
    BY <1>1, GithubClientAssumption DEF CallTypes, Spent
  <1>2. CASE clock < quota.reset
    <2>1. Max({0, quota.left - 1}) = IF quota.left = 0 THEN 0 ELSE quota.left - 1
      BY MaxWithZero DEF CallTypes
    <2>2. Spent = [left |-> Max({0, quota.left - 1}), reset |-> quota.reset]
      BY <1>2 DEF CallTypes, Spent
    <2>3. QED
      BY <1>2, <2>1, <2>2 DEF CallTypes
  <1>3. QED
    BY <1>1, <1>2 DEF CallTypes

LEMMA BackoffIsNat ==
  ASSUME NEW n \in 0 .. MaxRetries
  PROVE  BackoffDuration(n) \in Nat
  <1>1. 2^n \in Nat /\ InitialBackoff \in Nat /\ MaxBackoff \in Nat
    BY DoublingAssumption, GithubClientAssumption
  <1>2. InitialBackoff * 2^n \in Nat
    BY <1>1
  <1> DEFINE d == InitialBackoff * 2^n
  <1>3. BackoffDuration(n) = Min({d, MaxBackoff})
    BY DEF BackoffDuration
  <1> HIDE DEF d
  <1>4. d \in Nat
    BY <1>2 DEF d
  <1>5. Min({d, MaxBackoff}) \in {d, MaxBackoff}
    BY <1>1, <1>4 DEF Min
  <1>6. QED
    BY <1>1, <1>3, <1>4, <1>5

\* What becomes of a call that was attempted: it ends, sleeps at least as long as GitHub
\* said, waits for the reset or is answered.
Slept(c) ==
  \E wake, until \in Int :
    /\ wake >= until /\ call[c].attempt < MaxRetries
    /\ call' = [call EXCEPT ![c].at = "sleep", ![c].wake = wake, ![c].until = until]
Throttles(c) ==
  /\ call[c].listing /\ quota' = Spent
  /\ call' = [call EXCEPT ![c].at = "throttled", ![c].wake = Spent.reset, ![c].until = Spent.reset]
Answered(c) ==
  /\ call' = [call EXCEPT ![c].at = "next"] /\ quota' = Spent
  /\ call[c].listing => ~Throttled(Spent.left)

LEMMA RetrySleeps ==
  ASSUME CallTypes, NEW c \in Callers, NEW delay \in Int, NEW until \in Int,
         clock + delay >= until, RetryOrEnd(c, delay, until)
  PROVE  Ends(c) \/ Slept(c)
  <1>1. CASE call[c].attempt < MaxRetries
    <2>1. clock + delay \in Int
      BY DEF CallTypes
    <2>2. QED
      BY <1>1, <2>1 DEF RetryOrEnd, Sleeps, Slept
  <1>2. CASE ~(call[c].attempt < MaxRetries)
    BY <1>2 DEF RetryOrEnd
  <1>3. QED
    BY <1>1, <1>2

LEMMA AttemptSteps ==
  ASSUME CallTypes, NEW c \in Callers, Attempt(c)
  PROVE  /\ call[c].at = "send" /\ UNCHANGED <<clock, tokenCache>>
         /\ quota' \in {quota, Spent}
         /\ \/ /\ clock < quota.reset /\ quota.left = 0
            \/ "exhausted" \in refusals' => "exhausted" \in refusals
         /\ Ends(c) \/ Slept(c) \/ Throttles(c) \/ Answered(c)
  <1> DEFINE backoff == BackoffDuration(call[c].attempt)
  <1>1. /\ call[c].attempt \in 0 .. MaxRetries /\ clock \in Int /\ Spent.reset \in Int
        /\ backoff \in Nat
    BY SpentTypes, BackoffIsNat DEF CallTypes, IsCall
  <1>2. /\ call[c].at = "send" /\ UNCHANGED <<clock, tokenCache>>
        /\ quota' \in {quota, Spent}
        /\ \/ clock < quota.reset /\ quota.left = 0
           \/ "exhausted" \in refusals' => "exhausted" \in refusals
    BY DEF Attempt, Spent
  <1>3. \/ RetryOrEnd(c, RetryDelay(0, Spent.reset, backoff), Spent.reset)
        \/ Ends(c) \/ RetryOrEnd(c, backoff, clock)
        \/ \E after \in {0, 2}, reset \in {0, Spent.reset} :
             RetryOrEnd(c, RetryDelay(after, reset, backoff), clock + after)
        \/ Throttles(c) \/ Answered(c)
    BY DEF Attempt, Spent, Throttles, Answered
  <1> HIDE DEF backoff
  <1>4. CASE RetryOrEnd(c, RetryDelay(0, Spent.reset, backoff), Spent.reset)
    <2>1. /\ RetryDelay(0, Spent.reset, backoff) \in Int
          /\ clock + RetryDelay(0, Spent.reset, backoff) >= Spent.reset
      BY <1>1 DEF RetryDelay
    <2>2. QED
      BY <1>1, <1>2, <1>4, <2>1, RetrySleeps
  <1>5. CASE RetryOrEnd(c, backoff, clock)
    BY <1>1, <1>2, <1>5, RetrySleeps
  <1>6. ASSUME NEW after \in {0, 2}, NEW reset \in {0, Spent.reset},
               RetryOrEnd(c, RetryDelay(after, reset, backoff), clock + after)
        PROVE  Ends(c) \/ Slept(c)
    <2>1. /\ RetryDelay(after, reset, backoff) \in Int
          /\ clock + RetryDelay(after, reset, backoff) >= clock + after
      BY <1>1 DEF RetryDelay
    <2>2. clock + after \in Int
      BY <1>1
    <2>3. QED
      BY <1>6, <2>1, <2>2, RetrySleeps
  <1>7. QED
    BY <1>2, <1>3, <1>4, <1>5, <1>6

\* An attempt changes the call that is made, which keeps its type, its token and its wait,
\* and has one attempt fewer to make unless a listing was answered while much was left.
LEMMA AttemptCounts ==
  ASSUME CallInv, NEW c \in Callers, Attempt(c)
  PROVE  /\ call' = [d \in Callers |-> call'[d]] /\ \A d \in Callers \ {c} : call'[d] = call[d]
         /\ IsCall(call'[c]) /\ GoodWhenTaken(call'[c]) /\ SleepsLongEnough(call'[c], clock)
         /\ \/ Still(call'[c], quota'.reset) < Still(call[c], quota.reset)
            \/ quota' = Spent /\ (MinRemaining > 0 => Spent.left > MinRemaining)
  <1> DEFINE K == call[c]
  <1>1. /\ K.at = "send" /\ IsCall(K) /\ Spent.reset \in Int /\ quota'.reset \in Int /\ Spent.left \in Nat
        /\ Ends(c) \/ Slept(c) \/ Throttles(c) \/ Answered(c)
    BY AttemptSteps, SpentTypes DEF CallInv, CallTypes
  <1>2. K.token - K.taken > Margin \/ ~(TokenLife > Margin)
    BY <1>1 DEF CallInv, GoodWhenTaken
  <1>3. Still(K, quota.reset) = IF K.listing THEN Rounds - K.attempt ELSE 2 * Rounds - K.attempt
    BY <1>1 DEF Still
  <1>4. call = [d \in Callers |-> call[d]]
    BY DEF CallInv, CallTypes
  <1>5. CASE Ends(c)
    <2>1. call'[c] = [NoCall EXCEPT !.at = "end"] /\ \A d \in Callers \ {c} : call'[d] = call[d]
      BY <1>4, <1>5 DEF Ends
    <2>2. call' = [d \in Callers |-> call'[d]]
      BY <1>4, <1>5 DEF Ends
    <2>3. IsCall(call'[c]) /\ call'[c].at = "end"
      <3>1. call'[c] = [at |-> "end", listing |-> TRUE, attempt |-> 0, token |-> 0, taken |-> 0,
                        wake |-> 0, until |-> 0]
        BY <2>1 DEF NoCall
      <3>2. 0 \in 0 .. MaxRetries
        BY GithubClientAssumption
      <3>3. QED
        BY <3>1, <3>2 DEF IsCall
    <2>4. Still(call'[c], quota'.reset) = 0
      BY <2>3 DEF Still
    <2>5. Still(K, quota.reset) > 0
      BY <1>1, <1>3, GithubClientAssumption DEF IsCall, Rounds
    <2>6. QED
      BY <2>1, <2>2, <2>3, <2>4, <2>5 DEF GoodWhenTaken, SleepsLongEnough
  <1>6. CASE Slept(c)
    <2>1. PICK wake, until \in Int :
            /\ wake >= until /\ K.attempt < MaxRetries
            /\ call' = [call EXCEPT ![c].at = "sleep", ![c].wake = wake, ![c].until = until]
      BY <1>6 DEF Slept
    <2>2. /\ call' = [d \in Callers |-> call'[d]] /\ \A d \in Callers \ {c} : call'[d] = call[d]
          /\ call'[c] = [K EXCEPT !.at = "sleep", !.wake = wake, !.until = until]
      BY <1>4, <2>1
    <2>3. call'[c] = [at |-> "sleep", listing |-> K.listing, attempt |-> K.attempt,
                      token |-> K.token, taken |-> K.taken, wake |-> wake, until |-> until]
      BY <1>1, <2>2 DEF IsCall
    <2>4. IsCall(call'[c])
      BY <1>1, <2>3 DEF IsCall
    <2>5. GoodWhenTaken(call'[c]) /\ SleepsLongEnough(call'[c], clock)
      BY <1>2, <2>1, <2>3 DEF GoodWhenTaken, SleepsLongEnough
    <2>6. Still(call'[c], quota'.reset) =
            IF K.listing THEN MaxRetries - K.attempt ELSE MaxRetries + Rounds - K.attempt
      BY <2>3 DEF Still
    <2>7. Still(call'[c], quota'.reset) < Still(K, quota.reset)
      BY <1>1, <1>3, <2>6, GithubClientAssumption DEF IsCall, Rounds
    <2>8. QED
      BY <2>2, <2>4, <2>5, <2>7
  <1>7. CASE Throttles(c)
    <2>1. /\ call' = [d \in Callers |-> call'[d]] /\ \A d \in Callers \ {c} : call'[d] = call[d]
          /\ call'[c] = [K EXCEPT !.at = "throttled", !.wake = Spent.reset, !.until = Spent.reset]
      BY <1>4, <1>7 DEF Throttles
    <2>2. call'[c] = [at |-> "throttled", listing |-> K.listing, attempt |-> K.attempt,
                      token |-> K.token, taken |-> K.taken, wake |-> Spent.reset,
                      until |-> Spent.reset]
      BY <1>1, <2>1 DEF IsCall
    <2>3. IsCall(call'[c])
      BY <1>1, <2>2 DEF IsCall
    <2>4. Still(call'[c], quota'.reset) = 0
      BY <1>1, <1>7, <2>2 DEF Still, Throttles
    <2>5. Still(K, quota.reset) > 0
      BY <1>1, <1>3, GithubClientAssumption DEF IsCall, Rounds
    <2>6. QED
      BY <2>1, <2>2, <2>3, <2>4, <2>5 DEF GoodWhenTaken, SleepsLongEnough
  <1>8. CASE Answered(c)
    <2>1. /\ call' = [d \in Callers |-> call'[d]] /\ \A d \in Callers \ {c} : call'[d] = call[d]
          /\ call'[c] = [K EXCEPT !.at = "next"]
      BY <1>4, <1>8 DEF Answered
    <2>2. call'[c] = [at |-> "next", listing |-> K.listing, attempt |-> K.attempt,
                      token |-> K.token, taken |-> K.taken, wake |-> K.wake, until |-> K.until]
      BY <1>1, <2>1 DEF IsCall
    <2>3. IsCall(call'[c])
      BY <1>1, <2>2 DEF IsCall
    <2>4. CASE K.listing
      <3>1. MinRemaining > 0 => Spent.left > MinRemaining
        BY <1>1, <1>8, <2>4, GithubClientAssumption DEF Answered, Throttled
      <3>2. QED
        BY <1>8, <2>1, <2>2, <2>3, <3>1 DEF Answered, GoodWhenTaken, SleepsLongEnough
    <2>5. CASE ~K.listing
      <3>1. Still(call'[c], quota'.reset) = Rounds
        BY <2>2, <2>5 DEF Still
      <3>2. Rounds < Still(K, quota.reset)
        BY <1>1, <1>3, <2>5, GithubClientAssumption DEF IsCall, Rounds
      <3>3. QED
        BY <2>1, <2>2, <2>3, <3>1, <3>2 DEF GoodWhenTaken, SleepsLongEnough
    <2>6. QED
      BY <2>4, <2>5
  <1>9. QED
    BY <1>1, <1>5, <1>6, <1>7, <1>8

LEMMA AttemptKeeps ==
  ASSUME CallInv, NEW c \in Callers, Attempt(c)
  PROVE  CallInv'
  <1>1. /\ call[c].at = "send" /\ UNCHANGED <<clock, tokenCache>> /\ quota' \in {quota, Spent}
        /\ \/ clock < quota.reset /\ quota.left = 0
           \/ "exhausted" \in refusals' => "exhausted" \in refusals
    BY AttemptSteps DEF CallInv
  <1>2. /\ call' = [d \in Callers |-> call'[d]] /\ \A d \in Callers \ {c} : call'[d] = call[d]
        /\ IsCall(call'[c]) /\ GoodWhenTaken(call'[c]) /\ SleepsLongEnough(call'[c], clock)
        /\ \/ Still(call'[c], quota'.reset) < Still(call[c], quota.reset)
           \/ quota' = Spent /\ (MinRemaining > 0 => Spent.left > MinRemaining)
    BY AttemptCounts
  <1>3. /\ quota' = [left |-> quota'.left, reset |-> quota'.reset]
        /\ quota'.left \in Nat /\ quota'.reset \in Int
    BY <1>1, SpentTypes DEF CallInv, CallTypes
  <1>4. \A d \in Callers : IsCall(call[d]) /\ IsCall(call'[d])
    BY <1>2 DEF CallInv, CallTypes
  <1>5. CallTypes'
    BY <1>1, <1>2, <1>3, <1>4 DEF CallInv, CallTypes
  <1>6. \A d \in Callers : GoodWhenTaken(call'[d]) /\ SleepsLongEnough(call'[d], clock')
    BY <1>1, <1>2 DEF CallInv
  <1>7. ASSUME AmpleQuota
        PROVE  /\ "exhausted" \notin refusals'
               /\ clock' < quota'.reset /\ quota'.left <= MinRemaining =>
                    Cardinality(CallsLeft(call', quota'.reset)) <= quota'.left
    <2> DEFINE before == Cardinality(CallsLeft(call, quota.reset))
               after == Cardinality(CallsLeft(call', quota'.reset))
    <2>1. /\ clock \in Nat /\ quota.left \in Nat /\ quota.reset \in Int /\ MinRemaining \in Nat
          /\ Most \in Nat /\ Most <= MinRemaining /\ Most <= Quota /\ Quota \in Nat
      BY <1>7, MostAreNat, GithubClientAssumption DEF CallInv, CallTypes, AmpleQuota
    <2>2. before \in Nat /\ after \in Nat /\ after <= Most
      BY CallsLeftFinite
    <2>3. clock < quota.reset /\ quota.left <= MinRemaining => before <= quota.left
      BY <1>7 DEF CallInv, QuotaLasts
    <2>4. \A d \in Callers : /\ Still(call[d], quota.reset) \in 0 .. 2 * Rounds
                             /\ Still(call'[d], quota'.reset) \in 0 .. 2 * Rounds
      BY <1>3, <1>4, <2>1, StillBounded
    <2>5. before >= 1
      <3>1. Still(call[c], quota.reset) >= 1
        <4>1. Still(call[c], quota.reset) = IF call[c].listing THEN Rounds - call[c].attempt
                                            ELSE 2 * Rounds - call[c].attempt
          BY <1>1 DEF Still
        <4>2. call[c].attempt \in 0 .. MaxRetries
          BY <1>4 DEF IsCall
        <4>3. QED
          BY <4>1, <4>2, GithubClientAssumption DEF Rounds
      <3>2. 1 \in 1 .. 2 * Rounds
        BY MostAreNat
      <3>3. <<c, 1>> \in CallsLeft(call, quota.reset)
        BY <3>1, <3>2 DEF CallsLeft
      <3>4. QED
        BY <2>2, <3>3, CallsLeftFinite, FS_EmptySet
    <2>6. Most >= 1
      BY <2>1, <2>2, <2>5, CallsLeftFinite
    <2>7. ~(clock < quota.reset /\ quota.left = 0)
      BY <2>1, <2>2, <2>3, <2>5
    <2>8. "exhausted" \notin refusals'
      BY <1>1, <1>7, <2>7 DEF CallInv, QuotaLasts
    <2>9. ASSUME clock < quota'.reset, quota'.left <= MinRemaining
          PROVE  after <= quota'.left
      <3>1. Still(call'[c], quota'.reset) < Still(call[c], quota.reset)
        BY <1>2, <1>3, <2>1, <2>6, <2>9
      <3>2. CASE clock >= quota.reset
        <4>1. quota' = Spent /\ quota'.left = Quota - 1
          BY <1>1, <2>1, <2>9, <3>2, SpentTypes DEF CallInv
        <4>2. Still(call'[c], quota'.reset) < 2 * Rounds
          BY <2>4, <3>1, MostAreNat
        <4>3. after <= Most - 1
          BY <2>4, <4>2, FewerThanMost
        <4>4. QED
          BY <2>1, <2>2, <4>1, <4>3
      <3>3. CASE clock < quota.reset
        <4>1. /\ quota'.reset = quota.reset
              /\ quota'.left = quota.left \/ quota'.left = quota.left - 1
          BY <1>1, <2>1, <2>7, <3>3, SpentTypes DEF CallInv
        <4>2. \A d \in Callers : Still(call'[d], quota'.reset) <= Still(call[d], quota.reset)
          BY <1>2, <2>4, <3>1, <4>1
        <4>3. after <= before - 1
          BY <2>4, <3>1, <4>2, OneFewerLeft
        <4>4. CASE quota.left <= MinRemaining
          BY <2>1, <2>2, <2>3, <3>3, <4>1, <4>3, <4>4
        <4>5. CASE quota.left > MinRemaining
          BY <2>1, <2>2, <2>9, <4>1, <4>5
        <4>6. QED
          BY <2>1, <4>4, <4>5
      <3>4. QED
        BY <2>1, <3>2, <3>3
    <2>10. QED
      BY <1>1, <2>8, <2>9
  <1>8. QED
    BY <1>5, <1>6, <1>7 DEF CallInv, QuotaLasts, AmpleQuota

-----------------------------------------------------------------------------
(* The other steps.                                                           *)

\* What GitHub does not see costs nothing.
LEMMA UncountedKeeps ==
  ASSUME CallInv, UNCHANGED <<quota, refusals>>, clock' \in Nat, clock' >= clock,
         \A c \in Callers : /\ IsCall(call'[c])
                            /\ clock < quota.reset =>
                                 Still(call'[c], quota.reset) <= Still(call[c], quota.reset)
  PROVE  QuotaLasts'
  <1>1. clock \in Nat /\ quota.reset \in Int /\ \A c \in Callers : IsCall(call[c])
    BY DEF CallInv, CallTypes
  <1>2. \A c \in Callers : /\ Still(call[c], quota.reset) \in 0 .. 2 * Rounds
                           /\ Still(call'[c], quota.reset) \in 0 .. 2 * Rounds
    BY <1>1, StillBounded
  <1>3. ASSUME clock < quota.reset
        PROVE  Cardinality(CallsLeft(call', quota.reset)) <= Cardinality(CallsLeft(call, quota.reset))
    BY <1>2, <1>3, NoMoreLeft
  <1>4. /\ Cardinality(CallsLeft(call', quota.reset)) \in Nat
        /\ Cardinality(CallsLeft(call, quota.reset)) \in Nat /\ quota.left \in Nat
    BY CallsLeftFinite DEF CallInv, CallTypes
  <1>5. clock' < quota.reset => clock < quota.reset
    BY <1>1
  <1>6. QED
    BY <1>3, <1>4, <1>5 DEF CallInv, QuotaLasts, AmpleQuota, Most

LEMMA TokenKeeps ==
  ASSUME CallInv, NEW c \in Callers, CreateInstallationToken(c)
  PROVE  CallInv'
  <1>1. PICK listing \in IF call[c].listing THEN BOOLEAN ELSE {TRUE} :
          call' = [call EXCEPT ![c] = [NoCall EXCEPT !.at = "send", !.listing = listing,
                                         !.token = tokenCache', !.taken = clock]]
    BY DEF CreateInstallationToken
  <1>2. /\ call[c].at = "next" /\ IsCall(call[c]) /\ UNCHANGED <<clock, quota, refusals>>
        /\ tokenCache' = IF tokenCache - clock > Margin THEN tokenCache ELSE clock + TokenLife
        /\ clock \in Nat /\ tokenCache \in Int /\ TokenLife \in Nat /\ Margin \in Nat
    BY GithubClientAssumption DEF CreateInstallationToken, CachedInstallationToken, CallInv, CallTypes
  <1>3. listing \in BOOLEAN /\ (call[c].listing \/ listing)
    BY <1>2 DEF IsCall
  <1>4. tokenCache' \in Int /\ (TokenLife > Margin => tokenCache' - clock > Margin)
    BY <1>2
  <1>5. /\ call' = [d \in Callers |-> call'[d]] /\ \A d \in Callers \ {c} : call'[d] = call[d]
        /\ call'[c] = [at |-> "send", listing |-> listing, attempt |-> 0, token |-> tokenCache',
                       taken |-> clock, wake |-> 0, until |-> 0]
    BY <1>1 DEF NoCall, CallInv, CallTypes
  <1>6. IsCall(call'[c])
    BY <1>2, <1>3, <1>4, <1>5, GithubClientAssumption DEF IsCall
  <1>7. CallTypes'
    BY <1>2, <1>4, <1>5, <1>6 DEF CallInv, CallTypes
  <1>8. GoodWhenTaken(call'[c]) /\ SleepsLongEnough(call'[c], clock)
    BY <1>2, <1>4, <1>5 DEF GoodWhenTaken, SleepsLongEnough
  <1>9. \A d \in Callers : GoodWhenTaken(call'[d]) /\ SleepsLongEnough(call'[d], clock')
    BY <1>2, <1>5, <1>8 DEF CallInv
  <1>10. Still(call'[c], quota.reset) <= Still(call[c], quota.reset)
    <2>1. Still(call'[c], quota.reset) = IF listing THEN Rounds ELSE 2 * Rounds
      BY <1>5, MostAreNat DEF Still
    <2>2. Still(call[c], quota.reset) = IF call[c].listing THEN 2 * Rounds ELSE Rounds
      BY <1>2 DEF Still
    <2>3. QED
      BY <1>3, <2>1, <2>2, MostAreNat
  <1>11. \A d \in Callers : IsCall(call'[d]) /\ Still(call'[d], quota.reset) <= Still(call[d], quota.reset)
    <2>1. \A d \in Callers : IsCall(call[d]) /\ quota.reset \in Int
      BY DEF CallInv, CallTypes
    <2>2. \A d \in Callers : Still(call[d], quota.reset) \in 0 .. 2 * Rounds
      BY <2>1, StillBounded
    <2>3. QED
      BY <1>5, <1>6, <1>10, <2>1, <2>2, MostAreNat
  <1>12. QuotaLasts'
    BY <1>2, <1>11, UncountedKeeps
  <1>13. QED
    BY <1>7, <1>9, <1>12 DEF CallInv

LEMMA WakeKeeps ==
  ASSUME CallInv, NEW c \in Callers, Wake(c)
  PROVE  CallInv'
  <1> DEFINE K == call[c]
  <1>1. /\ K.at \in {"sleep", "throttled"} /\ clock >= K.wake /\ IsCall(K)
        /\ UNCHANGED <<clock, quota, tokenCache, refusals>> /\ clock \in Nat /\ quota.reset \in Int
        /\ GoodWhenTaken(K) /\ SleepsLongEnough(K, clock)
    BY DEF Wake, CallInv, CallTypes
  <1>2. call' = [call EXCEPT ![c] = IF K.at = "sleep"
                   THEN [K EXCEPT !.at = "send", !.attempt = @ + 1] ELSE [K EXCEPT !.at = "next"]]
    BY DEF Wake
  <1>3. /\ call' = [d \in Callers |-> call'[d]] /\ \A d \in Callers \ {c} : call'[d] = call[d]
        /\ call'[c] = IF K.at = "sleep" THEN [K EXCEPT !.at = "send", !.attempt = @ + 1]
                      ELSE [K EXCEPT !.at = "next"]
    BY <1>2 DEF CallInv, CallTypes
  <1>4. call'[c] = [at |-> IF K.at = "sleep" THEN "send" ELSE "next", listing |-> K.listing,
                    attempt |-> IF K.at = "sleep" THEN K.attempt + 1 ELSE K.attempt,
                    token |-> K.token, taken |-> K.taken, wake |-> K.wake, until |-> K.until]
    BY <1>1, <1>3 DEF IsCall
  <1>5. IsCall(call'[c])
    BY <1>1, <1>4, GithubClientAssumption DEF IsCall, SleepsLongEnough
  <1>6. GoodWhenTaken(call'[c])
    BY <1>1, <1>4 DEF GoodWhenTaken
  <1>7. SleepsLongEnough(call'[c], clock)
    BY <1>1, <1>4 DEF SleepsLongEnough, IsCall
  <1>8. clock < quota.reset => Still(call'[c], quota.reset) <= Still(K, quota.reset)
    <2>1. CASE K.at = "sleep"
      <3>1. Still(K, quota.reset) =
              IF K.listing THEN MaxRetries - K.attempt ELSE MaxRetries + Rounds - K.attempt
        BY <2>1 DEF Still
      <3>2. Still(call'[c], quota.reset) =
              IF K.listing THEN Rounds - (K.attempt + 1) ELSE 2 * Rounds - (K.attempt + 1)
        BY <2>1, <1>4 DEF Still
      <3>3. QED
        BY <1>1, <3>1, <3>2, GithubClientAssumption DEF IsCall, Rounds
    <2>2. CASE K.at = "throttled"
      <3>1. Still(call'[c], quota.reset) = IF K.listing THEN 2 * Rounds ELSE Rounds
        BY <2>2, <1>4 DEF Still
      <3>2. clock < quota.reset => Still(K, quota.reset) = 2 * Rounds
        BY <1>1, <2>2 DEF Still, IsCall
      <3>3. QED
        BY <3>1, <3>2, MostAreNat
    <2>3. QED
      BY <1>1, <2>1, <2>2
  <1>9. \A d \in Callers : IsCall(call[d])
    BY DEF CallInv, CallTypes
  <1>10. \A d \in Callers : Still(call[d], quota.reset) \in 0 .. 2 * Rounds
    BY <1>1, <1>9, StillBounded
  <1>11. QuotaLasts'
    BY <1>1, <1>3, <1>5, <1>8, <1>9, <1>10, MostAreNat, UncountedKeeps
  <1>12. CallTypes'
    BY <1>1, <1>3, <1>5, <1>9 DEF CallInv, CallTypes
  <1>13. \A d \in Callers : GoodWhenTaken(call'[d]) /\ SleepsLongEnough(call'[d], clock')
    BY <1>1, <1>3, <1>6, <1>7 DEF CallInv
  <1>14. QED
    BY <1>11, <1>12, <1>13 DEF CallInv

LEMMA TickKeeps ==
  ASSUME CallInv, Tick
  PROVE  CallInv'
  <1>1. clock' = clock + 1 /\ UNCHANGED <<quota, tokenCache, call, refusals>> /\ clock \in Nat
    BY DEF Tick, CallInv, CallTypes
  <1>2. \A c \in Callers : IsCall(call[c]) /\ quota.reset \in Int
    BY DEF CallInv, CallTypes
  <1>3. \A c \in Callers : Still(call[c], quota.reset) \in 0 .. 2 * Rounds
    BY <1>2, StillBounded
  <1>4. QuotaLasts'
    BY <1>1, <1>2, <1>3, MostAreNat, UncountedKeeps
  <1>5. CallTypes'
    BY <1>1 DEF CallInv, CallTypes
  <1>6. \A c \in Callers : GoodWhenTaken(call'[c]) /\ SleepsLongEnough(call'[c], clock')
    <2>1. SUFFICES ASSUME NEW c \in Callers
                   PROVE  GoodWhenTaken(call[c]) /\ SleepsLongEnough(call[c], clock')
      BY <1>1
    <2>2. call[c].until \in Int /\ GoodWhenTaken(call[c]) /\ SleepsLongEnough(call[c], clock)
      BY <1>2 DEF CallInv, IsCall
    <2>3. QED
      BY <1>1, <2>2 DEF SleepsLongEnough
  <1>7. QED
    BY <1>4, <1>5, <1>6 DEF CallInv

\* The other parts leave the calls alone.
LEMMA CallsPart == [Next]_vars => [ClientNext]_clientVars
  BY DEF Next, vars

LEMMA CallStart ==
  ASSUME Init
  PROVE  CallInv
  <1>1. /\ clock = 1 /\ tokenCache = 0 /\ refusals = {}
        /\ quota = [left |-> Quota, reset |-> 1 + Window] /\ call = [c \in Callers |-> NoCall]
    BY DEF Init, ClientInit
  <1>2. IsCall(NoCall)
    BY GithubClientAssumption DEF IsCall, NoCall
  <1>3. CallTypes
    BY <1>1, <1>2, GithubClientAssumption DEF CallTypes
  <1>4. \A c \in Callers : GoodWhenTaken(call[c]) /\ SleepsLongEnough(call[c], clock)
    BY <1>1 DEF NoCall, GoodWhenTaken, SleepsLongEnough
  <1>5. QuotaLasts
    <2>1. /\ Cardinality(CallsLeft(call, quota.reset)) \in Nat
          /\ Cardinality(CallsLeft(call, quota.reset)) <= Most
      BY CallsLeftFinite
    <2>2. QED
      BY <1>1, <2>1, MostAreNat, GithubClientAssumption DEF QuotaLasts, AmpleQuota
  <1>6. QED
    BY <1>3, <1>4, <1>5 DEF CallInv

LEMMA CallStep ==
  ASSUME CallInv, [Next]_vars
  PROVE  CallInv'
  <1>1. CASE UNCHANGED clientVars
    BY <1>1 DEF clientVars, CallInv, CallTypes, QuotaLasts, AmpleQuota, Most, CallsLeft
  <1>2. CASE ClientNext
    BY <1>2, TickKeeps, TokenKeeps, AttemptKeeps, WakeKeeps DEF ClientNext
  <1>3. QED
    BY <1>1, <1>2, CallsPart

-----------------------------------------------------------------------------
(* The theorems.                                                              *)

\* However many syncs share an installation, each of them throttled by what its own last
\* listing said, and however often calls are attempted again: GitHub refuses none for the
\* quota, when what they leave of it is enough for one listing and one detail of each. No
\* call is sent before the time GitHub named.
THEOREM QuotaIsSpared == Spec => []QuotaSpared
  <1>1. Init => CallInv
    BY CallStart
  <1>2. CallInv /\ [Next]_vars => CallInv'
    BY CallStep
  <1>3. CallInv => QuotaSpared
    BY DEF CallInv, QuotaLasts, AmpleQuota, Most, Rounds, SleepsLongEnough, QuotaSpared
  <1>4. QED
    BY <1>1, <1>2, <1>3, PTL DEF Spec

\* A cached token is given out with more than the margin left, so that a call, and its
\* retries within the margin, are sent with one that GitHub accepts.
THEOREM TokensOutlive == Spec => []TokenOutlivesCall
  <1>1. Init => CallInv
    BY CallStart
  <1>2. CallInv /\ [Next]_vars => CallInv'
    BY CallStep
  <1>3. CallInv => TokenOutlivesCall
    <2>1. SUFFICES ASSUME CallInv, TokenLife > Margin, NEW c \in Callers, call[c].at = "send",
                          clock - call[c].taken <= Margin
                   PROVE  call[c].token > clock
      BY DEF TokenOutlivesCall
    <2>2. /\ call[c].token - call[c].taken > Margin /\ {call[c].token, call[c].taken} \subseteq Int
          /\ clock \in Nat
      BY <2>1 DEF CallInv, CallTypes, GoodWhenTaken, IsCall
    <2>3. Margin \in Nat
      BY GithubClientAssumption
    <2>4. QED
      BY <2>1, <2>2, <2>3
  <1>4. QED
    BY <1>1, <1>2, <1>3, PTL DEF Spec

(***************************************************************************)
(* RateLimiter.                                                              *)
(***************************************************************************)

-----------------------------------------------------------------------------
(* The inductive invariant.                                                   *)

CountedBy(a, w) == {p \in passed : p.by = a /\ p.window = w}

LimiterTypes ==
  /\ time \in Nat /\ windows \in [Addresses -> Nat] /\ IsFiniteSet(passed)
  /\ \A g \in DOMAIN asking : /\ asking[g].by \in Addresses
                              /\ asking[g].now \in Int /\ asking[g].now <= time
  /\ \A p \in passed : /\ p.by \in Addresses /\ p.window \in 1 .. windows[p.by]
                       /\ {p.at, p.until, p.nth} \subseteq Int /\ p.at <= time

\* An entry counts what its window let through, which began when the entry was written, or
\* later than the time the request had read that wrote it.
EntryCounts(a, es) ==
  /\ es[a].count \in Int /\ es[a].resetAt \in Int /\ es[a].resetAt <= time + LimitWindow
  /\ es[a].count <= Limit /\ windows[a] >= 1
  /\ Cardinality(CountedBy(a, windows[a])) = es[a].count
  /\ \A p \in CountedBy(a, windows[a]) :
       p.until = es[a].resetAt /\ p.nth <= es[a].count /\ p.at >= es[a].resetAt - LimitWindow

\* The window of an entry begins no earlier than the one before it ended, unless that one
\* was so long ago that its entry was removed: then a request that had waited for the lock
\* since long before may have given the new one an earlier time.
EntriesFit(es) ==
  /\ DOMAIN es \subseteq Addresses
  /\ \A a \in DOMAIN es : EntryCounts(a, es)
  /\ \A p \in passed : time >= p.until + LimitWindow \/
       /\ p.by \in DOMAIN es
       /\ p.window < windows[p.by] => es[p.by].resetAt >= p.until + LimitWindow

\* Windows follow each other: nothing of the next before the end of one, and nothing of
\* the one after the next until a whole window later.
WindowsFollow ==
  /\ \A p \in passed :
       /\ ~p.late => p.at < p.until
       /\ p.window < windows[p.by] => time >= p.until
       /\ p.window + 2 <= windows[p.by] => time >= p.until + LimitWindow
  /\ \A p, q \in passed : p.by = q.by =>
       /\ p.window < q.window => q.at >= p.until
       /\ p.window + 2 <= q.window => q.at >= p.until + LimitWindow

CountsWithinLimit == \A a \in Addresses, w \in Nat : Cardinality(CountedBy(a, w)) <= Limit

RefusedAtLimit ==
  \A r \in refused : r.at \in Int /\
    (~r.late => /\ r.at < r.retry /\ r.retry <= r.at + LimitWindow
                /\ Cardinality(Through(r.by, r.at - LimitWindow + 1, r.at + 1)) >= Limit)

RInv ==
  /\ LimiterTypes /\ EntriesFit(entries) /\ WindowsFollow
  /\ CountsWithinLimit /\ RefusedAtLimit

-----------------------------------------------------------------------------
(* Counting what was let through.                                             *)

LEMMA PartsFinite ==
  ASSUME IsFiniteSet(passed), NEW S, S \subseteq passed
  PROVE  IsFiniteSet(S) /\ Cardinality(S) \in Nat
  BY FS_Subset, FS_CardinalityType

\* One more is let through.
LEMMA OneMorePassed ==
  ASSUME IsFiniteSet(passed), NEW q, q \notin passed, passed' = passed \cup {q}, UNCHANGED refused,
         RefusedAtLimit, Limit \in Nat
  PROVE  /\ IsFiniteSet(passed') /\ RefusedAtLimit'
         /\ \A a, w : CountedBy(a, w)' = IF q.by = a /\ q.window = w THEN CountedBy(a, w) \cup {q}
                                         ELSE CountedBy(a, w)
         /\ \A a, w : Cardinality(CountedBy(a, w)') = IF q.by = a /\ q.window = w
                        THEN Cardinality(CountedBy(a, w)) + 1 ELSE Cardinality(CountedBy(a, w))
  <1>1. IsFiniteSet(passed')
    BY FS_AddElement
  <1>2. \A a, w : CountedBy(a, w)' = IF q.by = a /\ q.window = w THEN CountedBy(a, w) \cup {q}
                                     ELSE CountedBy(a, w)
    BY DEF CountedBy
  <1>3. ASSUME NEW a, NEW w
        PROVE  Cardinality(CountedBy(a, w)') = IF q.by = a /\ q.window = w
                 THEN Cardinality(CountedBy(a, w)) + 1 ELSE Cardinality(CountedBy(a, w))
    <2>1. CountedBy(a, w) \subseteq passed /\ q \notin CountedBy(a, w)
      BY DEF CountedBy
    <2>2. IsFiniteSet(CountedBy(a, w))
      BY <2>1, PartsFinite
    <2>3. QED
      BY <1>2, <2>1, <2>2, FS_AddElement
  <1>4. ASSUME NEW r \in refused, ~r.late, r.at \in Int,
               Cardinality(Through(r.by, r.at - LimitWindow + 1, r.at + 1)) >= Limit
        PROVE  Cardinality(Through(r.by, r.at - LimitWindow + 1, r.at + 1)') >= Limit
    <2> DEFINE S == Through(r.by, r.at - LimitWindow + 1, r.at + 1)
               T == Through(r.by, r.at - LimitWindow + 1, r.at + 1)'
    <2>1. S \subseteq T /\ T \subseteq passed' /\ S \subseteq passed
      BY DEF Through
    <2>2. IsFiniteSet(T) /\ IsFiniteSet(S)
      BY <1>1, <2>1, FS_Subset
    <2>3. Cardinality(S) <= Cardinality(T) /\ Cardinality(S) \in Nat /\ Cardinality(T) \in Nat
      BY <2>1, <2>2, FS_Subset, FS_CardinalityType
    <2>4. QED
      BY <1>4, <2>3
  <1>5. RefusedAtLimit'
    BY <1>4 DEF RefusedAtLimit
  <1>6. QED
    BY <1>1, <1>2, <1>3, <1>5

-----------------------------------------------------------------------------
(* The steps.                                                                 *)

\* An entry that is removed, by a request of whichever address, is of a window whose end
\* is a window away.
LEMMA PruneFits ==
  ASSUME LimiterTypes, EntriesFit(entries), NEW now \in Int, now <= time, LimitWindow \in Nat
  PROVE  EntriesFit(Prune(entries, now))
  <1> DEFINE es == Prune(entries, now)
  <1>1. /\ DOMAIN es \subseteq DOMAIN entries /\ \A a \in DOMAIN es : es[a] = entries[a]
        /\ \A a \in DOMAIN entries \ DOMAIN es : ~(now <= entries[a].resetAt + LimitWindow)
    BY DEF Prune
  <1> HIDE DEF es
  <1>2. DOMAIN es \subseteq Addresses /\ \A a \in DOMAIN es : EntryCounts(a, es)
    BY <1>1 DEF EntriesFit, EntryCounts
  <1>3. ASSUME NEW p \in passed
        PROVE  time >= p.until + LimitWindow \/
                 /\ p.by \in DOMAIN es
                 /\ p.window < windows[p.by] => es[p.by].resetAt >= p.until + LimitWindow
    <2>1. CASE p.by \in DOMAIN es
      BY <1>1, <2>1 DEF EntriesFit
    <2>2. CASE p.by \in DOMAIN entries \ DOMAIN es
      <3>1. /\ entries[p.by].resetAt \in Int /\ time \in Int /\ p.until \in Int
            /\ now > entries[p.by].resetAt + LimitWindow
        BY <1>1, <2>2 DEF EntriesFit, EntryCounts, LimiterTypes
      <3>2. CASE p.window < windows[p.by]
        BY <2>2, <3>1, <3>2 DEF EntriesFit
      <3>3. CASE ~(p.window < windows[p.by])
        <4>1. p.window = windows[p.by]
          BY <3>3 DEF LimiterTypes
        <4>2. p.until = entries[p.by].resetAt
          BY <2>2, <4>1 DEF EntriesFit, EntryCounts, CountedBy
        <4>3. QED
          BY <3>1, <4>2
      <3>4. QED
        BY <3>2, <3>3
    <2>3. CASE p.by \notin DOMAIN entries
      BY <2>3 DEF EntriesFit
    <2>4. QED
      BY <2>1, <2>2, <2>3
  <1>4. QED
    BY <1>2, <1>3 DEF EntriesFit, es

\* A request counts in the window that is open.
LEMMA OpenWindowCounts ==
  ASSUME RInv, Limit > 0, LimitWindow > 0, NEW es, EntriesFit(es), NEW a \in DOMAIN es,
         NEW now \in Int, now <= time, now < es[a].resetAt, ~(es[a].count >= Limit),
         Count(es, a, now, windows[a], [count |-> es[a].count + 1, resetAt |-> es[a].resetAt]),
         UNCHANGED time,
         \A g \in DOMAIN asking' : g \in DOMAIN asking /\ asking'[g] = asking[g]
  PROVE  RInv'
  <1> DEFINE q == [by |-> a, at |-> time, late |-> now < time, window |-> windows[a],
                   until |-> es[a].resetAt, nth |-> es[a].count + 1]
  <1>1. /\ passed' = passed \cup {q} /\ UNCHANGED <<refused, time>>
        /\ entries' = [b \in DOMAIN es \cup {a} |->
                         IF b = a THEN [count |-> es[a].count + 1, resetAt |-> es[a].resetAt] ELSE es[b]]
        /\ windows' = [windows EXCEPT ![a] = windows[a]]
    BY DEF Count, Pass
  <1>2. /\ a \in Addresses /\ EntryCounts(a, es) /\ Limit \in Nat /\ LimitWindow \in Nat
        /\ time \in Nat /\ windows \in [Addresses -> Nat]
    BY RateLimiterAssumption DEF EntriesFit, RInv, LimiterTypes
  <1>3. windows' = windows
    BY <1>1, <1>2
  <1>4. /\ q.by = a /\ q.window = windows[a] /\ q.until = es[a].resetAt /\ q.at = time
        /\ q.nth = es[a].count + 1 /\ (~q.late => now = time)
    <2>1. now < time \/ now = time
      BY <1>2
    <2>2. QED
      BY <2>1
  <1> HIDE DEF q
  <1>5. \A p \in passed : p.by = a /\ p.window = windows[a] =>
          p.until = es[a].resetAt /\ p.nth <= es[a].count
    BY <1>2 DEF EntryCounts, CountedBy
  <1>6. q \notin passed
    BY <1>2, <1>4, <1>5 DEF EntryCounts
  <1>7. /\ IsFiniteSet(passed') /\ RefusedAtLimit'
        /\ \A b, w : CountedBy(b, w)' = IF q.by = b /\ q.window = w THEN CountedBy(b, w) \cup {q}
                                        ELSE CountedBy(b, w)
        /\ \A b, w : Cardinality(CountedBy(b, w)') = IF q.by = b /\ q.window = w
                        THEN Cardinality(CountedBy(b, w)) + 1 ELSE Cardinality(CountedBy(b, w))
    BY <1>1, <1>2, <1>6, OneMorePassed DEF RInv, LimiterTypes
  <1>8. LimiterTypes'
    <2>1. \A p \in passed' : /\ p.by \in Addresses /\ p.window \in 1 .. windows[p.by]
                             /\ {p.at, p.until, p.nth} \subseteq Int /\ p.at <= time
      BY <1>1, <1>2, <1>4 DEF RInv, LimiterTypes, EntryCounts
    <2>2. \A g \in DOMAIN asking' : /\ asking'[g].by \in Addresses
                                    /\ asking'[g].now \in Int /\ asking'[g].now <= time
      BY DEF RInv, LimiterTypes
    <2>3. /\ time' = time /\ time \in Nat /\ windows' = windows /\ windows \in [Addresses -> Nat]
          /\ IsFiniteSet(passed')
      BY <1>2, <1>3, <1>7
    <2>4. QED
      BY <2>1, <2>2, <2>3 DEF LimiterTypes
  <1>9. EntriesFit(entries)'
    <2>1. /\ DOMAIN entries' = DOMAIN es /\ DOMAIN es \subseteq Addresses
          /\ \A b \in DOMAIN es \ {a} : entries'[b] = es[b] /\ EntryCounts(b, es)
          /\ entries'[a] = [count |-> es[a].count + 1, resetAt |-> es[a].resetAt]
      BY <1>1 DEF EntriesFit
    <2>2. EntryCounts(a, entries)'
      <3>1. /\ \A p \in CountedBy(a, windows[a])' :
                 p.until = es[a].resetAt /\ p.nth <= es[a].count + 1 /\ p.at >= es[a].resetAt - LimitWindow
        <4>1. SUFFICES ASSUME NEW p \in CountedBy(a, windows[a])'
                       PROVE  /\ p.until = es[a].resetAt /\ p.nth <= es[a].count + 1
                              /\ p.at >= es[a].resetAt - LimitWindow
          OBVIOUS
        <4>2. CASE p = q
          BY <1>2, <1>4, <4>2 DEF EntryCounts
        <4>3. CASE p \in CountedBy(a, windows[a])
          <5>1. p.nth \in Int
            BY <4>3 DEF CountedBy, RInv, LimiterTypes
          <5>2. QED
            BY <1>2, <4>3, <5>1 DEF EntryCounts
        <4>4. QED
          BY <1>3, <1>4, <1>7, <4>1, <4>2, <4>3
      <3>2. Cardinality(CountedBy(a, windows[a])') = es[a].count + 1
        BY <1>2, <1>3, <1>4, <1>7 DEF EntryCounts
      <3>3. QED
        BY <1>1, <1>2, <1>3, <2>1, <3>1, <3>2 DEF EntryCounts
    <2>3. ASSUME NEW b \in DOMAIN es \ {a}
          PROVE  EntryCounts(b, entries)'
      <3>1. CountedBy(b, windows[b])' = CountedBy(b, windows[b])
        BY <1>3, <1>4, <1>7
      <3>2. QED
        BY <1>1, <1>3, <2>1, <3>1 DEF EntryCounts
    <2>4. ASSUME NEW p \in passed'
          PROVE  time >= p.until + LimitWindow \/
                   /\ p.by \in DOMAIN es
                   /\ p.window < windows[p.by] => entries'[p.by].resetAt >= p.until + LimitWindow
      <3>1. CASE p \in passed
        <4>1. p.by \in DOMAIN es => entries'[p.by].resetAt = es[p.by].resetAt
          BY <2>1
        <4>2. QED
          BY <3>1, <4>1 DEF EntriesFit
      <3>2. CASE p = q
        BY <1>2, <1>4, <3>2
      <3>3. QED
        BY <1>1, <3>1, <3>2
    <2>5. \A b \in DOMAIN entries' : EntryCounts(b, entries)'
      BY <2>1, <2>2, <2>3
    <2>6. QED
      BY <1>1, <1>3, <2>1, <2>4, <2>5 DEF EntriesFit
  <1>10. WindowsFollow'
    <2>1. \A p \in passed : p.by = a => p.window \in Int /\ p.window <= windows[a]
      BY <1>2 DEF RInv, LimiterTypes
    <2>2. ASSUME NEW p \in passed'
          PROVE  /\ ~p.late => p.at < p.until
                 /\ p.window < windows[p.by] => time >= p.until
                 /\ p.window + 2 <= windows[p.by] => time >= p.until + LimitWindow
      <3>1. CASE p \in passed
        BY <3>1 DEF RInv, WindowsFollow
      <3>2. CASE p = q
        BY <1>2, <1>4, <3>2
      <3>3. QED
        BY <1>1, <3>1, <3>2
    <2>3. ASSUME NEW p \in passed', NEW s \in passed', p.by = s.by
          PROVE  /\ p.window < s.window => s.at >= p.until
                 /\ p.window + 2 <= s.window => s.at >= p.until + LimitWindow
      <3>1. CASE p \in passed /\ s \in passed
        BY <2>3, <3>1 DEF RInv, WindowsFollow
      <3>2. CASE p \in passed /\ s = q
        BY <1>4, <2>2, <2>3, <3>2
      <3>3. CASE p = q
        BY <1>1, <1>2, <1>4, <2>1, <2>3, <3>3
      <3>4. QED
        BY <1>1, <3>1, <3>2, <3>3
    <2>4. QED
      BY <1>1, <1>3, <2>2, <2>3 DEF WindowsFollow
  <1>11. CountsWithinLimit'
    <2>1. Cardinality(CountedBy(a, windows[a])) + 1 <= Limit
      BY <1>2 DEF EntryCounts
    <2>2. QED
      BY <1>4, <1>7, <2>1 DEF RInv, CountsWithinLimit
  <1>12. QED
    BY <1>7, <1>8, <1>9, <1>10, <1>11 DEF RInv

\* A request opens the next window.
LEMMA NextWindowOpens ==
  ASSUME RInv, Limit > 0, LimitWindow > 0, NEW es, EntriesFit(es), NEW a \in Addresses,
         NEW now \in Int, now <= time, ~(a \in DOMAIN es /\ now < es[a].resetAt),
         Count(es, a, now, windows[a] + 1, [count |-> 1, resetAt |-> now + LimitWindow]),
         UNCHANGED time,
         \A g \in DOMAIN asking' : g \in DOMAIN asking /\ asking'[g] = asking[g]
  PROVE  RInv'
  <1> DEFINE q == [by |-> a, at |-> time, late |-> now < time, window |-> windows[a] + 1,
                   until |-> now + LimitWindow, nth |-> 1]
  <1>1. /\ passed' = passed \cup {q} /\ UNCHANGED <<refused, time>>
        /\ entries' = [b \in DOMAIN es \cup {a} |->
                         IF b = a THEN [count |-> 1, resetAt |-> now + LimitWindow] ELSE es[b]]
        /\ windows' = [windows EXCEPT ![a] = windows[a] + 1]
    BY DEF Count, Pass
  <1>2. /\ Limit \in Nat /\ LimitWindow \in Nat /\ time \in Nat /\ windows \in [Addresses -> Nat]
        /\ windows[a] \in Nat
    BY RateLimiterAssumption DEF RInv, LimiterTypes
  <1>3. /\ windows' \in [Addresses -> Nat] /\ windows'[a] = windows[a] + 1
        /\ \A b \in Addresses \ {a} : windows'[b] = windows[b]
    BY <1>1, <1>2
  <1>4. /\ q.by = a /\ q.window = windows[a] + 1 /\ q.until = now + LimitWindow /\ q.at = time
        /\ q.nth = 1 /\ (~q.late => now = time)
    <2>1. now < time \/ now = time
      BY <1>2
    <2>2. QED
      BY <2>1
  <1> HIDE DEF q
  <1>5. \A p \in passed : /\ p.by \in Addresses /\ {p.window, p.at, p.until, p.nth} \subseteq Int
                          /\ p.window <= windows[p.by] /\ p.window >= 1
    BY <1>2 DEF RInv, LimiterTypes
  <1>6. q \notin passed /\ CountedBy(a, windows[a] + 1) = {}
    <2>1. \A p \in passed : ~(p.by = a /\ p.window = windows[a] + 1)
      BY <1>2, <1>5
    <2>2. QED
      BY <1>4, <2>1 DEF CountedBy
  <1>7. /\ IsFiniteSet(passed') /\ RefusedAtLimit'
        /\ \A b, w : CountedBy(b, w)' = IF q.by = b /\ q.window = w THEN CountedBy(b, w) \cup {q}
                                        ELSE CountedBy(b, w)
        /\ \A b, w : Cardinality(CountedBy(b, w)') = IF q.by = b /\ q.window = w
                        THEN Cardinality(CountedBy(b, w)) + 1 ELSE Cardinality(CountedBy(b, w))
    BY <1>1, <1>2, <1>6, OneMorePassed DEF RInv, LimiterTypes
  <1>8. LimiterTypes'
    <2>1. ASSUME NEW p \in passed'
          PROVE  /\ p.by \in Addresses /\ p.window \in 1 .. windows'[p.by]
                 /\ {p.at, p.until, p.nth} \subseteq Int /\ p.at <= time
      <3>1. CASE p \in passed
        <4>1. windows'[p.by] >= windows[p.by] /\ windows[p.by] \in Int /\ windows'[p.by] \in Int
          BY <1>2, <1>3, <1>5, <3>1
        <4>2. QED
          BY <1>5, <3>1, <4>1 DEF RInv, LimiterTypes
      <3>2. CASE p = q
        BY <1>2, <1>3, <1>4, <3>2
      <3>3. QED
        BY <1>1, <3>1, <3>2
    <2>2. QED
      BY <1>1, <1>3, <1>7, <2>1 DEF RInv, LimiterTypes
  <1>9. ASSUME NEW p \in passed, p.by = a
        PROVE  /\ time >= p.until
               /\ p.window + 2 <= windows[a] + 1 => time >= p.until + LimitWindow
               /\ time >= p.until + LimitWindow \/ now >= p.until
    <2>1. p.until \in Int /\ p.window \in Int /\ p.window <= windows[a]
      BY <1>5, <1>9
    <2>2. CASE time >= p.until + LimitWindow
      BY <1>2, <2>1, <2>2
    <2>3. CASE ~(time >= p.until + LimitWindow)
      <3>1. /\ a \in DOMAIN es /\ now >= es[a].resetAt /\ es[a].resetAt \in Int
            /\ p.window < windows[a] => es[a].resetAt >= p.until + LimitWindow
        BY <1>9, <2>3 DEF EntriesFit, EntryCounts
      <3>2. ~(p.window < windows[a])
        BY <1>2, <2>1, <2>3, <3>1
      <3>3. p.window = windows[a]
        BY <1>2, <2>1, <3>2
      <3>4. p.until = es[a].resetAt
        BY <1>9, <3>1, <3>3 DEF EntriesFit, EntryCounts, CountedBy
      <3>5. QED
        BY <1>2, <2>1, <3>1, <3>3, <3>4
    <2>4. QED
      BY <2>2, <2>3
  <1>10. EntriesFit(entries)'
    <2>1. /\ DOMAIN entries' = DOMAIN es \cup {a} /\ DOMAIN es \cup {a} \subseteq Addresses
          /\ \A b \in DOMAIN es \ {a} : entries'[b] = es[b] /\ EntryCounts(b, es)
          /\ entries'[a] = [count |-> 1, resetAt |-> now + LimitWindow]
      BY <1>1 DEF EntriesFit
    <2>2. EntryCounts(a, entries)'
      <3>1. PICK n \in Nat : n = windows[a]
        BY <1>2
      <3>2. CountedBy(a, n + 1)' = {q}
        BY <1>4, <1>6, <1>7, <3>1
      <3>3. windows'[a] = n + 1
        BY <1>3, <3>1
      <3>4. CountedBy(a, windows[a])' = {q} /\ Cardinality(CountedBy(a, windows[a])') = 1
        <4>1. CountedBy(a, windows[a])' = CountedBy(a, n + 1)'
          BY <3>3 DEF CountedBy
        <4>2. Cardinality({q}) = 1
          BY FS_Singleton
        <4>3. QED
          BY <3>2, <4>1, <4>2
      <3>5. /\ entries'[a].count = 1 /\ entries'[a].resetAt = now + LimitWindow
            /\ now + LimitWindow \in Int /\ now + LimitWindow <= time + LimitWindow /\ 1 <= Limit
        BY <1>2, <2>1
      <3>6. \A p \in CountedBy(a, windows[a])' :
              p.until = now + LimitWindow /\ p.nth <= 1 /\ p.at >= now + LimitWindow - LimitWindow
        BY <1>2, <1>4, <3>4
      <3>7. windows'[a] >= 1 /\ time' = time
        BY <1>1, <1>2, <1>3
      <3>8. QED
        <4>1. \A p \in CountedBy(a, windows[a])' :
                /\ p.until = entries'[a].resetAt /\ p.nth <= entries'[a].count
                /\ p.at >= entries'[a].resetAt - LimitWindow
          <5>1. entries'[a].resetAt - LimitWindow = now /\ now + LimitWindow - LimitWindow = now
            BY <1>2, <3>5
          <5>2. QED
            BY <3>5, <3>6, <5>1
        <4>2. /\ entries'[a].count \in Int /\ entries'[a].resetAt \in Int
              /\ entries'[a].resetAt <= time' + LimitWindow /\ entries'[a].count <= Limit
              /\ Cardinality(CountedBy(a, windows[a])') = entries'[a].count
          BY <3>4, <3>5, <3>7
        <4>3. QED
          BY <3>7, <4>1, <4>2 DEF EntryCounts
    <2>3. ASSUME NEW b \in DOMAIN es \ {a}
          PROVE  EntryCounts(b, entries)'
      <3>1. windows'[b] = windows[b] /\ b \in Addresses
        BY <1>3, <2>1
      <3>2. CountedBy(b, windows[b])' = CountedBy(b, windows[b])
        BY <1>1, <1>4, <3>1 DEF CountedBy
      <3>3. QED
        BY <1>1, <2>1, <3>1, <3>2 DEF EntryCounts
    <2>4. ASSUME NEW p \in passed'
          PROVE  time >= p.until + LimitWindow \/
                   /\ p.by \in DOMAIN entries'
                   /\ p.window < windows'[p.by] => entries'[p.by].resetAt >= p.until + LimitWindow
      <3>1. CASE p \in passed /\ p.by = a
        <4>1. p.until \in Int
          BY <1>5, <3>1
        <4>2. QED
          BY <1>2, <1>9, <2>1, <3>1, <4>1
      <3>2. CASE p \in passed /\ p.by # a
        <4>1. windows'[p.by] = windows[p.by]
          BY <1>3, <1>5, <3>2
        <4>2. QED
          BY <2>1, <3>2, <4>1 DEF EntriesFit
      <3>3. CASE p = q
        BY <1>2, <1>3, <1>4, <2>1, <3>3
      <3>4. QED
        BY <1>1, <3>1, <3>2, <3>3
    <2>5. \A b \in DOMAIN entries' : EntryCounts(b, entries)'
      BY <2>1, <2>2, <2>3
    <2>6. QED
      BY <1>1, <2>1, <2>4, <2>5 DEF EntriesFit
  <1>11. WindowsFollow'
    <2>1. ASSUME NEW p \in passed'
          PROVE  /\ ~p.late => p.at < p.until
                 /\ p.window < windows'[p.by] => time >= p.until
                 /\ p.window + 2 <= windows'[p.by] => time >= p.until + LimitWindow
      <3>1. CASE p \in passed /\ p.by = a
        BY <1>3, <1>9, <3>1 DEF RInv, WindowsFollow
      <3>2. CASE p \in passed /\ p.by # a
        <4>1. windows'[p.by] = windows[p.by]
          BY <1>3, <1>5, <3>2
        <4>2. QED
          BY <3>2, <4>1 DEF RInv, WindowsFollow
      <3>3. CASE p = q
        BY <1>2, <1>3, <1>4, <3>3
      <3>4. QED
        BY <1>1, <3>1, <3>2, <3>3
    <2>2. ASSUME NEW p \in passed', NEW s \in passed', p.by = s.by
          PROVE  /\ p.window < s.window => s.at >= p.until
                 /\ p.window + 2 <= s.window => s.at >= p.until + LimitWindow
      <3>1. CASE p \in passed /\ s \in passed
        BY <2>2, <3>1 DEF RInv, WindowsFollow
      <3>2. CASE p \in passed /\ s = q
        BY <1>3, <1>4, <2>1, <2>2, <3>2
      <3>3. CASE p = q
        <4>1. s \in passed => s.window \in Int /\ s.window <= windows[a]
          BY <1>4, <1>5, <2>2, <3>3
        <4>2. QED
          BY <1>1, <1>2, <1>4, <3>3, <4>1
      <3>4. QED
        BY <1>1, <3>1, <3>2, <3>3
    <2>3. QED
      BY <1>1, <2>1, <2>2 DEF WindowsFollow
  <1>12. CountsWithinLimit'
    <2>1. Cardinality(CountedBy(a, windows[a] + 1)) = 0
      BY <1>6, FS_EmptySet
    <2>2. QED
      BY <1>2, <1>4, <1>7, <2>1 DEF RInv, CountsWithinLimit
  <1>13. QED
    BY <1>7, <1>8, <1>10, <1>11, <1>12 DEF RInv

\* A request is refused that finds its window full.
LEMMA FullWindowRefuses ==
  ASSUME RInv, Limit > 0, LimitWindow > 0, NEW es, EntriesFit(es), NEW a \in DOMAIN es,
         NEW now \in Int, now <= time, now < es[a].resetAt, es[a].count >= Limit,
         entries' = es, UNCHANGED <<passed, windows, time>>,
         refused' = refused \cup {[by |-> a, at |-> time, late |-> now < time, retry |-> es[a].resetAt]},
         \A g \in DOMAIN asking' : g \in DOMAIN asking /\ asking'[g] = asking[g]
  PROVE  RInv'
  <1>1. EntryCounts(a, es) /\ LimitWindow \in Nat /\ Limit \in Nat /\ time \in Nat
    BY RateLimiterAssumption DEF EntriesFit, RInv, LimiterTypes
  <1>2. LimiterTypes' /\ WindowsFollow' /\ CountsWithinLimit'
    BY DEF RInv, LimiterTypes, WindowsFollow, CountsWithinLimit, CountedBy
  <1>3. EntriesFit(entries)'
    BY DEF EntriesFit, EntryCounts, CountedBy
  <1>4. ASSUME ~(now < time)
        PROVE  /\ time < es[a].resetAt /\ es[a].resetAt <= time + LimitWindow
               /\ Cardinality(Through(a, time - LimitWindow + 1, time + 1)) >= Limit
    <2> DEFINE C == CountedBy(a, windows[a])  T == Through(a, time - LimitWindow + 1, time + 1)
    <2>1. time < es[a].resetAt /\ es[a].resetAt \in Int /\ es[a].resetAt <= time + LimitWindow
      BY <1>1, <1>4 DEF EntryCounts
    <2>2. \A p \in C : p \in passed /\ p.by = a /\ p.at \in Int /\ p.at <= time
                       /\ p.at >= es[a].resetAt - LimitWindow
      BY <1>1 DEF EntryCounts, CountedBy, RInv, LimiterTypes
    <2>3. \A p \in C : time - LimitWindow + 1 <= p.at /\ p.at < time + 1
      BY <1>1, <2>1, <2>2
    <2>4. C \subseteq T /\ T \subseteq passed /\ C \subseteq passed
      BY <2>2, <2>3 DEF Through
    <2>5. IsFiniteSet(T) /\ Cardinality(T) \in Nat /\ Cardinality(C) \in Nat
      BY <2>4, PartsFinite DEF RInv, LimiterTypes
    <2>6. Cardinality(C) <= Cardinality(T)
      BY <2>4, <2>5, FS_Subset
    <2>7. Cardinality(C) >= Limit
      BY <1>1 DEF EntryCounts
    <2>8. QED
      BY <1>1, <2>1, <2>5, <2>6, <2>7
  <1>5. RefusedAtLimit'
    <2>1. \A f, to, b : Through(b, f, to)' = Through(b, f, to)
      BY DEF Through
    <2>2. ASSUME NEW r \in refused'
          PROVE  r.at \in Int /\
                 (~r.late => /\ r.at < r.retry /\ r.retry <= r.at + LimitWindow
                             /\ Cardinality(Through(r.by, r.at - LimitWindow + 1, r.at + 1)) >= Limit)
      <3>1. CASE r \in refused
        BY <3>1 DEF RInv, RefusedAtLimit
      <3>2. CASE r = [by |-> a, at |-> time, late |-> now < time, retry |-> es[a].resetAt]
        <4>1. r.by = a /\ r.at = time /\ r.retry = es[a].resetAt /\ (~r.late => ~(now < time))
          BY <3>2
        <4>2. QED
          BY <1>1, <1>4, <4>1
      <3>3. QED
        BY <3>1, <3>2
    <2>3. QED
      BY <2>1, <2>2 DEF RefusedAtLimit
  <1>6. QED
    BY <1>2, <1>3, <1>5 DEF RInv

LEMMA AllowKeeps ==
  ASSUME RInv, Limit > 0, LimitWindow > 0, NEW g \in Askers, Allow(g)
  PROVE  RInv'
  <1> DEFINE a == asking[g].by  now == asking[g].now  es == Prune(entries, now)
  <1>1. a \in Addresses /\ now \in Int /\ now <= time /\ UNCHANGED time
    BY DEF Allow, RInv, LimiterTypes
  <1>2. \A h \in DOMAIN asking' : h \in DOMAIN asking /\ asking'[h] = asking[h]
    BY DEF Allow
  <1>3. EntriesFit(es)
    BY <1>1, PruneFits, RateLimiterAssumption DEF RInv
  <1>4. \/ /\ ~(a \in DOMAIN es /\ now < es[a].resetAt)
           /\ Count(es, a, now, windows[a] + 1, [count |-> 1, resetAt |-> now + LimitWindow])
        \/ /\ a \in DOMAIN es /\ now < es[a].resetAt /\ es[a].count >= Limit
           /\ entries' = es /\ UNCHANGED <<passed, windows>>
           /\ refused' = refused \cup {[by |-> a, at |-> time, late |-> now < time,
                                        retry |-> es[a].resetAt]}
        \/ /\ a \in DOMAIN es /\ now < es[a].resetAt /\ ~(es[a].count >= Limit)
           /\ Count(es, a, now, windows[a], [count |-> es[a].count + 1, resetAt |-> es[a].resetAt])
    BY DEF Allow
  <1> HIDE DEF a, now, es
  <1>5. QED
    BY <1>1, <1>2, <1>3, <1>4, NextWindowOpens, FullWindowRefuses, OpenWindowCounts

LEMMA OthersKeepWindows ==
  ASSUME RInv, Passes \/ (\E g \in Askers, a \in Addresses : ReadClock(g, a)) \/ UNCHANGED limiterVars
  PROVE  RInv'
  <1>1. UNCHANGED <<entries, passed, refused, windows>> /\ time' \in {time, time + 1}
    BY DEF Passes, ReadClock, limiterVars
  <1>2. time \in Nat /\ time' \in Nat /\ time <= time' /\ LimitWindow \in Nat
    BY <1>1, RateLimiterAssumption DEF RInv, LimiterTypes
  <1>3. \A g \in DOMAIN asking' : \/ g \in DOMAIN asking /\ asking'[g] = asking[g]
                                  \/ asking'[g].by \in Addresses /\ asking'[g].now = time
    <2>1. CASE asking' = asking
      BY <2>1
    <2>2. ASSUME NEW g \in Askers, NEW a \in Addresses, ReadClock(g, a)
          PROVE  \A h \in DOMAIN asking' :
                   \/ h \in DOMAIN asking /\ asking'[h] = asking[h]
                   \/ asking'[h].by \in Addresses /\ asking'[h].now = time
      BY <2>2 DEF ReadClock
    <2>3. QED
      BY <2>1, <2>2 DEF Passes, limiterVars
  <1>4. LimiterTypes'
    <2>1. \A g \in DOMAIN asking' : /\ asking'[g].by \in Addresses
                                    /\ asking'[g].now \in Int /\ asking'[g].now <= time'
      BY <1>2, <1>3 DEF RInv, LimiterTypes
    <2>2. \A p \in passed : p.at \in Int /\ p.at <= time'
      BY <1>2 DEF RInv, LimiterTypes
    <2>3. QED
      BY <1>1, <1>2, <2>1, <2>2 DEF RInv, LimiterTypes
  <1>5. \A p \in passed : p.until \in Int
    BY DEF RInv, LimiterTypes
  <1>6. ASSUME NEW a \in DOMAIN entries
        PROVE  EntryCounts(a, entries)'
    <2>1. EntryCounts(a, entries)
      BY DEF RInv, EntriesFit
    <2>2. CountedBy(a, windows[a])' = CountedBy(a, windows[a])
      BY <1>1 DEF CountedBy
    <2>3. entries[a].resetAt <= time' + LimitWindow
      BY <1>2, <2>1 DEF EntryCounts
    <2>4. QED
      BY <1>1, <2>1, <2>2, <2>3 DEF EntryCounts
  <1>7. EntriesFit(entries)'
    BY <1>1, <1>2, <1>5, <1>6 DEF RInv, EntriesFit
  <1>8. WindowsFollow'
    BY <1>1, <1>2, <1>5 DEF RInv, WindowsFollow
  <1>9. CountsWithinLimit' /\ RefusedAtLimit'
    BY <1>1 DEF RInv, CountsWithinLimit, RefusedAtLimit, CountedBy, Through
  <1>10. QED
    BY <1>4, <1>7, <1>8, <1>9 DEF RInv

-----------------------------------------------------------------------------
(* The theorem.                                                               *)

\* What lies within the time of a window is of two windows at most.
LEMMA TwoWindowsAtMost ==
  ASSUME RInv, NEW a \in Addresses, NEW from \in Int
  PROVE  Cardinality({p \in Through(a, from, from + LimitWindow) : ~p.late}) <= 2 * Limit
  <1> DEFINE S == {p \in Through(a, from, from + LimitWindow) : ~p.late}
  <1>1. /\ Limit \in Nat /\ LimitWindow \in Nat /\ IsFiniteSet(passed)
        /\ \A p \in passed : {p.at, p.until} \subseteq Int /\ p.window \in Nat
    BY RateLimiterAssumption DEF RInv, LimiterTypes
  <1>2. \A p \in S : /\ p \in passed /\ p.by = a /\ ~p.late
                     /\ from <= p.at /\ p.at < from + LimitWindow
    BY DEF Through
  <1> HIDE DEF S
  <1>3. CASE S = {}
    <2>1. Cardinality(S) = 0
      BY <1>3, FS_EmptySet
    <2>2. QED
      BY <1>1, <2>1 DEF S
  <1>4. CASE S # {}
    <2> DEFINE W == {p.window : p \in S}
    <2>1. W \subseteq Nat /\ W # {}
      BY <1>1, <1>2, <1>4
    <2>2. \E w \in W : \A v \in W : w <= v
      BY <2>1, LeastNatural
    <2>3. PICK p \in S : \A s \in S : p.window <= s.window
      BY <2>2
    <2> DEFINE C == CountedBy(a, p.window)  D == CountedBy(a, p.window + 1)
    <2>4. ASSUME NEW s \in S
          PROVE  s \in C \cup D
      <3>1. /\ p \in passed /\ s \in passed /\ p.by = s.by /\ p.window \in Nat /\ s.window \in Nat
            /\ {p.at, s.at, p.until} \subseteq Int /\ from <= p.at /\ s.at < from + LimitWindow
        BY <1>1, <1>2
      <3>2. p.at < p.until /\ (p.window + 2 <= s.window => s.at >= p.until + LimitWindow)
        BY <1>2, <3>1 DEF RInv, WindowsFollow
      <3>3. ~(p.window + 2 <= s.window)
        BY <1>1, <3>1, <3>2
      <3>4. s.window = p.window \/ s.window = p.window + 1
        BY <2>3, <3>1, <3>3
      <3>5. QED
        BY <1>2, <3>1, <3>4 DEF CountedBy
    <2>5. p.window \in Nat /\ p.window + 1 \in Nat /\ C \subseteq passed /\ D \subseteq passed
      BY <1>1, <1>2 DEF CountedBy
    <2> HIDE DEF C, D
    <2>6. /\ IsFiniteSet(C) /\ IsFiniteSet(D) /\ Cardinality(C) \in Nat /\ Cardinality(D) \in Nat
      BY <1>1, <2>5, PartsFinite
    <2>7. Cardinality(C) <= Limit /\ Cardinality(D) <= Limit
      BY <2>5 DEF C, D, RInv, CountsWithinLimit
    <2>8. /\ IsFiniteSet(C \cup D)
          /\ Cardinality(C \cup D) = Cardinality(C) + Cardinality(D) - Cardinality(C \cap D)
      BY <2>6, FS_Union
    <2>9. Cardinality(C \cap D) \in Nat /\ Cardinality(C \cup D) \in Nat
      BY <2>6, <2>8, FS_Intersection, FS_CardinalityType
    <2>10. Cardinality(S) <= Cardinality(C \cup D) /\ Cardinality(S) \in Nat
      <3>1. S \subseteq C \cup D
        BY <2>4
      <3>2. QED
        BY <2>8, <3>1, FS_Subset, FS_CardinalityType
    <2>11. Cardinality(S) <= 2 * Limit
      BY <1>1, <2>6, <2>7, <2>8, <2>9, <2>10
    <2>12. QED
      BY <2>11 DEF S
  <1>5. QED
    BY <1>3, <1>4

\* The other parts leave the limiter alone.
LEMMA LimiterPart == [Next]_vars => [LimiterNext]_limiterVars
  BY DEF Next, vars

LEMMA LimiterStart ==
  ASSUME Init
  PROVE  RInv
  <1>1. /\ time = 0 /\ asking = <<>> /\ entries = <<>> /\ passed = {} /\ refused = {}
        /\ windows = [a \in Addresses |-> 0]
    BY DEF Init, LimiterInit
  <1>2. DOMAIN asking = {} /\ DOMAIN entries = {}
    BY <1>1
  <1>3. \A a, w : CountedBy(a, w) = {}
    BY <1>1 DEF CountedBy
  <1>4. LimiterTypes /\ EntriesFit(entries) /\ WindowsFollow /\ RefusedAtLimit
    BY <1>1, <1>2, FS_EmptySet DEF LimiterTypes, EntriesFit, WindowsFollow, RefusedAtLimit
  <1>5. CountsWithinLimit
    BY <1>3, FS_EmptySet, RateLimiterAssumption DEF CountsWithinLimit
  <1>6. QED
    BY <1>4, <1>5 DEF RInv

\* Of any addresses, however their requests are spread and whatever entries are removed:
\* twice the limit is let through at most within the time of a window, and who is refused
\* has been let through as often as the limit, by requests that did not wait for the lock.
THEOREM WindowsLimit == Spec => []WindowLimit
  <1> DEFINE J == Limit > 0 /\ LimitWindow > 0 => RInv
  <1>1. Init => J
    BY LimiterStart
  <1>2. J /\ [Next]_vars => J'
    <2>1. SUFFICES ASSUME Limit > 0, LimitWindow > 0, RInv, [Next]_vars
                   PROVE  RInv'
      OBVIOUS
    <2>2. CASE UNCHANGED limiterVars
      BY <2>1, <2>2, OthersKeepWindows
    <2>3. CASE LimiterNext
      BY <2>1, <2>3, AllowKeeps, OthersKeepWindows DEF LimiterNext
    <2>4. QED
      BY <2>1, <2>2, <2>3, LimiterPart
  <1>3. J => WindowLimit
    <2>1. \A t \in 0 .. MaxTime : t \in Int
      OBVIOUS
    <2>2. QED
      BY <2>1, TwoWindowsAtMost DEF RInv, RefusedAtLimit, WindowLimit
  <1> HIDE DEF J
  <1>4. QED
    BY <1>1, <1>2, <1>3, PTL DEF Spec

(***************************************************************************)
(* Listings.                                                                *)
(***************************************************************************)

-----------------------------------------------------------------------------
(* The inductive invariant.                                                   *)

IsReader(R) ==
  /\ R = [at |-> R.at, kind |-> R.kind, order |-> R.order, filter |-> R.filter, page |-> R.page,
          size |-> R.size, total |-> R.total]
  /\ R.at \in {"page", "count", "done"} /\ R.page \in Nat \ {0} /\ R.size \in Nat \ {0}
  /\ R.order \in {"asc", "desc"} /\ R.total \in Nat

ListingTypes ==
  /\ DOMAIN listed \subseteq Items /\ \A i \in DOMAIN listed : listed[i].key \in Int
  /\ IsReader(reader)
  /\ got \in [Items -> Nat] /\ throughout \subseteq Shown
  /\ listChanges = [added |-> listChanges.added, removed |-> listChanges.removed]
  /\ listChanges.added \in Nat /\ listChanges.removed \in Nat

\* What is listed before an item; the place of an item that no other may change with.
Before(j, i) == j # i /\ InOrder(j, i)
Ahead(i) == {j \in Shown : Before(j, i)}
Placed(i) == reader.kind \in TotalOrder \/ ~Tied(i)

\* How many places the pages have covered that were given.
Covered == (IF reader.at = "page" THEN reader.page - 1 ELSE reader.page) * reader.size

\* What was not given is still ahead, and nothing was given that is.
PlacesHold(given, covered) ==
  \A i \in throughout : Placed(i) =>
    /\ given[i] = 0 => Cardinality(Ahead(i)) >= covered
    /\ listChanges.added = 0 => /\ given[i] <= 1
                                /\ given[i] = 1 => Cardinality(Ahead(i)) < covered

\* All that was given are the places covered, as far as there are any; items that are not
\* listed were not given.
GivenIsCovered(given, covered) ==
  /\ throughout = Shown
  /\ SumFunction(given) = IF covered <= Cardinality(Shown) THEN covered ELSE Cardinality(Shown)
  /\ \A i \in Items \ Shown : given[i] = 0

ReadSoFar(given, covered) ==
  PlacesHold(given, covered) /\ (listChanges.added = 0 => GivenIsCovered(given, covered))

ListingInv ==
  /\ ListingTypes
  /\ reader.at # "done" /\ listChanges.removed = 0 => ReadSoFar(got, Covered)
  /\ PagesCover

-----------------------------------------------------------------------------
(* Places.                                                                    *)

LEMMA ShownIsFinite ==
  ASSUME ListingTypes
  PROVE  /\ IsFiniteSet(Shown) /\ Cardinality(Shown) \in Nat /\ Shown \subseteq Items
         /\ \A i : IsFiniteSet(Ahead(i)) /\ Cardinality(Ahead(i)) \in Nat
  <1>1. IsFiniteSet(Items) /\ Shown \subseteq Items
    BY ListingsAssumption DEF ListingTypes, Shown, Matching
  <1>2. IsFiniteSet(Shown) /\ \A i : Ahead(i) \subseteq Shown
    BY <1>1, FS_Subset DEF Ahead
  <1>3. QED
    BY <1>1, <1>2, FS_Subset, FS_CardinalityType

\* One answer: every item has one place of as many as there are.
LEMMA ListIsPermutation ==
  ASSUME ListingTypes, NEW s \in Lists(Shown)
  PROVE  /\ s \in Seq(Shown) /\ Len(s) = Cardinality(Shown)
         /\ \A m, n \in 1 .. Len(s) : s[m] = s[n] => m = n
         /\ \A i \in Shown : \E n \in 1 .. Len(s) : s[n] = i
         /\ \A m, n \in 1 .. Len(s) : m < n => InOrder(s[m], s[n])
  <1> DEFINE D == 1 .. Cardinality(Shown)
  <1>1. Cardinality(Shown) \in Nat /\ IsFiniteSet(Shown)
    BY ShownIsFinite
  <1>2. /\ s \in [D -> Shown] /\ \A m, n \in D : m # n => s[m] # s[n]
        /\ \A m, n \in DOMAIN s : m < n => InOrder(s[m], s[n])
    BY DEF Lists, SetToSeqs
  <1>3. s \in Seq(Shown) /\ Len(s) = Cardinality(Shown) /\ DOMAIN s = D
    BY <1>1, <1>2
  <1>4. s \in Injection(D, Shown)
    BY <1>2 DEF Injection, IsInjective
  <1>5. Cardinality(D) = Cardinality(Shown)
    BY <1>1, FS_Interval
  <1>6. s \in Surjection(D, Shown)
    BY <1>1, <1>4, <1>5, FS_Injection
  <1>7. \A i \in Shown : \E n \in D : s[n] = i
    BY <1>6 DEF Surjection
  <1>8. QED
    BY <1>2, <1>3, <1>7

LEMMA PlaceOfItem ==
  ASSUME ListingTypes, NEW s \in Lists(Shown), NEW i \in Shown, Placed(i)
  PROVE  \E n \in 1 .. Len(s) : s[n] = i /\ n = Cardinality(Ahead(i)) + 1
  <1>1. /\ s \in Seq(Shown) /\ Len(s) = Cardinality(Shown) /\ Len(s) \in Nat
        /\ \A m, n \in 1 .. Len(s) : s[m] = s[n] => m = n
        /\ \A j \in Shown : \E n \in 1 .. Len(s) : s[n] = j
        /\ \A m, n \in 1 .. Len(s) : m < n => InOrder(s[m], s[n])
    BY ListIsPermutation, ShownIsFinite
  <1>2. PICK n \in 1 .. Len(s) : s[n] = i
    BY <1>1
  <1>3. \A j \in Shown \ {i} : ~(InOrder(i, j) /\ InOrder(j, i))
    <2>1. SUFFICES ASSUME NEW j \in Shown \ {i}, InOrder(i, j), InOrder(j, i) PROVE FALSE
      OBVIOUS
    <2>2. {i, j} \subseteq DOMAIN listed /\ {listed[i].key, listed[j].key} \subseteq Int /\ {i, j} \subseteq Int
      BY ListingsAssumption DEF ListingTypes, Shown, Matching
    <2>3. listed[i].key = listed[j].key /\ (reader.kind \in TotalOrder => i < j /\ j < i)
      BY <2>1, <2>2 DEF InOrder
    <2>4. QED
      BY <2>2, <2>3 DEF Placed, Tied
  <1>4. Ahead(i) = {s[m] : m \in 1 .. n - 1}
    <2>1. \A m \in 1 .. n - 1 : m \in 1 .. Len(s) /\ m < n /\ s[m] \in Shown /\ s[m] # i
      BY <1>1, <1>2
    <2>2. \A m \in 1 .. n - 1 : s[m] \in Ahead(i)
      BY <1>1, <1>2, <2>1 DEF Ahead, Before
    <2>3. ASSUME NEW j \in Ahead(i)
          PROVE  \E m \in 1 .. n - 1 : s[m] = j
      <3>1. j \in Shown /\ j # i /\ InOrder(j, i)
        BY DEF Ahead, Before
      <3>2. PICK m \in 1 .. Len(s) : s[m] = j
        BY <1>1, <3>1
      <3>3. ~(n < m) /\ m # n
        BY <1>1, <1>2, <1>3, <3>1, <3>2
      <3>4. QED
        BY <1>1, <1>2, <3>2, <3>3
    <2>4. QED
      BY <2>2, <2>3
  <1>5. Cardinality(Ahead(i)) = n - 1
    <2> DEFINE t == [m \in 1 .. n - 1 |-> s[m]]
    <2>1. t \in Injection(1 .. n - 1, Ahead(i)) /\ t \in Surjection(1 .. n - 1, Ahead(i))
      BY <1>1, <1>4 DEF Injection, IsInjective, Surjection
    <2>2. ExistsBijection(1 .. n - 1, Ahead(i))
      BY <2>1 DEF ExistsBijection, Bijection
    <2>3. n - 1 \in Nat
      BY <1>1
    <2>4. QED
      BY <2>2, <2>3, FS_CountingElements
  <1>6. QED
    BY <1>1, <1>2, <1>5

LEMMA PageIs ==
  ASSUME NEW X, NEW s \in Seq(X), NEW page \in Nat \ {0}, NEW size \in Nat \ {0}, NEW i
  PROVE  Contains(Page(s, page, size), i) <=>
           \E m \in 1 .. Len(s) : (page - 1) * size < m /\ m <= page * size /\ s[m] = i
  <1> DEFINE a == (page - 1) * size + 1
             b == Min({page * size, Len(s)})
  <1>1. a \in Nat \ {0} /\ page * size \in Nat /\ Len(s) \in Nat
    OBVIOUS
  <1>2. b \in Nat /\ b <= Len(s) /\ b <= page * size /\ (b = Len(s) \/ b = page * size)
    BY <1>1, LeastOfTwo
  <1>3. Page(s, page, size) = SubSeq(s, a, b)
    BY DEF Page
  <1> HIDE DEF a, b
  <1>4. Len(SubSeq(s, a, b)) = (IF a <= b THEN b - a + 1 ELSE 0)
        /\ \A k \in 1 .. b - a + 1 : SubSeq(s, a, b)[k] = s[a + k - 1]
    BY <1>1, <1>2
  <1>5. Contains(SubSeq(s, a, b), i) <=> \E m \in a .. b : s[m] = i
    <2>1. ASSUME NEW k \in 1 .. Len(SubSeq(s, a, b)), SubSeq(s, a, b)[k] = i
          PROVE  \E m \in a .. b : s[m] = i
      <3>1. a + k - 1 \in a .. b /\ s[a + k - 1] = i
        BY <1>1, <1>2, <1>4, <2>1
      <3>2. QED
        BY <3>1
    <2>2. ASSUME NEW m \in a .. b, s[m] = i
          PROVE  \E k \in 1 .. Len(SubSeq(s, a, b)) : SubSeq(s, a, b)[k] = i
      <3>1. m - a + 1 \in 1 .. Len(SubSeq(s, a, b)) /\ SubSeq(s, a, b)[m - a + 1] = i
        BY <1>1, <1>2, <1>4, <2>2
      <3>2. QED
        BY <3>1
    <2>3. QED
      BY <2>1, <2>2 DEF Contains
  <1>6. \A m \in Int : m \in a .. b <=> m \in 1 .. Len(s) /\ (page - 1) * size < m /\ m <= page * size
    <2>1. (page - 1) * size \in Nat
      OBVIOUS
    <2>2. QED
      BY <1>1, <1>2, <2>1 DEF a
  <1>7. QED
    BY <1>3, <1>5, <1>6

\* The items of a page, and how many places it has.
ItemsOf(X, s, page, size) == {i \in X : Contains(Page(s, page, size), i)}

LEMMA SizeOfPage ==
  ASSUME NEW X, NEW s \in Seq(X), \A m, n \in 1 .. Len(s) : s[m] = s[n] => m = n,
         NEW page \in Nat \ {0}, NEW size \in Nat \ {0}
  PROVE  Cardinality(ItemsOf(X, s, page, size)) =
           (IF page * size <= Len(s) THEN page * size ELSE Len(s)) -
           (IF (page - 1) * size <= Len(s) THEN (page - 1) * size ELSE Len(s))
  <1> DEFINE a == (page - 1) * size
             b == page * size
             c == IF b <= Len(s) THEN b ELSE Len(s)
             d == IF a <= Len(s) THEN a ELSE Len(s)
             P == {i \in X : Contains(Page(s, page, size), i)}
  <1>1. a \in Nat /\ b \in Nat /\ b = a + size /\ Len(s) \in Nat
    OBVIOUS
  <1>2. \A i : Contains(Page(s, page, size), i) <=> \E m \in 1 .. Len(s) : a < m /\ m <= b /\ s[m] = i
    BY PageIs
  <1> HIDE DEF a, b
  <1>3. c \in Nat /\ d \in Nat /\ d <= c
        /\ \A m \in Int : m \in 1 .. c - d <=> m + d \in 1 .. Len(s) /\ a < m + d /\ m + d <= b
    BY <1>1
  <1> HIDE DEF c, d
  <1> DEFINE t == [m \in 1 .. c - d |-> s[m + d]]
  <1>4. \A m \in 1 .. c - d : m + d \in 1 .. Len(s) /\ s[m + d] \in X /\ Contains(Page(s, page, size), s[m + d])
    <2>1. \A m \in 1 .. c - d : m + d \in 1 .. Len(s) /\ a < m + d /\ m + d <= b
      BY <1>3
    <2>2. QED
      BY <1>2, <2>1
  <1>5. t \in Injection(1 .. c - d, P)
    <2>1. t \in [1 .. c - d -> P]
      BY <1>4
    <2>2. ASSUME NEW m \in 1 .. c - d, NEW n \in 1 .. c - d, t[m] = t[n]
          PROVE  m = n
      <3>1. m + d \in 1 .. Len(s) /\ n + d \in 1 .. Len(s) /\ s[m + d] = s[n + d]
        BY <1>4, <2>2
      <3>2. m + d = n + d
        BY <3>1
      <3>3. QED
        BY <1>3, <3>2
    <2>3. QED
      BY <2>1, <2>2 DEF Injection, IsInjective
  <1>6. ASSUME NEW i \in P
        PROVE  \E m \in 1 .. c - d : t[m] = i
    <2>1. PICK n \in 1 .. Len(s) : a < n /\ n <= b /\ s[n] = i
      BY <1>2
    <2>2. n - d \in Int /\ n - d + d = n
      BY <1>3
    <2>3. n - d \in 1 .. c - d
      BY <1>3, <2>1, <2>2
    <2>4. t[n - d] = i
      BY <2>1, <2>2, <2>3
    <2>5. QED
      BY <2>3, <2>4
  <1>7. t \in Surjection(1 .. c - d, P)
    BY <1>5, <1>6 DEF Injection, Surjection
  <1>8. ExistsBijection(1 .. c - d, P)
    BY <1>5, <1>7 DEF ExistsBijection, Bijection
  <1>9. c - d \in Nat
    BY <1>3
  <1>10. Cardinality(P) = c - d
    BY <1>8, <1>9, FS_CountingElements
  <1>11. QED
    BY <1>10 DEF a, b, c, d, ItemsOf

-----------------------------------------------------------------------------
(* A page, and the last one.                                                  *)

\* What a page of one answer makes of what was given.
WithPage(s) ==
  [i \in Items |-> IF Contains(Page(s, reader.page, reader.size), i) THEN got[i] + 1 ELSE got[i]]

\* An item is on the page its place is on.
LEMMA OnPage ==
  ASSUME ListingTypes, NEW s \in Lists(Shown), NEW i \in Shown, Placed(i)
  PROVE  Contains(Page(s, reader.page, reader.size), i) <=>
           /\ (reader.page - 1) * reader.size <= Cardinality(Ahead(i))
           /\ Cardinality(Ahead(i)) < reader.page * reader.size
  <1> DEFINE a == (reader.page - 1) * reader.size
             b == reader.page * reader.size
  <1>1. reader.page \in Nat \ {0} /\ reader.size \in Nat \ {0}
    BY DEF ListingTypes, IsReader
  <1>2. a \in Nat /\ b \in Nat /\ Cardinality(Ahead(i)) \in Nat
    BY <1>1, ShownIsFinite
  <1>3. s \in Seq(Shown) /\ \A m, n \in 1 .. Len(s) : s[m] = s[n] => m = n
    BY ListIsPermutation
  <1>4. PICK n \in 1 .. Len(s) : s[n] = i /\ n = Cardinality(Ahead(i)) + 1
    BY PlaceOfItem
  <1>5. Contains(Page(s, reader.page, reader.size), i) <=> \E m \in 1 .. Len(s) : a < m /\ m <= b /\ s[m] = i
    <2>1. s \in Seq(Shown)
      BY <1>3
    <2>2. PICK page \in Nat \ {0}, size \in Nat \ {0} : page = reader.page /\ size = reader.size
      BY <1>1
    <2>3. Contains(Page(s, page, size), i) <=>
            \E m \in 1 .. Len(s) : (page - 1) * size < m /\ m <= page * size /\ s[m] = i
      BY ONLY <2>1, page \in Nat \ {0}, size \in Nat \ {0}, PageIs
    <2>4. a = (page - 1) * size /\ b = page * size
      BY <2>2
    <2> HIDE DEF a, b
    <2>5. QED
      BY ONLY <2>2, <2>3, <2>4
  <1> HIDE DEF a, b
  <1>6. Contains(Page(s, reader.page, reader.size), i) <=> a < n /\ n <= b
    BY <1>3, <1>4, <1>5
  <1>7. a < n /\ n <= b <=> a <= Cardinality(Ahead(i)) /\ Cardinality(Ahead(i)) < b
    BY <1>2, <1>4
  <1>8. QED
    BY <1>6, <1>7 DEF a, b

\* What was given with a page are the places up to its end.
LEMMA PageReads ==
  ASSUME ListingTypes, NEW s \in Lists(Shown), ReadSoFar(got, (reader.page - 1) * reader.size)
  PROVE  WithPage(s) \in [Items -> Nat] /\ ReadSoFar(WithPage(s), reader.page * reader.size)
  <1> DEFINE a == (reader.page - 1) * reader.size
             b == reader.page * reader.size
             N == Cardinality(Shown)
             P == ItemsOf(Shown, s, reader.page, reader.size)
             one == [i \in Items |-> IF i \in P THEN 1 ELSE 0]
             g == WithPage(s)
  <1>1. reader.page \in Nat \ {0} /\ reader.size \in Nat \ {0} /\ got \in [Items -> Nat]
        /\ throughout \subseteq Shown
    BY DEF ListingTypes, IsReader
  <1>2. a \in Nat /\ b \in Nat /\ a <= b
    <2>1. b = a + reader.size /\ a \in Nat /\ b \in Nat
      BY <1>1
    <2>2. QED
      BY <1>1, <2>1
  <1>3. IsFiniteSet(Items) /\ Shown \subseteq Items /\ N \in Nat /\ \A i : Cardinality(Ahead(i)) \in Nat
    BY ShownIsFinite, ListingsAssumption
  <1>4. s \in Seq(Shown) /\ Len(s) = N /\ \A m, n \in 1 .. Len(s) : s[m] = s[n] => m = n
    BY ListIsPermutation
  <1>5. \A i \in Items : Contains(Page(s, reader.page, reader.size), i) <=> i \in P
    <2>1. \A i : Contains(Page(s, reader.page, reader.size), i) => i \in Shown
      <3>1. \A i : Contains(Page(s, reader.page, reader.size), i) => \E m \in 1 .. Len(s) : s[m] = i
        BY <1>1, <1>4, PageIs
      <3>2. QED
        BY <1>4, <3>1
    <2>2. QED
      BY <2>1 DEF ItemsOf
  <1>6. g \in [Items -> Nat] /\ \A i \in Items : g[i] = got[i] + one[i]
    BY <1>1, <1>5 DEF WithPage
  <1>7. \A i \in Shown : Placed(i) =>
          (i \in P <=> a <= Cardinality(Ahead(i)) /\ Cardinality(Ahead(i)) < b)
    BY OnPage DEF ItemsOf
  <1>8. Cardinality(P) = (IF b <= N THEN b ELSE N) - (IF a <= N THEN a ELSE N)
    <2>1. Cardinality(P) = (IF b <= Len(s) THEN b ELSE Len(s)) - (IF a <= Len(s) THEN a ELSE Len(s))
      BY ONLY <1>1, <1>4, SizeOfPage
    <2>2. QED
      BY <1>4, <2>1
  <1>9. ReadSoFar(got, a)
    OBVIOUS
  <1> HIDE DEF a, b, P, g, N
  <1>10. PlacesHold(g, b)
    <2>1. SUFFICES ASSUME NEW i \in throughout, Placed(i)
                   PROVE  /\ g[i] = 0 => Cardinality(Ahead(i)) >= b
                          /\ listChanges.added = 0 => /\ g[i] <= 1
                                                      /\ g[i] = 1 => Cardinality(Ahead(i)) < b
      BY DEF PlacesHold
    <2>2. i \in Items /\ i \in Shown /\ got[i] \in Nat /\ Cardinality(Ahead(i)) \in Nat
      BY <1>1, <1>3
    <2>3. /\ got[i] = 0 => Cardinality(Ahead(i)) >= a
          /\ listChanges.added = 0 => /\ got[i] <= 1
                                      /\ got[i] = 1 => Cardinality(Ahead(i)) < a
      BY <1>9, <2>1 DEF ReadSoFar, PlacesHold
    <2>4. i \in P <=> a <= Cardinality(Ahead(i)) /\ Cardinality(Ahead(i)) < b
      BY <1>7, <2>1, <2>2
    <2>5. g[i] = IF i \in P THEN got[i] + 1 ELSE got[i]
      BY <1>6, <2>2
    <2>6. QED
      BY <1>2, <2>2, <2>3, <2>4, <2>5
  <1>11. ASSUME listChanges.added = 0
         PROVE  GivenIsCovered(g, b)
    <2>1. /\ throughout = Shown /\ \A i \in Items \ Shown : got[i] = 0
          /\ SumFunction(got) = IF a <= N THEN a ELSE N
      BY <1>9, <1>11 DEF ReadSoFar, GivenIsCovered, N
    <2>2. P \subseteq Items
      BY <1>3 DEF P, ItemsOf
    <2>3. SumFunctionOnSet(one, Items) = Cardinality(P)
      <3>1. \A i \in Items : one[i] = IF i \in P THEN 1 ELSE 0
        OBVIOUS
      <3> HIDE DEF one
      <3>2. QED
        BY <1>3, <2>2, <3>1, SumOfOnes
    <2>4. \A i \in Items : got[i] \in Int /\ one[i] \in Int /\ g[i] = got[i] + one[i]
      BY <1>1, <1>6
    <2> HIDE DEF one
    <2>5. SumFunctionOnSet(g, Items) = SumFunctionOnSet(got, Items) + SumFunctionOnSet(one, Items)
      BY <1>3, <2>4, SumsAdd
    <2>6. DOMAIN g = Items /\ DOMAIN got = Items
      BY <1>1, <1>6
    <2>7. SumFunction(g) = SumFunctionOnSet(g, Items) /\ SumFunction(got) = SumFunctionOnSet(got, Items)
      BY <2>6 DEF SumFunction
    <2>8. SumFunction(g) = IF b <= N THEN b ELSE N
      BY <1>2, <1>3, <1>8, <2>1, <2>3, <2>5, <2>7
    <2>9. \A i \in Items \ Shown : g[i] = 0
      BY <1>6, <2>1 DEF P, one, ItemsOf
    <2>10. QED
      BY <2>1, <2>8, <2>9 DEF GivenIsCovered, N
  <1>12. QED
    BY <1>6, <1>10, <1>11 DEF ReadSoFar, b, g

\* Past the last page there is nothing.
LEMMA LastPageEnds ==
  ASSUME NEW n \in Nat, NEW page \in Nat \ {0}, NEW size \in Nat \ {0}, ~(page < TotalPages(n, size))
  PROVE  n <= page * size
  <1> DEFINE q == (n + size - 1) \div size
  <1>1. q \in Int /\ n + size - 1 < size * (q + 1)
    OBVIOUS
  <1>2. q <= page
    BY <1>1 DEF TotalPages
  <1> HIDE DEF q
  <1>3. size * (q + 1) = size * q + size /\ size * q \in Int
    BY <1>1
  <1>4. size * (page - q) >= 0 /\ size * (page - q) = size * page - size * q
    BY <1>1, <1>2
  <1>5. size * page = page * size /\ page * size \in Int
    OBVIOUS
  <1>6. QED
    BY <1>1, <1>3, <1>4, <1>5

\* What PagesCover says of an end of the reading.
AllGiven(given, total) ==
  /\ \A i \in throughout : Placed(i) => given[i] >= 1
  /\ listChanges.added = 0 =>
       /\ SumFunction(given) = total
       /\ \A i \in Items : Placed(i) => given[i] <= 1

LEMMA EndIsAll ==
  ASSUME ListingTypes, NEW given \in [Items -> Nat], NEW covered \in Nat,
         ReadSoFar(given, covered), Cardinality(Shown) <= covered
  PROVE  AllGiven(given, Cardinality(Shown))
  <1>1. Shown \subseteq Items /\ IsFiniteSet(Shown) /\ Cardinality(Shown) \in Nat
        /\ \A i : Cardinality(Ahead(i)) \in Nat
    BY ShownIsFinite
  <1>2. throughout \subseteq Shown
    BY DEF ListingTypes
  <1>3. \A i \in Shown : Cardinality(Ahead(i)) < Cardinality(Shown)
    <2>1. SUFFICES ASSUME NEW i \in Shown
                   PROVE  Cardinality(Ahead(i)) < Cardinality(Shown)
      OBVIOUS
    <2>2. Ahead(i) \in SUBSET (Shown \ {i})
      BY DEF Ahead, Before
    <2>3. IsFiniteSet(Shown \ {i}) /\ Cardinality(Shown \ {i}) = Cardinality(Shown) - 1
      BY <1>1, FS_RemoveElement
    <2>4. Cardinality(Ahead(i)) <= Cardinality(Shown \ {i})
      BY <2>2, <2>3, FS_Subset
    <2>5. QED
      BY <1>1, <2>3, <2>4
  <1>4. ASSUME NEW i \in throughout, Placed(i)
        PROVE  given[i] >= 1
    <2>1. i \in Shown /\ given[i] \in Nat
      BY <1>1, <1>2
    <2>2. given[i] = 0 => Cardinality(Ahead(i)) >= covered
      BY <1>4 DEF ReadSoFar, PlacesHold
    <2>3. QED
      BY <1>1, <1>3, <2>1, <2>2
  <1>5. ASSUME listChanges.added = 0
        PROVE  /\ SumFunction(given) = Cardinality(Shown)
               /\ \A i \in Items : Placed(i) => given[i] <= 1
    <2>1. /\ throughout = Shown /\ \A i \in Items \ Shown : given[i] = 0
          /\ SumFunction(given) = IF covered <= Cardinality(Shown) THEN covered ELSE Cardinality(Shown)
      BY <1>5 DEF ReadSoFar, GivenIsCovered
    <2>2. \A i \in throughout : Placed(i) => given[i] <= 1
      BY <1>5 DEF ReadSoFar, PlacesHold
    <2>3. QED
      BY <1>1, <2>1, <2>2
  <1>6. QED
    BY <1>4, <1>5 DEF AllGiven

-----------------------------------------------------------------------------
(* Each action.                                                               *)

\* What is listed depends on the listing and on what the client asked for.
SameQuestion ==
  /\ reader'.kind = reader.kind /\ reader'.order = reader.order /\ reader'.filter = reader.filter
  /\ UNCHANGED <<listed, throughout, listChanges>>

LEMMA SameList ==
  ASSUME SameQuestion
  PROVE  /\ Shown' = Shown /\ \A i : Ahead(i)' = Ahead(i) /\ (Placed(i)' <=> Placed(i))
  <1>1. Shown' = Shown
    BY DEF SameQuestion, Shown, Matching
  <1>2. \A i, j : InOrder(i, j)' <=> InOrder(i, j)
    BY DEF SameQuestion, InOrder
  <1>3. \A i : Ahead(i)' = Ahead(i)
    BY <1>1, <1>2 DEF Ahead, Before
  <1>4. \A i : Placed(i)' <=> Placed(i)
    BY <1>1 DEF SameQuestion, Placed, Tied
  <1>5. QED
    BY <1>1, <1>3, <1>4

\* So is what holds of what was given, and of an end.
LEMMA SameReading ==
  ASSUME SameQuestion, NEW given, NEW covered, got' = given
  PROVE  /\ ReadSoFar(given, covered) /\ Covered' = covered => ReadSoFar(got, Covered)'
         /\ AllGiven(given, reader'.total) => PagesCover'
  <1>1. Shown' = Shown /\ \A i : Ahead(i)' = Ahead(i) /\ (Placed(i)' <=> Placed(i))
    BY SameList
  <1>2. throughout' = throughout /\ listChanges' = listChanges
    BY DEF SameQuestion
  <1>3. ASSUME ReadSoFar(given, covered), Covered' = covered
        PROVE  ReadSoFar(got, Covered)'
    <2>1. PlacesHold(got, Covered)'
      BY <1>1, <1>2, <1>3 DEF ReadSoFar, PlacesHold
    <2>2. listChanges'.added = 0 => GivenIsCovered(got, Covered)'
      BY <1>1, <1>2, <1>3 DEF ReadSoFar, GivenIsCovered
    <2>3. QED
      BY <2>1, <2>2 DEF ReadSoFar
  <1>4. ASSUME AllGiven(given, reader'.total)
        PROVE  PagesCover'
    <2>1. \A i : (reader'.kind \in TotalOrder \/ ~Tied(i)') <=> Placed(i)
      BY <1>1 DEF Placed
    <2>2. QED
      BY <1>2, <1>4, <2>1 DEF PagesCover, AllGiven
  <1>5. QED
    BY <1>3, <1>4

\* An answer with what there is in all, after the pages up to this one.
LEMMA AnswerKeeps ==
  ASSUME ListingTypes, NEW given \in [Items -> Nat], got' = given, Answer(Cardinality(Shown)),
         UNCHANGED <<listed, throughout, listChanges>>,
         listChanges.removed = 0 => ReadSoFar(given, reader.page * reader.size)
  PROVE  ListingInv'
  <1> DEFINE n == Cardinality(Shown)
             c == reader.page * reader.size
  <1>1. IsReader(reader)
    BY DEF ListingTypes
  <1>2. n \in Nat
    BY ShownIsFinite
  <1> HIDE DEF n
  <1>3. reader' = [at |-> IF reader.page < TotalPages(n, reader.size) THEN "page" ELSE "done",
                   kind |-> reader.kind, order |-> reader.order, filter |-> reader.filter,
                   page |-> reader.page + 1, size |-> reader.size, total |-> n]
    BY <1>1 DEF Answer, IsReader, n
  <1>4. SameQuestion
    BY <1>3 DEF SameQuestion
  <1>5. IsReader(reader')
    BY <1>1, <1>2, <1>3 DEF IsReader
  <1>6. ListingTypes'
    <2>1. Shown' = Shown
      BY <1>4, SameList
    <2>2. QED
      BY <1>5, <2>1 DEF ListingTypes
  <1>7. CASE reader.page < TotalPages(n, reader.size)
    <2>1. reader'.at = "page" /\ reader'.page = reader.page + 1 /\ reader'.size = reader.size
      BY <1>3, <1>7
    <2>2. Covered' = c
      <3>1. reader.page \in Nat
        BY <1>1 DEF IsReader
      <3>2. reader'.page - 1 = reader.page
        BY <2>1, <3>1
      <3>3. Covered' = (reader'.page - 1) * reader'.size
        BY <2>1 DEF Covered
      <3>4. QED
        BY <2>1, <3>2, <3>3
    <2>3. listChanges'.removed = 0 => ReadSoFar(got, Covered)'
      BY <1>4, <2>2, SameReading
    <2>4. PagesCover'
      BY <2>1 DEF PagesCover
    <2>5. QED
      BY <1>6, <2>3, <2>4 DEF ListingInv
  <1>8. CASE ~(reader.page < TotalPages(n, reader.size))
    <2>1. reader'.at = "done" /\ reader'.total = n
      BY <1>3, <1>8
    <2>2. c \in Nat /\ n <= c
      <3>1. reader.page \in Nat \ {0} /\ reader.size \in Nat \ {0}
        BY <1>1 DEF IsReader
      <3>2. n <= c
        BY <1>2, <1>8, <3>1, LastPageEnds
      <3>3. QED
        BY <3>1, <3>2
    <2> HIDE DEF c
    <2>3. listChanges.removed = 0 => AllGiven(given, n)
      <3>1. listChanges.removed = 0 => ReadSoFar(given, c)
        BY DEF c
      <3>2. QED
        BY <2>2, <3>1, EndIsAll DEF n
    <2>4. listChanges.removed = 0 => PagesCover'
      BY <1>4, <2>1, <2>3, SameReading
    <2>5. PagesCover'
      BY <2>4 DEF PagesCover
    <2>6. QED
      BY <1>6, <2>1, <2>5 DEF ListingInv
  <1>9. QED
    BY <1>7, <1>8

LEMMA ListPageKeeps ==
  ASSUME ListingInv, ListPage
  PROVE  ListingInv'
  <1>1. ListingTypes /\ reader.at = "page" /\ UNCHANGED <<listed, throughout, listChanges>>
    BY DEF ListingInv, ListPage
  <1>2. PICK s \in Lists(Shown) : got' = WithPage(s)
    BY DEF ListPage, WithPage
  <1>3. Covered = (reader.page - 1) * reader.size
    BY <1>1 DEF Covered
  <1>4. listChanges.removed = 0 => ReadSoFar(WithPage(s), reader.page * reader.size)
    BY <1>1, <1>3, PageReads DEF ListingInv
  <1>5. WithPage(s) \in [Items -> Nat]
    BY <1>1 DEF WithPage, ListingTypes
  <1>6. CASE reader.kind \in OneRead
    <2>1. Answer(Cardinality(Shown))
      BY <1>6 DEF ListPage
    <2>2. QED
      BY <1>1, <1>2, <1>4, <1>5, <2>1, AnswerKeeps
  <1>7. CASE reader.kind \notin OneRead
    <2>1. reader' = [reader EXCEPT !.at = "count"]
      BY <1>7 DEF ListPage
    <2>2. IsReader(reader)
      BY <1>1 DEF ListingTypes
    <2>3. reader' = [at |-> "count", kind |-> reader.kind, order |-> reader.order,
                     filter |-> reader.filter, page |-> reader.page, size |-> reader.size,
                     total |-> reader.total]
      BY <2>1, <2>2 DEF IsReader
    <2>4. SameQuestion
      BY <1>1, <2>3 DEF SameQuestion
    <2>5. ListingTypes'
      <3>1. IsReader(reader')
        BY <2>2, <2>3 DEF IsReader
      <3>2. Shown' = Shown
        BY <2>4, SameList
      <3>3. QED
        BY <1>1, <1>2, <1>5, <3>1, <3>2 DEF ListingTypes
    <2>6. Covered' = reader.page * reader.size
      BY <2>3 DEF Covered
    <2>7. listChanges'.removed = 0 => ReadSoFar(got, Covered)'
      BY <1>1, <1>2, <1>4, <2>4, <2>6, SameReading
    <2>8. PagesCover'
      BY <2>3 DEF PagesCover
    <2>9. QED
      BY <2>5, <2>7, <2>8 DEF ListingInv
  <1>8. QED
    BY <1>6, <1>7

LEMMA CountItemsKeeps ==
  ASSUME ListingInv, CountItems
  PROVE  ListingInv'
  <1>1. /\ ListingTypes /\ reader.at = "count" /\ got \in [Items -> Nat]
        /\ got' = got /\ UNCHANGED <<listed, throughout, listChanges>>
        /\ Answer(Cardinality(Shown))
    BY DEF ListingInv, ListingTypes, CountItems
  <1>2. Covered = reader.page * reader.size
    BY <1>1 DEF Covered
  <1>3. listChanges.removed = 0 => ReadSoFar(got, reader.page * reader.size)
    BY <1>1, <1>2 DEF ListingInv
  <1>4. QED
    BY <1>1, <1>3, AnswerKeeps

LEMMA ChangeKeeps ==
  ASSUME ListingInv, NEW i \in Items, ListingChanges(i)
  PROVE  ListingInv'
  <1> DEFINE after == Matching(listed', reader.filter)
             came == after \ Shown
             went == Shown \ after
  <1>1. ListingTypes /\ reader.at # "done" /\ reader' = reader /\ got' = got
    BY DEF ListingInv, ListingChanges
  <1>2. Shown' = after
    BY <1>1 DEF Shown
  <1>3. /\ DOMAIN listed' \subseteq DOMAIN listed \cup {i}
        /\ \A j \in DOMAIN listed \cap DOMAIN listed' : listed'[j].key = listed[j].key
        /\ \A j \in DOMAIN listed' : listed'[j].key \in Int
    <2>1. CASE \E k \in Keys, o \in BOOLEAN :
                 listed' = [j \in DOMAIN listed \cup {i} |->
                              IF j = i THEN [key |-> k, open |-> o] ELSE listed[j]]
      BY <1>1, <2>1, ListingsAssumption DEF ListingTypes, ListingChanges
    <2>2. CASE listed' = [j \in DOMAIN listed \ {i} |-> listed[j]]
      BY <1>1, <2>2 DEF ListingTypes
    <2>3. \/ \E k \in Keys, o \in BOOLEAN :
               listed' = [j \in DOMAIN listed \cup {i} |->
                            IF j = i THEN [key |-> k, open |-> o] ELSE listed[j]]
          \/ listed' = [j \in DOMAIN listed \ {i} |-> listed[j]]
      <3> DEFINE Put(k, o) == [j \in DOMAIN listed \cup {i} |->
                                 IF j = i THEN [key |-> k, open |-> o] ELSE listed[j]]
                 gone == [j \in DOMAIN listed \ {i} |-> listed[j]]
      <3>1. listed' \in {Put(k, o) : k \in Keys, o \in BOOLEAN} \cup {gone}
        BY DEF ListingChanges
      <3> HIDE DEF Put, gone
      <3>2. (\E k \in Keys, o \in BOOLEAN : listed' = Put(k, o)) \/ listed' = gone
        BY <3>1
      <3>3. QED
        BY <3>2 DEF Put, gone
    <2>4. QED
      BY <2>1, <2>2, <2>3
  <1>4. /\ listChanges' = [added   |-> listChanges.added + Cardinality(came),
                           removed |-> listChanges.removed + Cardinality(went)]
        /\ throughout' = throughout \cap after
        /\ listChanges' # listChanges
    BY DEF ListingChanges
  <1>5. /\ Shown \subseteq Items /\ after \subseteq Items /\ IsFiniteSet(Shown) /\ IsFiniteSet(after)
        /\ IsFiniteSet(came) /\ IsFiniteSet(went)
        /\ Cardinality(came) \in Nat /\ Cardinality(went) \in Nat
        /\ (Cardinality(went) = 0 => went = {})
    <2>1. Shown \subseteq Items /\ after \subseteq Items
      BY <1>1, <1>3 DEF ListingTypes, Shown, Matching
    <2>2. IsFiniteSet(Shown) /\ IsFiniteSet(after)
      BY <2>1, FS_Subset, ListingsAssumption
    <2>3. IsFiniteSet(came) /\ IsFiniteSet(went)
      BY <2>2, FS_Subset
    <2>4. Cardinality(came) \in Nat /\ Cardinality(went) \in Nat
      BY <2>3, FS_CardinalityType
    <2>5. Cardinality(went) = 0 => went = {}
      BY <2>3, FS_EmptySet
    <2>6. QED
      BY <2>1, <2>2, <2>3, <2>4, <2>5
  <1> HIDE DEF after
  <1>6. listChanges = [added |-> listChanges.added, removed |-> listChanges.removed]
        /\ listChanges.added \in Nat /\ listChanges.removed \in Nat
    BY <1>1 DEF ListingTypes
  <1>7. ListingTypes'
    <2>1. DOMAIN listed' \subseteq Items
      BY <1>1, <1>3 DEF ListingTypes
    <2>2. throughout' \subseteq Shown'
      BY <1>2, <1>4
    <2>3. /\ listChanges' = [added |-> listChanges'.added, removed |-> listChanges'.removed]
          /\ listChanges'.added \in Nat /\ listChanges'.removed \in Nat
      BY <1>4, <1>5, <1>6
    <2>4. QED
      BY <1>1, <1>3, <2>1, <2>2, <2>3 DEF ListingTypes
  <1>8. PagesCover'
    BY <1>1 DEF PagesCover
  <1>9. ASSUME listChanges'.removed = 0
        PROVE  ReadSoFar(got, Covered)'
    <2>1. listChanges.removed = 0 /\ went = {}
      BY <1>4, <1>5, <1>6, <1>9
    <2>2. listChanges'.added # 0
      <3>1. Cardinality(went) = 0
        BY <2>1, FS_EmptySet
      <3> HIDE DEF came, went
      <3>2. Cardinality(came) # 0
        BY <1>4, <1>5, <1>6, <3>1
      <3>3. QED
        BY <1>4, <1>5, <1>6, <3>2
    <2>3. Shown \subseteq Shown' /\ throughout' = throughout
      BY <1>1, <1>2, <1>4, <2>1 DEF ListingTypes
    <2>4. PlacesHold(got, Covered)
      BY <1>1, <2>1 DEF ListingInv, ReadSoFar
    <2>5. Covered' = Covered
      BY <1>1 DEF Covered
    <2>6. \A j \in Shown : j \in DOMAIN listed /\ j \in DOMAIN listed' /\ listed'[j].key = listed[j].key
      <3>1. Shown \subseteq DOMAIN listed /\ Shown' \subseteq DOMAIN listed'
        BY DEF Shown, Matching
      <3>2. QED
        BY <1>3, <2>3, <3>1
    <2>7. \A j \in Shown : Placed(j)' => Placed(j)
      BY <1>1, <2>3, <2>6 DEF Placed, Tied
    <2>8. \A j \in Shown : Cardinality(Ahead(j)) \in Nat /\ Cardinality(Ahead(j)') \in Nat
                           /\ Cardinality(Ahead(j)) <= Cardinality(Ahead(j)')
      <3>1. SUFFICES ASSUME NEW j \in Shown
                     PROVE  /\ Cardinality(Ahead(j)) \in Nat /\ Cardinality(Ahead(j)') \in Nat
                            /\ Cardinality(Ahead(j)) <= Cardinality(Ahead(j)')
        OBVIOUS
      <3>2. Ahead(j) \subseteq Ahead(j)'
        BY <1>1, <2>3, <2>6 DEF Ahead, Before, InOrder
      <3>3. Ahead(j)' \subseteq after
        BY <1>2 DEF Ahead
      <3>4. IsFiniteSet(Ahead(j)')
        BY <1>5, <3>3, FS_Subset
      <3>5. QED
        BY <3>2, <3>4, FS_Subset, FS_CardinalityType
    <2>9. PlacesHold(got, Covered)'
      <3>1. SUFFICES ASSUME NEW j \in throughout, Placed(j)', got[j] = 0
                     PROVE  Cardinality(Ahead(j)') >= Covered
        BY <1>1, <2>2, <2>3, <2>5 DEF PlacesHold
      <3>2. j \in Shown /\ Placed(j)
        BY <1>1, <2>7, <3>1 DEF ListingTypes
      <3>3. Cardinality(Ahead(j)) >= Covered
        BY <2>4, <3>1, <3>2 DEF PlacesHold
      <3>4. Covered \in Int
        BY <1>1 DEF Covered, ListingTypes, IsReader
      <3>5. QED
        BY <2>8, <3>2, <3>3, <3>4
    <2>10. QED
      BY <2>2, <2>9 DEF ReadSoFar
  <1>10. QED
    BY <1>7, <1>8, <1>9 DEF ListingInv

LEMMA ListingsStep ==
  ASSUME ListingInv, [ListingsNext]_listingVars
  PROVE  ListingInv'
  <1>1. CASE ListPage
    BY <1>1, ListPageKeeps
  <1>2. CASE CountItems
    BY <1>2, CountItemsKeeps
  <1>3. CASE \E i \in Items : ListingChanges(i)
    BY <1>3, ChangeKeeps
  <1>4. CASE UNCHANGED listingVars
    <2>1. SameQuestion /\ got' = got /\ reader' = reader
      BY <1>4 DEF SameQuestion, listingVars
    <2>2. Shown' = Shown /\ \A i : Ahead(i)' = Ahead(i) /\ (Placed(i)' <=> Placed(i))
      BY <2>1, SameList
    <2>3. Covered' = Covered
      BY <2>1 DEF Covered
    <2>4. ListingTypes'
      BY <1>4, <2>2 DEF ListingInv, ListingTypes, listingVars
    <2>5. reader'.at # "done" /\ listChanges'.removed = 0 => ReadSoFar(got, Covered)'
      BY <2>1, <2>3, SameReading DEF ListingInv, SameQuestion
    <2>6. PagesCover'
      <3>1. \A i : Tied(i)' <=> Tied(i)
        BY <2>1, <2>2 DEF Tied, SameQuestion
      <3>2. QED
        BY <2>1, <3>1 DEF ListingInv, PagesCover, SameQuestion
    <2>7. QED
      BY <2>4, <2>5, <2>6 DEF ListingInv
  <1>5. QED
    BY <1>1, <1>2, <1>3, <1>4 DEF ListingsNext

LEMMA ListingsStart ==
  ASSUME ListingsInit
  PROVE  ListingInv
  <1>1. PICK S \in SUBSET Items : listed \in [S -> [key : Keys, open : BOOLEAN]]
    BY DEF ListingsInit
  <1>2. reader.at = "page" /\ reader.page = 1 /\ IsReader(reader)
    <2>1. PICK k \in Kinds, o \in {"asc", "desc"}, f \in {"all", "open"}, z \in PageSizes :
            reader = [at |-> "page", kind |-> k, order |-> o, filter |-> f, page |-> 1, size |-> z,
                      total |-> 0]
      BY DEF ListingsInit
    <2>2. z \in Nat \ {0}
      BY ListingsAssumption
    <2>3. QED
      BY <2>1, <2>2 DEF IsReader
  <1>3. ListingTypes
    BY <1>1, <1>2, ListingsAssumption DEF ListingsInit, ListingTypes
  <1>4. Covered = 0
    BY <1>2 DEF Covered, IsReader
  <1>5. PlacesHold(got, Covered)
    <2>1. \A i \in Shown : i \in Items /\ Cardinality(Ahead(i)) \in Nat
      BY <1>3, ShownIsFinite
    <2>2. QED
      BY <1>4, <2>1 DEF ListingsInit, PlacesHold
  <1>6. GivenIsCovered(got, Covered)
    <2>1. \A i \in Items : got[i] = IF i \in {} THEN 1 ELSE 0
      BY DEF ListingsInit
    <2>2. SumFunctionOnSet(got, Items) = Cardinality({})
      BY <2>1, ListingsAssumption, SumOfOnes
    <2>3. SumFunction(got) = 0
      BY <2>2, FS_EmptySet DEF SumFunction, ListingsInit
    <2>4. Cardinality(Shown) \in Nat
      BY <1>3, ShownIsFinite
    <2>5. QED
      BY <1>4, <2>1, <2>3, <2>4 DEF GivenIsCovered, ListingsInit
  <1>7. PagesCover
    BY <1>2 DEF PagesCover
  <1>8. QED
    BY <1>3, <1>5, <1>6, <1>7 DEF ListingInv, ReadSoFar

-----------------------------------------------------------------------------

\* Without a client there is nothing to show.
ListingPart == IF part = "listing" THEN ListingInv ELSE reader.at = "none"

\* The pages of a listing that is read while items come, from whichever client and in any
\* page size, cover all that was listed throughout, and nothing twice when nothing came
\* (httpapi ParsePagination, NewPaginationMeta, and the ORDER BY of each listing).
THEOREM PagesCoverThroughout == Spec => []PagesCover
  <1>1. Init => ListingPart
    <2>1. SUFFICES ASSUME Init PROVE ListingPart
      OBVIOUS
    <2>2. CASE part = "listing"
      BY <2>1, <2>2, ListingsStart DEF Init, ListingPart
    <2>3. CASE part # "listing"
      BY <2>1, <2>3 DEF Init, ListingPart, NoListing
    <2>4. QED
      BY <2>2, <2>3
  <1>2. [Next]_vars => part' = part /\ IF part = "listing" THEN [ListingsNext]_listingVars
                                       ELSE UNCHANGED listingVars
    BY DEF Next, vars
  <1>3. ListingPart /\ [Next]_vars => ListingPart'
    BY <1>2, ListingsStep DEF ListingPart, listingVars
  <1>4. ListingPart => PagesCover
    BY DEF ListingPart, ListingInv, PagesCover
  <1>5. QED
    BY <1>1, <1>3, <1>4, PTL DEF Spec
===============================================================================
