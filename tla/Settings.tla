-------------------------------- MODULE Settings --------------------------------
(***************************************************************************)
(* The rules of an organization (orgrulesettings): sections of overrides,    *)
(* over the defaults the program booted with (config, metricdefinition). An  *)
(* update reads the row, lays its sections over it and writes all of it, and *)
(* no transaction holds the two together.                                    *)
(***************************************************************************)
EXTENDS Integers

CONSTANTS
  Requests,     \* updates: of some sections, some fields. One section of thresholds, one of
                \* shares and that of the weights stand for the seven.
  Boots,        \* what the environment may say, for all fields
  Definitions,  \* what metric_definitions may say: a section of weights
  Writers, MaxUpdates, MaxBoots

VARIABLES
  defaults,  \* insightDefaults and metricsDefaults of the process
  stored,    \* organization_rule_settings: the sections that were overridden
  writer,    \* the updates under way
  used,      \* of MaxUpdates and MaxBoots
  kept,      \* history: of every section, what the last accepted update said of it
  raced,     \* history: the sections an overlapping update may have set back
  rebooted   \* history: the defaults are not those stored was validated with

settingsVars == <<defaults, stored, writer, used, kept, raced, rebooted>>

Thresholds == {"wait"}
Shares01 == {"rate"}
Weights == {"commits", "additions"}
Whole == 2  \* a share of one

\* Of a threshold or share, the one from which an insight is of high severity.
High == [wait |-> "waitHigh", rate |-> "rateHigh"]

\* What rules can be calculated with.
Calculable(d) ==
  /\ \A f \in Thresholds : d[f] > 0
  /\ \A f \in Shares01 : d[f] \in 1 .. Whole
  /\ \A f \in Weights : d[f] >= 0
  /\ \E f \in Weights : d[f] > 0

\* What config.Load asks of defaults, and decodeRepositoryMetricsRuleConfig of the weights.
Valid(d) ==
  /\ Calculable(d)
  /\ \A f \in DOMAIN High : d[f] <= d[High[f]] /\ (f \in Shares01 => d[High[f]] <= Whole)

\* What f says, and of what f does not say, what g says.
Over(f, g) == [x \in DOMAIN f \cup DOMAIN g |-> IF x \in DOMAIN f THEN f[x] ELSE g[x]]

\* LoadMetricsRuleConfig: the active definition, over the environment.
LoadMetricsRuleConfig(environment, definition) == Over(definition, environment)

\* applyInsightOverrides and applyMetricsOverrides: a field that is not overridden is the
\* default's, and so are the thresholds of high severity, which no section has.
ApplyOverrides(sections, section, d) ==
  IF section \in DOMAIN sections THEN Over(sections[section], d) ELSE d
SectionOf == [wait |-> "review", waitHigh |-> "review", rate |-> "failure", rateHigh |-> "failure",
              commits |-> "metrics", additions |-> "metrics"]
Effective(sections, d) == [f \in DOMAIN d |-> ApplyOverrides(sections, SectionOf[f], d)[f]]

\* The environment says something of every field, a definition of no more than weights,
\* and the process can start.
ASSUME SettingsAssumption ==
  /\ \A e \in Boots : DOMAIN e = DOMAIN SectionOf
  /\ \A m \in Definitions : DOMAIN m \subseteq Weights
  /\ \E e \in Boots : Valid(e)

\* A mutated merge that stores what was asked for and nothing else.
MergeStoredConfigRequest(sections, request) == request

\* A section that is named is replaced as a whole: a field it no longer has is the
\* default's again.
MergeStoredConfig(sections, request) == Over(request, sections)

\* A mutated check of one field at a time.
ValidateStoredConfigFields(sections, d) ==
  \A s \in DOMAIN sections : \A f \in DOMAIN sections[s] :
    CASE f \in Thresholds -> sections[s][f] > 0
      [] f \in Shares01   -> sections[s][f] \in 1 .. Whole
      [] f \in Weights    -> sections[s][f] >= 0

\* The fields that are overridden, and the weights together where there is a section of them.
ValidateStoredConfig(sections, d) ==
  /\ \A s \in DOMAIN sections : \A f \in DOMAIN sections[s] :
       CASE f \in Thresholds -> sections[s][f] > 0
         [] f \in Shares01   -> sections[s][f] \in 1 .. Whole
         [] f \in Weights    -> sections[s][f] >= 0
  /\ "metrics" \in DOMAIN sections =>
       \E f \in Weights : ApplyOverrides(sections, "metrics", d)[f] > 0

-----------------------------------------------------------------------------

NoUpdate == [at |-> "idle", request |-> <<>>, read |-> <<>>, missed |-> {}]

SettingsInit ==
  /\ \E e \in Boots, m \in Definitions :
       /\ Valid(LoadMetricsRuleConfig(e, m))
       /\ defaults = LoadMetricsRuleConfig(e, m)
  /\ stored = <<>> /\ writer = [w \in Writers |-> NoUpdate]
  /\ used = [updates |-> 0, boots |-> 0]
  /\ kept = <<>> /\ raced = {} /\ rebooted = FALSE

\* Update, up to the read.
ReadSettings(w) ==
  /\ writer[w].at = "idle" /\ used.updates < MaxUpdates
  /\ \E r \in Requests :
       writer' = [writer EXCEPT ![w] = [at |-> "write", request |-> r, read |-> stored, missed |-> {}]]
  /\ used' = [used EXCEPT !.updates = @ + 1]
  /\ UNCHANGED <<defaults, stored, kept, raced, rebooted>>

\* Update, from there on: what is validated is what was read, with the update.
WriteSettings(w) ==
  LET W == writer[w]
      merged == MergeStoredConfig(W.read, W.request)
      named == DOMAIN W.request
  IN
  /\ W.at = "write" /\ ValidateStoredConfig(merged, defaults)
  /\ stored' = merged
  /\ writer' = [v \in Writers |->
       IF v = w THEN NoUpdate
       ELSE IF writer[v].at = "idle" THEN writer[v]
       ELSE [writer[v] EXCEPT !.missed = @ \cup named \cup W.missed]]
  /\ kept' = Over(W.request, kept)
  /\ raced' = (raced \cup W.missed) \ named
  /\ rebooted' = FALSE
  /\ UNCHANGED <<defaults, used>>

\* Update refused, or the database fails.
RefuseSettings(w) ==
  /\ writer[w].at = "write" /\ writer' = [writer EXCEPT ![w] = NoUpdate]
  /\ UNCHANGED <<defaults, stored, used, kept, raced, rebooted>>

\* The process starts anew, or does not when its defaults are no good. What is stored is
\* not looked at.
Boot ==
  /\ used.boots < MaxBoots /\ used' = [used EXCEPT !.boots = @ + 1]
  /\ \E e \in Boots, m \in Definitions :
       /\ Valid(LoadMetricsRuleConfig(e, m))
       /\ defaults' = LoadMetricsRuleConfig(e, m)
       /\ rebooted' = (rebooted \/ (defaults' # defaults /\ stored # <<>>))
  /\ writer' = [w \in Writers |-> NoUpdate]
  /\ UNCHANGED <<stored, kept, raced>>

SettingsNext ==
  \/ Boot
  \/ \E w \in Writers : ReadSettings(w) \/ WriteSettings(w) \/ RefuseSettings(w)

-----------------------------------------------------------------------------

\* ResolveInsightRules and ResolveMetricsRules answer rules that can be calculated with,
\* as the environment's have to be: no threshold of nothing, and not all weights 0. Not
\* so once the program was started with other defaults, which the overrides were never
\* checked against. (The environment's threshold may not be above that of high severity,
\* an organization's may: nothing compares the two, and then whatever reaches it is high.)
EffectiveUsable == rebooted \/ Calculable(Effective(stored, defaults))

\* What an accepted update said of a section stays until another names it, whatever the
\* updates of other sections, the refused ones and the restarts: only one that had read
\* the row before may set it back.
UpdateKept ==
  /\ DOMAIN stored \subseteq DOMAIN kept
  /\ \A s \in DOMAIN kept \ raced : s \in DOMAIN stored /\ stored[s] = kept[s]
=============================================================================
