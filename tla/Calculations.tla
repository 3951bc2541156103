----------------------------- MODULE Calculations -----------------------------
(***************************************************************************)
(* The parts that share no state with another: what is calculated from what  *)
(* is stored (Metrics, InsightRules), the rules it goes by (Settings), one   *)
(* pull request and its answer (PullRequests), the paging of listings        *)
(* (Listings), the calls to GitHub (GithubClient), the API's rate limit      *)
(* (RateLimiter) and the removal of organizations (Lifecycle). A behaviour   *)
(* is one of one of them; the variables of the others stay as they are.      *)
(***************************************************************************)
EXTENDS InsightRules, Settings, PullRequests, Listings, GithubClient, RateLimiter, Lifecycle

VARIABLE part  \* which of them

Parts == {"metrics", "insights", "settings", "pull request", "listing", "calls", "limit", "lifecycle"}

vars == <<part, metricsVars, insightVars, settingsVars, pullVars, listingVars, clientVars,
          limiterVars, lifecycleVars>>

-----------------------------------------------------------------------------

\* Nothing calculated yet, and nothing left to calculate.
NothingCalculated ==
  /\ rows = <<>> /\ calculation = Idle /\ fresh = {} /\ left = [calculations |-> 0, changes |-> 0]
NothingStored ==
  /\ prs = <<>> /\ reviews = {} /\ deployments = <<>> /\ NothingCalculated
NothingShown ==
  /\ config = CHOOSE r \in Rules : TRUE
  /\ shown = [bounds |-> {}, insights |-> {}]
NoSettings ==
  /\ defaults = CHOOSE e \in Boots : Valid(e)
  /\ stored = <<>> /\ writer = [w \in Writers |-> NoUpdate]
  /\ used = [updates |-> 0, boots |-> 0] /\ kept = <<>> /\ raced = {} /\ rebooted = FALSE
NoListing ==
  /\ listed = <<>> /\ got = [i \in Items |-> 0] /\ throughout = {}
  /\ reader = [at |-> "none", kind |-> "none", order |-> "asc", filter |-> "all",
               page |-> 1, size |-> 1, total |-> 0]
  /\ listChanges = [added |-> 0, removed |-> 0]

Init ==
  /\ part \in Parts
  /\ CASE part = "metrics"  -> MetricsInit /\ NothingShown
       [] part = "insights" -> InsightsInit /\ NothingCalculated
       [] OTHER             -> NothingStored /\ NothingShown
  /\ IF part = "settings" THEN SettingsInit ELSE NoSettings
  /\ IF part = "listing" THEN ListingsInit ELSE NoListing
  /\ PullRequestsInit /\ ClientInit /\ LimiterInit /\ LifecycleInit

-----------------------------------------------------------------------------

Next ==
  /\ UNCHANGED part
  /\ \/ /\ part = "metrics" /\ MetricsNext
        /\ UNCHANGED <<insightVars, settingsVars, pullVars, listingVars, clientVars, limiterVars, lifecycleVars>>
     \/ /\ part = "insights" /\ LoadInsights
        /\ UNCHANGED <<settingsVars, pullVars, listingVars, clientVars, limiterVars, lifecycleVars>>
     \/ /\ part = "settings" /\ SettingsNext
        /\ UNCHANGED <<metricsVars, insightVars, pullVars, listingVars, clientVars, limiterVars, lifecycleVars>>
     \/ /\ part = "pull request" /\ PullRequestsNext
        /\ UNCHANGED <<metricsVars, insightVars, settingsVars, listingVars, clientVars, limiterVars, lifecycleVars>>
     \/ /\ part = "listing" /\ ListingsNext
        /\ UNCHANGED <<metricsVars, insightVars, settingsVars, pullVars, clientVars, limiterVars, lifecycleVars>>
     \/ /\ part = "calls" /\ ClientNext
        /\ UNCHANGED <<metricsVars, insightVars, settingsVars, pullVars, listingVars, limiterVars, lifecycleVars>>
     \/ /\ part = "limit" /\ LimiterNext
        /\ UNCHANGED <<metricsVars, insightVars, settingsVars, pullVars, listingVars, clientVars, lifecycleVars>>
     \/ /\ part = "lifecycle" /\ LifecycleNext
        /\ UNCHANGED <<metricsVars, insightVars, settingsVars, pullVars, listingVars, clientVars, limiterVars>>

Spec == Init /\ [][Next]_vars
=============================================================================
