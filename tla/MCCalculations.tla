---------------------------- MODULE MCCalculations ----------------------------
(* Values of the constants that are functions, records or sets of them.       *)
EXTENDS Calculations

MCLowerCase == [e \in {"prod", "Prod", "stage"} |-> IF e = "Prod" THEN "prod" ELSE e]
MCEnvironmentOf == <<"prod", "Prod", "stage">>

AllRules ==
  [enabled |-> {"large", "slow", "hotspot", "failure", "concentration", "bottleneck"},
   large |-> [at |-> 2, high |-> 3], slow |-> [at |-> 1, high |-> 2],
   hotspot |-> [at |-> 1, high |-> 2, top |-> 1],
   failure |-> [least |-> 1, at |-> 6, high |-> 12],
   concentration |-> [least |-> 1, at |-> 7, high |-> 12],
   bottleneck |-> [least |-> 1, at |-> 12, high |-> 24, stale |-> 1, highStale |-> 2, age |-> 1],
   deduplicate |-> TRUE]
MCRules == {AllRules, [AllRules EXCEPT !.slow.at = 2, !.slow.high = 1],
            [AllRules EXCEPT !.enabled = {"failure"}, !.deduplicate = FALSE]}

Environment(wait, high, commits, additions) ==
  [wait |-> wait, waitHigh |-> high, rate |-> 1, rateHigh |-> 1, commits |-> commits,
   additions |-> additions]
MCBoots == {Environment(1, 1, 1, 1), Environment(1, 1, 1, 0), Environment(0, 1, 1, 1),
            Environment(2, 1, 1, 1)}
MCDefinitions == {<<>>, "commits" :> 0}
MCRequests ==
  {<<>>, "review" :> <<>>, "review" :> ("wait" :> 2), "review" :> ("wait" :> 0),
   "failure" :> ("rate" :> 3), "failure" :> ("rate" :> 2),
   "metrics" :> ("commits" :> 0), "metrics" :> ("additions" :> 0),
   "metrics" :> ("commits" :> 0 @@ "additions" :> 0),
   "review" :> ("wait" :> 2) @@ "metrics" :> <<>>}

Symmetry == Permutations(Writers) \cup Permutations(Callers) \cup Permutations(Orgs)
=============================================================================
