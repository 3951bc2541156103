---------------------------- MODULE MCSyncPages ----------------------------
(***************************************************************************)
(* Small instances of SyncPages. Workflow runs and deployments are listed, *)
(* and empty. Jobs and goroutines are only compared for equality.          *)
(***************************************************************************)
EXTENDS SyncPages, TLC

OnePull == [k \in Kinds |-> IF k \in {Pull, Commits} THEN 1 ELSE 0]
TwoPulls == [k \in Kinds |-> IF k = Pull THEN 2 ELSE 0]

\* Full syncs come from webhooks.
Incremental == {[mode |-> "incremental", from |-> f] : f \in Froms \cup {None}}

Symmetry == Permutations(Jobs) \cup Permutations(Runners)
=============================================================================
