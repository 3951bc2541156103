----------------------------- MODULE MCWebhooks -----------------------------
(***************************************************************************)
(* Small instances of Webhooks. Repositories and goroutines are only       *)
(* compared for equality.                                                  *)
(***************************************************************************)
EXTENDS Webhooks, TLC

Symmetry == Permutations(Procs) \cup Permutations(Repos)
=============================================================================
