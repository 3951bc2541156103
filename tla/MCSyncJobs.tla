----------------------------- MODULE MCSyncJobs -----------------------------
(***************************************************************************)
(* Small instances of SyncJobs. Repositories, keys, requests and goroutines *)
(* are only compared for equality, so permuting them is sound for the       *)
(* safety runs; the liveness run states no symmetry.                        *)
(***************************************************************************)
EXTENDS SyncJobs, TLC

Symmetry == Permutations(Repos) \cup Permutations(Keys)
              \cup Permutations(Clients) \cup Permutations(Runners)
=============================================================================
