------------------------------ MODULE MCMembers ------------------------------
(***************************************************************************)
(* Small instances of Members. Calls are only compared for equality; of the *)
(* users one is the creator, and one is CHOSEN as the value of idle fields. *)
(***************************************************************************)
EXTENDS Members, TLC

Symmetry == Permutations(Calls)
=============================================================================
