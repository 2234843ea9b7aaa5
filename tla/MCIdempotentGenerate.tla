------------------------ MODULE MCIdempotentGenerate ------------------------
(***************************************************************************)
(* Instances of IdempotentGenerate for TLC: nothing tells the requests     *)
(* apart, so the safety runs may permute them.                             *)
(***************************************************************************)
EXTENDS IdempotentGenerate, TLC

RequestSymmetry == Permutations(Requests)
=============================================================================
