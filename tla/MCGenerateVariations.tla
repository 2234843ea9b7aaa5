------------------------ MODULE MCGenerateVariations ------------------------
(***************************************************************************)
(* Instances of GenerateVariations for TLC: strategies are model values    *)
(* that nothing tells apart, so the safety run may permute them.           *)
(***************************************************************************)
EXTENDS GenerateVariationsInvariant, TLC

StrategySymmetry == Permutations(Strategies)
=============================================================================
