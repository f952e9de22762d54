------------------------- MODULE MCMaterialization -------------------------
(* Runs that prepare, use and sweep lease directories at the same time.    *)
EXTENDS Materialization, TLC

RunSymmetry == Permutations(Runs)
=============================================================================
