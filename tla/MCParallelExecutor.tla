------------------------- MODULE MCParallelExecutor -------------------------
(* Model checking of ParallelExecutor over every acyclic graph of a few    *)
(* stages, with and without fail-fast, wet and dry.                        *)
EXTENDS ParallelExecutor, TLC

StageSymmetry == Permutations(Stage)
=============================================================================
