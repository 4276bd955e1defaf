-------------------------- MODULE MCPartitionStore -------------------------
(***************************************************************************)
(* Two keys and two tables, so that two commits can differ in either; four *)
(* versions, so that each slot is overwritten at least once.               *)
(***************************************************************************)
EXTENDS PartitionStore, TLC

CONSTANTS k1, k2, t1, t2

MCKeys       == {k1, k2}
MCTables     == {t1, t2}
MCMaxVersion == 4

Symmetry == Permutations(MCKeys) \cup Permutations(MCTables)
=============================================================================
