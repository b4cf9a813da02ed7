------------------------------ MODULE MCQuotaFS ------------------------------
(* Instances of QuotaFS for TLC: no two callers, names, inodes or handles are *)
(* told apart.                                                                *)
EXTENDS QuotaFS, TLC

Symmetry == Permutations(Procs) \union Permutations(Names)
            \union Permutations(Inodes) \union Permutations(Handles)
=============================================================================
