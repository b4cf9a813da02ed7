-------------------------------- MODULE Totals --------------------------------
(* The sum of a table of natural numbers, as the size of the set that has one  *)
(* element for each unit of each entry.                                        *)
EXTENDS Naturals, FiniteSets

Units(f) == UNION {{x} \X (1..f[x]) : x \in DOMAIN f}

Total(f) == Cardinality(Units(f))
=============================================================================
