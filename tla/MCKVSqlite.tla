------------------------------ MODULE MCKVSqlite ------------------------------
(* Texts for TLC: strings over x, and e, a letter of two bytes.  Neither has   *)
(* another case, so LIKE and HasPrefix agree on them.                          *)
EXTENDS KVSqlite, SequencesExt

x == <<"x">>
e == <<"e">>
xx == <<"x", "x">>

Width(s) == Len(s) + Cardinality({i \in 1..Len(s) : s[i] = "e"})

MCBytes == [t \in Texts |-> Width(t)]
MCLength == [t \in Texts |-> Len(t)]
MCHasPrefix == {pk \in ListPrefixes \X Keys : IsPrefix(pk[1], pk[2])}
MCLike == MCHasPrefix

OneCase == {x, xx}
OneByte == {<<>>, x, xx}
TwoBytes == {x, e}
Empty == {<<>>, x}
=============================================================================
