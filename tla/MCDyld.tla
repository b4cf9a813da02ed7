-------------------------------- MODULE MCDyld --------------------------------
(* Libraries for TLC: a NEEDS b and c, b NEEDS c (a diamond), d NEEDS c and e, *)
(* e NEEDS d (a circle), p is composed into main.                              *)
EXTENDS Dyld, TLC

CONSTANTS a, b, c, d, e, p, libc

DiamondNeeded ==
  (a :> <<b, libc, c, p>>) @@ (b :> <<c>>) @@ (c :> <<>>) @@ (d :> <<c, e>>)
  @@ (e :> <<d>>) @@ (p :> <<>>)
DiamondImports ==
  (a :> {{b}, {c}}) @@ (b :> {{c}, {}}) @@ (c :> {}) @@ (d :> {}) @@ (e :> {}) @@ (p :> {})

ASSUME ImportsAreNeeded
=============================================================================
