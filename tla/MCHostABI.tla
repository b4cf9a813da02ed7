------------------------------ MODULE MCHostABI ------------------------------
(* Instances of HostABI for TLC: an empty string, and one whose length leaves *)
(* the next block unaligned.                                                  *)
EXTENDS HostABI

MCTexts == {<<>>, <<7, 8, 9>>}
=============================================================================
