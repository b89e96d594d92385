----------------------------- MODULE MCRegistry -----------------------------
(* Instances of Registry for TLC. *)
EXTENDS Registry

CONSTANTS s1, s2

MCAliases  == 1 .. 2
MCSessions == {s1, s2}
=============================================================================
