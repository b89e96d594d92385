----------------------------- MODULE MCPresence -----------------------------
(* Instances of Presence for TLC. *)
EXTENDS Presence

MCAliases == 1 .. 3
MCSources == {1, 2}
=============================================================================
