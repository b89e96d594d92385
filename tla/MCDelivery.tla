----------------------------- MODULE MCDelivery -----------------------------
(***************************************************************************)
(* Delivery on small instances: every harness, and the bounds of the cfg   *)
(* files on lines, faults and resumed processes.                           *)
(***************************************************************************)
EXTENDS Delivery

MCHarnesses == {"codex", "claude", "opencode"}
=============================================================================
