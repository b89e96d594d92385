------------------------------ MODULE MCRelay ------------------------------
(* Instances of Relay for TLC. *)
EXTENDS Relay

CONSTANTS c1, c2, s1, s2

MCConsumers == {c1, c2}
MCSlots     == {s1, s2}
MCNotices   == {2}

(* What is left of the bounds goes to one question at a time: one consumer *)
(* with a message, transitions and a fault; with two messages and faults;  *)
(* two consumers with a message and a notice.                              *)
MCInit ==
    \/ Opened({c1}, {2, 3}, 1, 1)
    \/ Opened({c1}, {2}, 2, 0)
    \/ Opened({c1, c2}, {2, 3}, 2, 2)
    \/ Opened({c1, c2}, {1, 3}, 2, 1)

MCSpec == MCInit /\ [][Next]_vars /\ Fairness
=============================================================================
