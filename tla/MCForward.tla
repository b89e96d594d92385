----------------------------- MODULE MCForward ------------------------------
(***************************************************************************)
(* Six messages, of every kind, one of them behind the one that cannot be  *)
(* read, and two attempts.                                                 *)
(***************************************************************************)
EXTENDS Forward

MCKinds == <<"presence", "chat", "stale", "garbled", "oversize", "chat">>

Names == {"start", "skip", "stop", "break", "unwritten", "replay"}
With(x) == [k \in Names |-> IF k \in DOMAIN x THEN x[k] ELSE 0]

\* What a behaviour may hold.
MCBudgets ==
    {With([start |-> 1, break |-> 1, unwritten |-> 1, replay |-> 1]),
     With([start |-> 2, stop |-> 1, break |-> 1, unwritten |-> 1]),
     With([start |-> 1, stop |-> 1, replay |-> 1, break |-> 1]),
     With([skip |-> 1, break |-> 2, unwritten |-> 1]),
     With([skip |-> 1, break |-> 1, replay |-> 1]),
     With([skip |-> 1, start |-> 1, stop |-> 1])}
=============================================================================
