------------------------------- MODULE Mailbox ------------------------------
(***************************************************************************)
(* What a managed connection promises, without journal, daemon or harness  *)
(* protocol: lines arrive in order, the recipient gets each at most once,  *)
(* a line is resolved only when the recipient has it or an operator gave   *)
(* it up, and the next line is offered only after that.  A line given up   *)
(* may still arrive late: giving up is an operator's decision, not proof.  *)
(***************************************************************************)
EXTENDS Naturals

CONSTANT MaxLines

VARIABLES
    inbox,     \* lines that arrived
    resolved,  \* lines settled, one way or the other
    abandoned, \* the resolved lines that were given up
    got        \* got[l]: copies of l the recipient has

vars == <<inbox, resolved, abandoned, got>>

Lines == 1 .. MaxLines

Init ==
    /\ inbox = 0
    /\ resolved = 0
    /\ abandoned = {}
    /\ got = [l \in Lines |-> 0]

Arrive ==
    /\ inbox < MaxLines
    /\ inbox' = inbox + 1
    /\ UNCHANGED <<resolved, abandoned, got>>

HandOver(l) ==
    /\ l <= inbox
    /\ l = resolved + 1 \/ l \in abandoned
    /\ got[l] = 0
    /\ got' = [got EXCEPT ![l] = 1]
    /\ UNCHANGED <<inbox, resolved, abandoned>>

Settle ==
    /\ resolved < inbox
    /\ got[resolved + 1] = 1
    /\ resolved' = resolved + 1
    /\ UNCHANGED <<inbox, abandoned, got>>

GiveUp ==
    /\ resolved < inbox
    /\ resolved' = resolved + 1
    /\ abandoned' = abandoned \cup {resolved + 1}
    /\ UNCHANGED <<inbox, got>>

Next ==
    \/ Arrive
    \/ \E l \in Lines : HandOver(l)
    \/ Settle
    \/ GiveUp

Spec == Init /\ [][Next]_vars
=============================================================================
