----------------------------- MODULE MCFollower -----------------------------
(***************************************************************************)
(* Two aliases, two sessions, two followers, three inode numbers.           *)
(***************************************************************************)
EXTENDS Follower, TLC

CONSTANTS s, t, f, g, a, b

With(x) == [k \in Names |-> IF k \in DOMAIN x THEN x[k] ELSE 0]

\* Every behaviour begins with a join, and which session, alias and inode it
\* takes makes no difference.
MCSpec ==
    /\ Start((a :> Fresh(s, 1)) @@ (b :> Vacant))
    /\ [][Next]_vars
    /\ Fairness

\* What a behaviour may hold.
MCBudgets ==
    {With([arm |-> 1, steal |-> 1, unsaved |-> 1]),
     With([arm |-> 2, die |-> 1, force |-> 1, unsaved |-> 1]),
     With([join |-> 1, leave |-> 1, arm |-> 2]),
     With([join |-> 1, rename |-> 1, arm |-> 1, torn |-> 1]),
     With([rename |-> 1, arm |-> 2, die |-> 1]),
     With([rotate |-> 1, arm |-> 2, claim |-> 1, die |-> 1]),
     With([join |-> 1, leave |-> 1, hook |-> 2, torn |-> 1]),
     With([hook |-> 3, rename |-> 1, die |-> 1, unsaved |-> 1]),
     With([connect |-> 1, abandon |-> 2, crash |-> 1, reboot |-> 2, torn |-> 1, force |-> 1]),
     With([connect |-> 1, rotate |-> 2]),
     With([connect |-> 1, rotate |-> 1, crash |-> 1, reboot |-> 1, force |-> 1]),
     With([connect |-> 1, hook |-> 2, die |-> 1, reboot |-> 1]),
     With([connect |-> 1, arm |-> 1, reboot |-> 1])}
=============================================================================
