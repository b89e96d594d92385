----------------------------- MODULE MCFormation -----------------------------
(* Instances of Formation for TLC. *)
EXTENDS Formation

CONSTANTS l1, l2, a1, a2

\* Launchers differ in name only, and no property is about what must happen.
Symmetric == Permutations(Launchers)

None == [c \in Kinds |-> 0]

\* Races of launchers of one session, of children and launchers of one name,
\* and sessions that change their names between saves.
Mixes == {
    [None EXCEPT !["apply"] = 1, !["anchor"] = 2, !["expire"] = 1],
    [None EXCEPT !["apply"] = 1, !["anchor"] = 1, !["hand"] = 1, !["fail"] = 1],
    [None EXCEPT !["apply"] = 1, !["branch"] = 1, !["fail"] = 1],
    [None EXCEPT !["branch"] = 1, !["exit"] = 1, !["save"] = 1, !["choose"] = 1],
    [None EXCEPT !["branch"] = 1, !["hand"] = 1, !["exit"] = 1, !["save"] = 1],
    [None EXCEPT !["apply"] = 1, !["spawn"] = 1, !["bootstrap"] = 1, !["rename"] = 1, !["killed"] = 1]}

=============================================================================
