----------------------------- MODULE MCRecords -----------------------------
(* Instances of Records for TLC. *)
EXTENDS Records

CONSTANTS a1, a2, a3, s1, s2, s3, c1, c2

\* Nothing tells the names apart, and no property is about what must happen.
Symmetric == Permutations(Calls) \cup Permutations(Aliases) \cup Permutations(Sessions)

None == [k \in Names |-> 0]

\* The runs of joins that race with each other, with departures and renames, with
\* peers that come back, and with writes that fail or stop; grants and permits
\* whose seats change hands; denials and fallbacks whose seats do.
Mixes == {
    [None EXCEPT !["join"] = 3, !["leave"] = 1, !["rename"] = 1, !["stuck"] = 1],
    [None EXCEPT !["join"] = 3, !["dies"] = 1, !["arm"] = 1, !["killed"] = 1],
    [None EXCEPT !["join"] = 3, !["leave"] = 1, !["dies"] = 1, !["arm"] = 1, !["stuck"] = 1],
    [None EXCEPT !["join"] = 1, !["leave"] = 1, !["rename"] = 1, !["grant"] = 1, !["use"] = 2,
                 !["revoke"] = 1, !["expire"] = 1],
    [None EXCEPT !["assign"] = 1, !["permit"] = 2, !["ask"] = 1, !["rename"] = 1, !["revoke"] = 1,
                 !["expire"] = 1, !["stuck"] = 1],
    [None EXCEPT !["assign"] = 1, !["deny"] = 3, !["age"] = 1, !["join"] = 1, !["leave"] = 1,
                 !["stuck"] = 1, !["killed"] = 1],
    [None EXCEPT !["assign"] = 1, !["fall"] = 2, !["stop"] = 3, !["rename"] = 1, !["leave"] = 1,
                 !["stuck"] = 1, !["killed"] = 1]}

=============================================================================
