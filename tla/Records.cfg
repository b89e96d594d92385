SPECIFICATION Spec
CONSTANTS
    a1 = a1  a2 = a2  a3 = a3  s1 = s1  s2 = s2  s3 = s3  c1 = c1  c2 = c2
    Nobody = Nobody
    Aliases = {a1, a2, a3}
    Sessions = {s1, s2, s3}
    Calls = {c1, c2}
    MaxIds = 2
    MaxRows = 2
    Budgets <- Mixes
SYMMETRY Symmetric
INVARIANTS
    UseIsGranted
    SilencedWasTold
    RunsHoldTogether
CHECK_DEADLOCK FALSE
