CONSTANTS
    s = s
    t = t
    f = f
    g = g
    a = a
    b = b
    NoOne = NoOne
    Paths = {a, b}
    Sessions = {s, t}
    Followers = {f, g}
    MaxMail = 2
    Files = {1, 2, 3}
    IdleEvery = 2
    Budgets <- MCBudgets
SPECIFICATION MCSpec
INVARIANT NothingIsSkipped
INVARIANT OwnMailOnly
PROPERTY DisplacedStops
PROPERTY MailIsRead
CHECK_DEADLOCK FALSE
