SPECIFICATION Spec
CONSTANTS
    c1 = c1  c2 = c2  c3 = c3
    Caller = {c1, c2, c3}
    Budgeted = {c1, c3}
    Writer = {c3}
    Deferring = {c1}
    Threshold = 2
    MaxAttempts = 2
    Limit = 2
    MaxStarted = 3
INVARIANTS NoStrandedProbe EveryCallIsPaidOnce
PROPERTIES Recovers
