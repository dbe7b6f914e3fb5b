\* Two operators set the thresholds of one device, each pair of values in order.
SPECIFICATION Spec
CONSTANTS
    r1 = r1
    r2 = r2
    v1 = v1
    v2 = v2
    c1 = c1
    c2 = c2
    x1 = x1
    y1 = y1
    x2 = x2
    lower = lower
    raise = raise
    wrong = wrong
    drop = drop
    Reports = {r1, r2}
    Inventories = {v1, v2}
    Checks = {c1, c2}
    Removals = {x1, y1, x2}
    Target <- MCTarget
    Patches = {lower, raise}
    DropDevice = drop
    Drops = {drop}
    Batches <- MCPair
    Warning <- MCWarning
    Critical <- MCCritical
CHECK_DEADLOCK FALSE
INVARIANTS ThresholdsOrdered
