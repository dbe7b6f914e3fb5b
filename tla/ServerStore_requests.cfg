\* Two reports, two inventories, operators who delete checks, one who
\* deletes the device, and two changes of the thresholds, one of them refused.
SPECIFICATION FairSpec
CONSTANTS
    r1 = r1
    r2 = r2
    v1 = v1
    v2 = v2
    c1 = c1
    c2 = c2
    x1 = x1
    y1 = y1
    x2 = x2
    lower = lower
    raise = raise
    wrong = wrong
    drop = drop
    Reports = {r1, r2}
    Inventories = {v1, v2}
    Checks = {c1, c2}
    Removals = {x1, y1, x2}
    Target <- MCTarget
    Patches = {lower, wrong}
    DropDevice = drop
    Drops = {drop}
    Batches <- MCBatches
    Warning <- MCWarning
    Critical <- MCCritical
INVARIANTS NoOrphans ProcessListWhole AckedStored CheckDeletionSucceeds DeletionTakesEffect ThresholdsKept
PROPERTIES StoreSpec EverythingAnswered
CHECK_DEADLOCK FALSE
