\* Two reports that may arrive twice and in any order, two checks, a monitored
\* process, and a clock that runs past the retention time.
SPECIFICATION Spec
CONSTANTS
    c1 = c1
    c2 = c2
    proc = proc
    Contents <- MCContents
    Checks = {c1, c2}
    Lenient = {c2}
    Names = {proc}
    Retention = 2
    Skews <- MCSkews
    MaxReports = 2
    MaxArrivals = 3
    MaxTime = 4
INVARIANTS StatusOfLastReport ViewsAgree
PROPERTIES CleanupKeepsStatus
CHECK_DEADLOCK FALSE
