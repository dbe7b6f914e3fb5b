\* The five programs, one of which an older version did not install, any
\* package, and two failures.
SPECIFICATION Spec
CONSTANTS
    host = host
    control = control
    manager = manager
    engine = engine
    updater = updater
    Names <- MCNames
    Present = {host, manager, engine, updater}
    Service = {host, engine}
    Opened <- MCOpened
    Packages <- MCPackages
    MaxFaults = 2
INVARIANTS TypeOK UpdateIsWhole RollbackIsWhole
PROPERTIES StartsUnmixed
CHECK_DEADLOCK FALSE
