\* One change of the connection, with a fault at any moment.
SPECIFICATION FairSpec
CONSTANTS
    MaxEngines = 3
    MaxFaults = 1
INVARIANTS OldIdentityKept Reconnected RolledBack
PROPERTIES HelperEnds ReportsAfterwards EngineSupervised
CHECK_DEADLOCK FALSE
