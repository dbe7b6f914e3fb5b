\* One agent process, the service.
SPECIFICATION FairSpec
CONSTANTS
    Agents = {service}
    MaxFaults = 4
INVARIANTS NeverStranded IdentityDurable
PROPERTIES IdentityKept EventuallyReporting
CHECK_DEADLOCK FALSE
