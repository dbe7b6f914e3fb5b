\* The service and a one-shot command that an operator runs next to it.
SPECIFICATION FairSpec
CONSTANTS
    Agents = {service, command}
    MaxFaults = 2
INVARIANTS IssuedIdentity DevicesBounded
PROPERTIES AgentsConverge
CHECK_DEADLOCK FALSE
