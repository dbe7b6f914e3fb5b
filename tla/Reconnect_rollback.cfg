\* A change of the connection that fails, without any other fault.
SPECIFICATION Spec
CONSTANTS
    MaxEngines = 4
    MaxFaults = 0
INVARIANTS RollbackRestores
