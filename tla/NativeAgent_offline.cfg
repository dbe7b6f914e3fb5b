\* The samples of an agent whose server cannot be reached.
SPECIFICATION Spec
CONSTANTS
    MaximumRecords = 2
    MaxSamples = 5
    MaxFaults = 2
    Rejected = {}
PROPERTIES OfflineSamplesQueued
