\* Two faults, and CPU counters that go on for three ticks.
SPECIFICATION FairSpec
CONSTANTS
    Word = 8
    MaxFaults = 2
    MaxTicks = 3
INVARIANTS OrphansBounded WorkCountedOnce
PROPERTIES KeepsReporting
