\* Three releases, any of which may be bad, and four faults.
SPECIFICATION FairSpec
CONSTANTS
    MaxRelease = 3
    MaxFaults = 4
INVARIANTS TornIsBackedUp
PROPERTIES RestoresFound Heals
