\* A queue of two records, five samples of which the second is refused.
SPECIFICATION FairSpec
CONSTANTS
    MaximumRecords = 2
    MaxSamples = 5
    MaxFaults = 3
    Rejected = {2}
INVARIANTS TypeOK QueueInOrder DuplicatesBounded
PROPERTIES DeliverySpec QueueDrains InventorySent
