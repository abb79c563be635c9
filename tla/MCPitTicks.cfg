SPECIFICATION FairSpec
CONSTANT Delays = {0, 1, 2, 3, 10}
PROPERTY WaitsForTicks
