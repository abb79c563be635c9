SPECIFICATION AcpiSpec
CONSTANTS
  Delays = {2}
  PollTicks = 2
  Retries = 3
  Needle <- MCNeedle
  Header = 1
  MaxTable = 6
INVARIANTS CountExact ShutdownPrepared TimeGiven FindsFirst
PROPERTY InitReturns
CHECK_DEADLOCK FALSE
