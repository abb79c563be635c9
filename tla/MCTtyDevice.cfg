SPECIFICATION FairSpec
CONSTANTS
  Lines = {0, 1, 9}
  Blocks = {"b1", "b2"}
INVARIANTS OneHandler NothingHeldBack KbdHasTty
PROPERTY LinesServed
CHECK_DEADLOCK FALSE
