SPECIFICATION FairSpec
CONSTANTS
  BufSize = 3
  Wrap = 1
  Users = {0, 1}
INVARIANT EnterNotLost
