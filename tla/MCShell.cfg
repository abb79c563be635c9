SPECIFICATION ShellSpec
CONSTANTS
  DiskBase = 1048576
  Disk <- SmallDisk
  Greeting <- Greet_txt
  DevName <- Dev
  DevNames <- DeviceTab
  BufSize = 12
  Commands <- Lines
INVARIANTS ScansOwnString LookupResolves HeldAtPrompt FileShown Answered
PROPERTY CommandEnds
CHECK_DEADLOCK FALSE
