SPECIFICATION FairSpec
CONSTANTS
  Events = {e1, bad}
  Malformed = {bad}
  Instances = {i1, i2}
  Attempts = 3
  Keep = 1
  MaxStalled = 1
  MaxFaults = 2
  Absent = Absent
INVARIANTS
  ListsAgree
  RunsBounded
  FailsForAReason
  CleanCloseCostsNothing
PROPERTIES
  ImplementsEventLog
  AcceptedIsFinished
  CloseEnds
