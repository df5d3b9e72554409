SPECIFICATION FairSpec
CONSTANT Faults = {"redis"}
INVARIANTS
  OneClientPerConcern
  QueueFieldIsOpen
  ServedExitIsClean
  OnlyBullFailsStartup
PROPERTIES
  NoHookWaitsForEver
