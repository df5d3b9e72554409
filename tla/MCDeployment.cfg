CONSTANTS
  Processes = {a, b}
  Projects = {x1}
  Environments <- SomeEnvironments
  Names = {"nestjs_challenge", "app"}
  Namespaces = {"nestjs-challenge", "other"}
  Unset = Unset
SYMMETRY Symmetry
CHECK_DEADLOCK FALSE
SPECIFICATION Spec
INVARIANTS
  DemoStaysInItsDatabase
  TestRowsApart
  PurgeReachesTheCache
PROPERTIES
  ClientRowsStay
