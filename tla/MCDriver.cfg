SPECIFICATION Spec
CONSTANTS
  Runs <- SmallRuns
INVARIANTS
  TypeOK
  UsesLive
  NoDangling
  OnlyFieldsAreLost
