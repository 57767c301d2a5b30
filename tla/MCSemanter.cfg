SPECIFICATION FairSpec
CONSTANTS
  Nodes <- SmallNodes
  Programs <- SmallPrograms
INVARIANTS
  TypeOK
  ScopesNest
  NoShadowing
  FindsNearest
  EveryScopeOwned
  DecidesByRules
PROPERTIES
  Terminates
