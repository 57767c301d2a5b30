SPECIFICATION FairSpec
CONSTANTS
  Operators <- DgenOperators
  Unary <- DgenUnary
  Precedence <- DgenPrecedence
  StackSize = 3
  Inputs <- AllInputs
INVARIANTS
  TypeOK
  OneOwner
  HoldingTightens
  NodeLimit
  MarkersMatchBalance
  BalanceDecides
  StopsAtEnd
PROPERTY
  Terminates
