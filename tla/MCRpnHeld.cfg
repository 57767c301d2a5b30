SPECIFICATION Spec
CONSTANTS
  Operators <- DgenOperators
  Unary <- DgenUnary
  Precedence <- DgenPrecedence
  StackSize = 100
  Inputs <- HeldArray
INVARIANT
  FreesOnlyParentheses
