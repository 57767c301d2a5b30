SPECIFICATION Spec
CONSTANTS
  Nodes <- SmallNodes
  Programs <- SmallPrograms
  Width <- DgenWidth
  Garbage <- SomeBytes
  BufSize = 120
INVARIANTS
  TypeOK
  BracketsNest
  IndentIsNesting
  WritesText
  OverrunsIffTooLong
