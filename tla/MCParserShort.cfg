SPECIFICATION FairSpec
CONSTANTS
  Names <- DgenNames
  Numbers <- SomeNumbers
  Strings <- SomeStrings
  KeywordDecl <- DgenKeywordDecl
  FuncDecl <- DgenFuncDecl
  StructKeyword = "struct"
  PrimitiveTypes <- NumberType
  Inputs <- ShortLists
INVARIANTS
  TypeOK
  BracketsOwed
  KeepsEveryWord
  OneStructPerName
  TypesAreComplete
PROPERTY
  EndsOrLoops
