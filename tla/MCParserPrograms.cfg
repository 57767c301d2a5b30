SPECIFICATION Spec
CONSTANTS
  Names <- DgenNames
  Numbers <- SomeNumbers
  Strings <- SomeStrings
  KeywordDecl <- DgenKeywordDecl
  FuncDecl <- DgenFuncDecl
  StructKeyword = "struct"
  PrimitiveTypes <- NumberType
  Inputs <- ProgramTexts
INVARIANTS
  GivesProgramBack
