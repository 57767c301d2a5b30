SPECIFICATION FairSpec
CONSTANTS
  Letters <- DgenLetters
  Digits <- DgenDigits
  OperatorChars <- DgenOperatorChars
  PunctuationKind <- DgenPunctuation
  OperatorNames <- DgenOperatorNames
  KeywordNames <- DgenKeywordNames
  MaxName = 256
  MaxTokens = 4096
  Sources <- ShortTexts
INVARIANTS
  TypeOK
  TokensInTables
  EndsWithEndOfFile
  LinesCount
PROPERTIES
  ImplementsLexemes
  Terminates
