SPECIFICATION FairSpec
CONSTANTS
  Letters <- DgenLetters
  Digits <- DgenDigits
  OperatorChars <- DgenOperatorChars
  PunctuationKind <- DgenPunctuation
  OperatorNames <- DgenOperatorNames
  KeywordNames <- DgenKeywordNames
  MaxName = 5
  MaxTokens = 4
  Sources <- ShortTexts
INVARIANTS
  ShortTextsFit
