CONSTANTS
  Unset = Unset
  Characters <- AllCharacters
  Digits <- Decimal
  Fields <- TwoFields
  TermSeparator <- QuerySeparators
  TokenSeparator <- DocumentSeparators
  EnglishStopWords <- English
  StopWords <- Docfx
  Session <- SeparatorSessions
SPECIFICATION Spec
INVARIANT FoundByItsText
