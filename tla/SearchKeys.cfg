CONSTANTS
  Unset = Unset
  Characters <- AllCharacters
  Digits <- Decimal
  Fields <- TwoFields
  TermSeparator <- QuerySeparators
  TokenSeparator <- DocumentSeparators
  EnglishStopWords <- English
  StopWords <- Docfx
  Session <- NumberSessions
SPECIFICATION Spec
INVARIANT TokenSetExact
