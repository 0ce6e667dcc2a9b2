CONSTANTS
  Unset = Unset
  Characters <- AllCharacters
  Digits <- Decimal
  Fields <- TwoFields
  TermSeparator <- QuerySeparators
  TokenSeparator <- DocumentSeparators
  EnglishStopWords <- English
  StopWords <- Docfx
  Session <- Sessions
SPECIFICATION Spec
INVARIANTS TypeOK LexemesCoverText ClausesFollowLexemes TokenSetExact TokenSetMinimal VectorsAscend FindsWhatIsAsked ScoresAddUp
PROPERTY LexerAdvances
