\* An answer of the old corpus after the ingest of the new one.
SPECIFICATION Spec
CONSTANTS
  q1 = q1
  q2 = q2
  q3 = q3
  Questions <- MCQuestions
  Levels <- MCLevels
  Sections <- MCSections
  Documents <- MCDocuments
  TopK = 1
  MaxIngests = 2
  Texts <- MCTexts
  Score <- MCScore
  Threshold = 70
  MinCitations = 1
  NoAnswer = NoAnswer
  MaxRestarts = 1
INVARIANT
  NoEntryOutlivesAnIngest
CHECK_DEADLOCK FALSE
