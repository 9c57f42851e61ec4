\* Three questions at once, and two ingests or an ingest and a restart.
SPECIFICATION Spec
CONSTANTS
  q1 = q1
  q2 = q2
  q3 = q3
  Questions <- MCQuestions
  Levels <- MCLevels
  Sections <- MCSections
  Documents <- MCDocuments
  TopK = 1
  MaxIngests = 2
  Texts <- MCTexts
  Score <- MCScore
  Threshold = 70
  MinCitations = 1
  NoAnswer = NoAnswer
  MaxRestarts = 1
CONSTRAINT TwoUpheavals
SYMMETRY QuestionSymmetry
INVARIANTS
  TypeOK
  AnswerIsForTheAsker
  ServedAnswersWereGiven
  PointsAreAsWritten
PROPERTIES
  AskedAgainIsFree
CHECK_DEADLOCK FALSE
