\* Tools that report anything; repairs, regenerations and failures.
CONSTANTS
  Drafts <- EvidenceDrafts
  Answers <- AnyAnswers
  MaxToolCalls = 8
  MaxRetries = 1
  Stray = Stray
SPECIFICATION FairSpec
INVARIANTS TypeOK AnswersProven
PROPERTIES TransitionsAllowed AlwaysFinishes
