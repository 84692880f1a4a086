\* Every question the deterministic parser can draft, with tools that deliver.
CONSTANTS
  Drafts <- ParsedDrafts
  Answers <- SoundAnswers
  MaxToolCalls = 8
  MaxRetries = 1
  Stray = Stray
SPECIFICATION Spec
INVARIANTS PlannedInScope CallsAreUsed PlannedIsAnswered PolicyIndependent
