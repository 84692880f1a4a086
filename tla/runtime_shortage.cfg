\* What the tools of the repository report: no repair is ever tried.
CONSTANTS
  Drafts <- EvidenceDrafts
  Answers <- ShippedAnswers
  MaxToolCalls = 8
  MaxRetries = 1
  Stray = Stray
SPECIFICATION Spec
INVARIANT ShortageIsRepaired
