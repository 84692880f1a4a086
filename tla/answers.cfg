\* Three sections; top_k and the widths of the rankings are small enough to cut.
CONSTANTS
  None = None
  PolicyTypes = {"policy"}
  Today <- MCToday
  Overfetch = 2
  FuseFetch = 2
  MinScore = 1
  Corpora <- MCCorpora
  Requests <- MCRequests
  Scores <- MCScores
  Flaws = {"none", "unreviewed", "unnoticed", "incomplete", "lost fact", "lost evidence", "cycle"}
  Glance = 2
  MaxParts = 2
SPECIFICATION Spec
INVARIANTS NotDisplaced AnswersGrounded OnlyFulfilled
CHECK_DEADLOCK FALSE
