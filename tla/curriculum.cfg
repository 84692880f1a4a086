\* Four versions of one plan; MaxEdits bounds what the operators do.
CONSTANTS
  None = None
  Sources <- MCSources
  DocType <- MCDocType
  ScopeOf <- MCScopeOf
  Current <- MCSources
  Documents <- MCDocuments
  CatalogInputs = {{"plan"}, {"plan", "handbook"}}
  Revised = {"plan"}
  Reviewers <- MCReviewers
  Scaffolds <- MCScaffolds
  MappingLedgers <- MCMappingLedgers
  InitFiles <- MCInitFiles
  InitAuthenticity <- MCInitAuthenticity
  SourceReviews <- MCSourceReviews
  ChunkReviews <- MCChunkReviews
  MaxEdits = 4
SPECIFICATION Spec
INVARIANTS VerifiedIsReviewed NothingLost ReadyIsAnswerable TrustedIsVerified
ACTION_CONSTRAINT Forwards
CHECK_DEADLOCK FALSE
