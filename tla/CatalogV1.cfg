SPECIFICATION Spec
CONSTANTS
  Models <- MCModels
  BaseIsraeli = {1}
  Agents = {"engines", "trims"}
  Called <- MCCalled
  Names <- MCNames
  EvidenceKey <- MCEvidenceKey
  MergeKey <- MCMergeKey
  Records <- MCRecords
  Offers <- MCOffers
  Replies <- MCReplies
  TechnicalChunk = 1
  VerifierChunk = 1
  IsraelRequired = TRUE
  MaxAttempts = 3
INVARIANTS
  VerifiedHasEvidence
  ResumedWorthNoMore
CHECK_DEADLOCK FALSE
