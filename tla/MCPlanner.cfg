CONSTANTS
  Proposals <- MCProposals
  Repairs <- MCRepairs
  Registered <- MCRegistered
  ReviewNames <- MCReviewNames
  Flagged <- MCFlagged
  MaxDeaths = 1
SPECIFICATION Spec
CHECK_DEADLOCK FALSE
INVARIANTS
  TypeOK
  DraftEnforced
  CleanDraftRuns
  InsertedReviewGuards
  ReportsMatchDrafts
PROPERTY
  PlanEnds
