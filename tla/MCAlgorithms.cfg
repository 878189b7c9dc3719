SPECIFICATION MCSpec
CONSTANTS
  s1 = s1
  s2 = s2
  s3 = s3
  s4 = s4
  h = h
  NoHeading = NoHeading
  Steps <- MCSteps
  EdgeLists <- MCEdgeLists
  Headings <- MCHeadings
  Texts <- MCTexts
  NumItems = 6
  Lengths = {1, 2, 4}
  MaxTokens = 3
SYMMETRY Symmetry
INVARIANTS
  TypeOK
  CycleVerdict
  AncestorsExact
  UnreachableIsIsolated
  ChunksCover
  ChunkSizes
CHECK_DEADLOCK FALSE
