SPECIFICATION FairSpec
CONSTANTS
  NumSenders = 2
  NumMessages = 2
  MaxEntries = 2
  AllowFailures = TRUE
INVARIANTS CommInv BatchExact RoundsDoNotOverlap
PROPERTIES ClientEnds
