\* Three batches, two at a time, as many errors as exhaust both retries, and
\* answers of every length.
CONSTANTS
  NTexts = 5
  BatchSize = 2
  NBatches = 3
  FlushSize = 3
  Replies <- ManyReplies
  MaxConcurrency = 2
  MaxRetries = 1
  ChunkRetries = 1
  MaxErrors = 4
SPECIFICATION FairSpec
CHECK_DEADLOCK FALSE
INVARIANTS
  TypeOK
  StoredOnce
  OwnVector
  InterruptedMeansExhausted
PROPERTIES
  ChunkEnds
