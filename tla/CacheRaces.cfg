\* Two searches on two keys and two ingestion runs, without symmetry, which
\* the temporal property does not admit.
CONSTANTS
  Searches = {s1, s2}
  Writers = {w1, w2}
  Keys = {k1, k2}
  MaxVersion = 2
  MaxFaults = 1
  None = None
SPECIFICATION FairSpec
CHECK_DEADLOCK FALSE
INVARIANTS
  TypeOK
  StaleOnlyIfRaced
  StaleAnswersAreRaced
PROPERTIES
  StaleGoesAway
