\* Three documents: two that tie and one between them.
CONSTANTS
  NDocs = 3
  FusionK = 60
  Limits = {1, 3}
  MaxReply = 3
SPECIFICATION Spec
CHECK_DEADLOCK FALSE
INVARIANTS
  TypeOK
  FusionAgrees
  CutKeepsBest
  LexicalSymmetric
  AnswerIsMeant
