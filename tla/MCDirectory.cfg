CONSTANTS
  a = a
  b = b
  c = c
  Replica <- AB
  Payload <- Operations
  Classifiers <- Both
  Scripts <- TwoMembers
  Rank <- ByName
SPECIFICATION SemSpec
CHECK_DEADLOCK FALSE
ACTION_CONSTRAINT PumpFirst
INVARIANT SemAgreement
INVARIANT NothingHeldBack
INVARIANT DirectoriesConverge
INVARIANT EagerCausal
INVARIANT StrictNeverStranded
