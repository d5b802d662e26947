CONSTANTS
  a = a
  b = b
  c = c
  Replica <- AB
  MaxSends <- OneEach
  MaxFaults <- OneOfEach
SPECIFICATION Spec
CHECK_DEADLOCK FALSE
INVARIANT TypeOK
INVARIANT CausallyClosed
