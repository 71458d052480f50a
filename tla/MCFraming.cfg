SPECIFICATION FairSpec
CONSTANTS
  HEADER = 4
  Padding = 3
  Lengths = {1, 3, 10}
  BufSize = 10
  Unwritten = unwritten
  Wild = {0, 7}
INVARIANTS TypeOK PrintsTheMessage
PROPERTIES ServerEnds
CHECK_DEADLOCK FALSE
