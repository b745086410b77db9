SPECIFICATION Spec
CONSTANTS
  N = 1
  Streams <- BothStreams
  Plans <- TwoLines
  Codes = {0}
  Hearings <- All
  PipeSize = 1
INVARIANT OutputIsComplete
CHECK_DEADLOCK FALSE
