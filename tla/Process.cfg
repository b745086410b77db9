SPECIFICATION Spec
CONSTANTS
  N = 2
  Streams <- BothStreams
  Plans <- Plan
  Codes = {0, 1}
  Hearings <- AllOrOutput
  PipeSize = 1
INVARIANTS TypeOK EachItsStatus DrainedBeforeReap
PROPERTY WaitReturns
CHECK_DEADLOCK FALSE
