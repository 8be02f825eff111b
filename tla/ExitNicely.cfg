\* Two boards, one converter each, one failed transfer; signals and exits of
\* the main and the RT thread.  The process ends, or blocks on itself.
CONSTANTS
  ASICS_COUNT = 30
  ASICS_PER_BOARD = 15
  Converters = {8, 23}
  Others = {}
  MAX_RECURSIVE = 5
  MaxFaults = 1
SPECIFICATION FairSpec
INVARIANTS TypeOK ConvertersOff SelfBlockOnlyInExit
PROPERTIES AccessReachesItsConverter ExitEnds
CHECK_DEADLOCK FALSE
