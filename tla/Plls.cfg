CONSTANTS
  ASICS_COUNT = 2
  ENGINES = {e1, e2}
  MIN_ENGINES = 1
  ASIC_FREQ_MIN = 350
  ASIC_FREQ_MAX = 360
  MAX_DISASICS = 2
  STUCK_TRIES = 0
  MAYHEM_TRIES = 1
SPECIFICATION FairSpec
INVARIANTS MiningEngines OutOfRangeIsKnown
PROPERTY CallsEnd
\* The process may end.
CHECK_DEADLOCK FALSE
