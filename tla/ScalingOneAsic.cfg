CONSTANTS
  ASICS_COUNT = 1
  ASICS_PER_PSU = 1
  ASICS_PER_BOARD = 1
  VTRIM_MIN = 0
  VTRIM_MAX = 4
  vtrim_max = 3
  vtrim_start = 2
  ASIC_FREQ_MIN = 350
  ASIC_FREQ_MAX = 380
  FREQ_AFTER_DISABLE = 360
  ac2dc_power_limit = 16
  Readings = {10, 30}
  BIST_PERIOD_SECS = 2
  BIST_PERIOD_SECS_LONG = 3
SPECIFICATION Spec
CHECK_DEADLOCK FALSE
INVARIANTS TypeOK FreqWithinBistLimit UpperLimitsHold CoolingCountNotAhead
