CONSTANTS
  ASICS_COUNT = 2
  ASICS_PER_PSU = 2
  ASICS_PER_BOARD = 2
  VTRIM_MIN = 0
  VTRIM_MAX = 3
  vtrim_max = 2
  vtrim_start = 1
  ASIC_FREQ_MIN = 350
  ASIC_FREQ_MAX = 365
  FREQ_AFTER_DISABLE = 360
  ac2dc_power_limit = 16
  Readings = {10, 30}
  BIST_PERIOD_SECS = 2
  BIST_PERIOD_SECS_LONG = 3
SPECIFICATION Spec
CHECK_DEADLOCK FALSE
INVARIANT BistLimitAboveMin
