SPECIFICATION Spec
CONSTANTS
  MAX_FPGA_CMD_QUEUE = 4
  CMD_QUEUE_ROOM = 2
  Batch = 3
  LOOP_COUNT = 2
  MAX_LOOP_FAIL = 2
  MAX_TIMEOUTS = 2
  MAX_CORRUPTIONS = 1
  MAX_GARBAGE = 1
  MAX_BUSY = 1
  MaxReplies = 3
  MaxFaults = 3
  DeadLoops = {}
INVARIANTS TypeOK FailuresAreReported QueueIsSound OkMeansRead
PROPERTIES TaskEnds
