CONSTANTS
  RT_QUEUE_SIZE = 2
  RT_QUEUE_FIRST = 1
  MQ_INCREMENTS = 60
  Jobs = {1, 2, 3}
  NoJob = 0
  Sessions = {s1}
  Rt = Rt
  NoThread = NoThread
  MaxPacket = 2
  REQ_LIMIT = 2
  MAX_RESPONDS = 2
  WORDS_PER_JOB = 50
  MQ_TOO_FULL = 50
  BIST_JOBS = 1
  ASIC_DEPTH = 1
  HW_ERR_LIMIT = 1
  MaxWins = 1
  BadEngines = TRUE
  DropMasks = {FALSE}
  Disconnects = FALSE
  Lingers = TRUE
SPECIFICATION FairSpec
INVARIANTS TypeOK JobInOnePlace CompletionIsLast WinsCreditTheirJob HardwareJobsAreLive EvictedJobHasNoNonce
PROPERTY YoungerJobsCompleteIt
