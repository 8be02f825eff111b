CONSTANTS
  RT_QUEUE_SIZE = 4
  RT_QUEUE_FIRST = 3
  MQ_INCREMENTS = 60
  Jobs = {j1, j2, j3}
  NoJob = NoJob
SPECIFICATION Spec
INVARIANTS TypeOK RingInv
PROPERTY ImplementsWindow
