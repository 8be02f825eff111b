SPECIFICATION Spec
CONSTANTS
  Machines <- MCMachines
  UserFiles <- MCUserFiles
  InputVoltages = {104, 113, 209, 220}
  Empty = Empty
  NoFile = NoFile
INVARIANTS TypeOK LimitInForce StartVoltageLowered AlternativeInForce NextStartReads
PROPERTIES OverloadKeepsPower
