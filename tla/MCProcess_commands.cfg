CONSTANTS
  Commands <- MCCommands
  NULL = NULL
  Sessions <- MCWorkers
  Threads <- MCWorkers
  Boards <- MCBoards
  Bitfiles <- MCBitfiles
  HwPort <- MCHwPort
  SerialPort <- MCSerialPort
  PENDING = 1
  Halves <- MCHalves
  LegalDisplays <- MCLegal
  FRAMES = 2
SPECIFICATION FairSpec
INVARIANTS
  TypeOK
  ReadsOwnBitfile
  NoZipLeft
  BridgeOutlivesHwServer
  OwnHalves
  OneThreadPerBoard
  PassedOnOwnBitfile
  ZeroMeansAllPassed
  NoRunUnwritten
PROPERTIES
  HangIsContained
CHECK_DEADLOCK FALSE
