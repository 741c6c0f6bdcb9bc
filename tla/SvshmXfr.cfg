SPECIFICATION XfrFairSpec
CONSTANTS
  Input <- ThreeBlocks
  MaxStarts = 3
INVARIANTS XfrTypeOK Exclusive ReportsAgree
PROPERTIES StreamSpec TransferEnds
CHECK_DEADLOCK FALSE
