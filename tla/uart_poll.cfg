CONSTANTS
  FifoSizes <- BothSizes
  MaxBytes = 3
  Firmware = firmware
  Garbage = garbage
  Ports <- WorkingPort
SPECIFICATION FairSpec
PROPERTY ArrivedIsRead
