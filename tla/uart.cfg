CONSTANTS
  FifoSizes <- BothSizes
  MaxBytes = 3
  Firmware = firmware
  Garbage = garbage
  Ports <- AllPorts
SPECIFICATION Spec
INVARIANTS TypeOK DeliveredInOrder NoneSwallowed RefusedIsNotSent
