SPECIFICATION Spec
CONSTANTS
  Drivers = {"spi", "vhc", "tim"}
  Words <- MCWords
  JtagId <- MCJtagId
  Bypass <- MCBypass
INVARIANTS TypeOK IdleBetweenCalls
PROPERTIES ImplementsScan
