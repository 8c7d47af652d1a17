CONSTANTS
  Inputs <- MCInputs
  Defaults <- MCDefaults
  Leftovers <- MCLeftovers
  MaxCalls = 120
  NodeCap = 2
  TextCap = 2
  IntMax = 99999
  CIntMax = 9999
  FieldMax = 3
  AccBits = 20
  DefaultThrottle = 10000
SPECIFICATION Spec
INVARIANTS NeverHalfRead LoadedAsWritten HeapSound
PROPERTIES ParserReturns
CHECK_DEADLOCK FALSE
