SPECIFICATION Spec
CONSTANTS
  Records = {"ip", "can"}
  Bits <- MCBits
  Mark <- MCMark
  MarkWords = 2
  TailWords = 0
  Values <- MCValues
INVARIANT AddressChanged
