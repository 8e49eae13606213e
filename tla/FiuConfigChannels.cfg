CONSTANTS
  FaultMsgs <- MCFaultMsgs
  LooseMsgs <- MCLooseMsgs
  TimeBytes <- MCTimeBytes
SPECIFICATION Spec
INVARIANT
  EveryChannelStaged
