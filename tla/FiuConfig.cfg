CONSTANTS
  FaultMsgs <- MCFaultMsgs
  LooseMsgs <- MCLooseMsgs
  TimeBytes <- MCTimeBytes
SPECIFICATION Spec
INVARIANTS
  TypeOK
  StagedExactly
  SessionStaged
  SessionQuota
  AtMostOneLateFrame
CONSTRAINT
  StagedBound
