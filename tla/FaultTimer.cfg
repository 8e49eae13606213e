CONSTANTS
  Links = {"udp", "can"}
  Times <- MCTimes
  Loose <- MCLoose
SPECIFICATION FairSpec
INVARIANTS
  TypeOK
  TimedFaultIsTimed
  ResetIsFinal
  PinReleased
PROPERTY
  TimedPwmStops
