CONSTANTS
  Links = {"udp", "can"}
  Frames <- MCTwoFrames
SPECIFICATION Spec
INVARIANT
  OnlySelected
