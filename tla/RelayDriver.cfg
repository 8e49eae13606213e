CONSTANTS
  Links = {"udp"}
  Frames <- MCFrames
SPECIFICATION Spec
INVARIANTS
  TypeOK
  RelaysAsAsked
  BreakBeforeMake
  ResistanceAsAsked
