CONSTANTS
  N = 4
  Window = 3
  Frames = {f1, f2, f3}
  NoFrame = none
SPECIFICATION FairSpec
INVARIANTS
  TypeOK
  RoomWithinWindow
PROPERTIES
  RingIsQueue
  EventuallyHandled
