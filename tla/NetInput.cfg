CONSTANTS
  Pbufs <- MCPbufs
  Lengths <- MCLengths
  MsgCount = 2
  QSize = 3
  Period = 2
  TickWrap = 8
  TicksPerSec = 2
SPECIFICATION FairSpec
INVARIANTS
  TypeOK
  MailboxHasRoom
  OneOwner
PROPERTIES
  InputIsQueue
  PacketsHandled
  TimersKeepRunning
