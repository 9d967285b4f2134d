SPECIFICATION Spec
CONSTANTS
  FileSize = 3
  SendSize = 2
  MaxRecv = 6
  MaxAsked = 2
  MaxFrames = 3
CHECK_DEADLOCK FALSE
INVARIANTS TypeOK NeverRefused  ContextAlive SessionTaken
PROPERTIES ImplementsChannel Answered MessagesHeard
