SPECIFICATION FairSpec
CONSTANTS
  Fds = {4, 5, 6}
  ListenFd = 3
  MAX_EVENTS = 2
  SCAN = 1
  IDLE = 1
  BUFLEN = 2
  Sizes = {1, 2}
  MaxUnread = 1
  MaxLag = 1
INVARIANTS TypeOK SlotsMatchEpoll BatchFresh IdleSoonClosed
PROPERTIES OnlyIdleClosed AnswersOrCloses EndedIsClosed
CHECK_DEADLOCK FALSE
