SPECIFICATION FairSpec
CONSTANTS
  Fds = {0, 4, 5, 6}
  ListenFd = 3
  PipeFd = 7
  MaxUnread = 2
  CLIENTS = 2
  OPEN_MAX = 4
  PipeSize = 3
INVARIANTS TypeOK SelectTable
PROPERTIES SelectStopsAfterEnd SelectClosesEnded StopsAsAsked
CHECK_DEADLOCK FALSE
