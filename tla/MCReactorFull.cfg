SPECIFICATION Spec
CONSTANTS
  Fds = {4, 5}
  ListenFd = 3
  MAX_EVENTS = 1
  SCAN = 1
  IDLE = 1
  BUFLEN = 2
  Sizes = {1, 2}
  MaxUnread = 1
  MaxLag = 1
INVARIANTS ConnsInSlots
CHECK_DEADLOCK FALSE
