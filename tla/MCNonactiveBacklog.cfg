SPECIFICATION FairSpec
CONSTANTS
  Timers = {t1, t2}
  Null = Null
  Fds = {5, 6}
  ListenFd = 3
  PipeFd = 4
  TIMESLOT = 1
  MaxLag = 1
  MAX_EVENT_NUMBER = 4
  AcceptMayFail = FALSE
PROPERTIES
  ConnectedIsAccepted
CHECK_DEADLOCK FALSE
