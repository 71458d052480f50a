SPECIFICATION FairSpec
CONSTANTS
  Timers = {t1, t2, t3}
  Null = Null
  Fds = {5, 6}
  ListenFd = 3
  PipeFd = 4
  TIMESLOT = 1
  MaxLag = 1
  MAX_EVENT_NUMBER = 2
  AcceptMayFail = TRUE
INVARIANTS
  TypeOK
  TimersIntact
  OneTimerEach
  HeartbeatAlive
  IdleSoonClosed
PROPERTIES
  OnlyIdleClosed
  TermStops
CHECK_DEADLOCK FALSE
