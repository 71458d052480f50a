SPECIFICATION Spec
CONSTANTS
  Timers = {t1, t2}
  Null = Null
  N = 3
  SI = 2
  Timeouts <- MCTimeouts
  CallbackTimeouts <- MCLapRearms
INVARIANTS
  NeverLate
