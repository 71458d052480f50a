SPECIFICATION FairSpec
CONSTANTS
  Timers = {t1, t2, t3, t4}
  Null = Null
  N = 3
  SI = 2
  Timeouts <- MCTimeouts
  CallbackTimeouts <- MCRearms
INVARIANTS
  TypeOK
  ListsIntact
  CursorSafe
  OnTime
PROPERTIES
  ImplementsService
  WalkShrinks
  EveryTimerLeaves
