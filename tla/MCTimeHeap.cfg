SPECIFICATION FairSpec
CONSTANTS
  Timers = {t1, t2, t3, t4}
  Null = null
  Garbage = garbage
  Caps = {1, 4}
  InitSizes = {0, 3}
  Delays = {0, 1, 2}
  MaxLag = 1
INVARIANTS TypeOK HoldsEachOnce ComparesTimersOnly HeapOrder PopsTheFired
PROPERTIES ImplementsService TickEnds
