SPECIFICATION FairSpec
CONSTANTS
  Timers = {t1, t2, t3}
  Null = Null
  Delays = {2,3}
  MaxLag = 2
INVARIANTS

  ListIntact

