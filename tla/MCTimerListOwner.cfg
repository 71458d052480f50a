SPECIFICATION FairSpec
CONSTANTS
  Timers = {t1, t2, t3, t4}
  Null = Null
  Delays = {2}
  MaxLag = 2
INVARIANTS
  TypeOK
  ListIntact
PROPERTIES
  ImplementsService
  TickEnds
