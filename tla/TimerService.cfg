SPECIFICATION Spec
CONSTANTS
  IntMax = 5
  TimerIds = {t1, t2}
  Periods <- SomePeriods
  MaxElapsed = 4
  MaxAge = 6
  t1 = t1
  t2 = t2
INVARIANTS
  ExpiresOnTime
