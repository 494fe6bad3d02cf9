SPECIFICATION Spec
CONSTANTS
  Second = 30
  Word = 2
  HalfWord = 4
  Fraction = 4
  IntBits = 6
  Stiffest = 3
  OfmDelayLen = 5
  SyntonizedBelow = 3
  ap = 2
  ai = 2
  PiUnit = 1
  AdjFreqMax = 1
  initial_tick = 8
  Now = 59
  Delays = {1, 3}
  Corrections <- Residences
  InitialErrors <- Errors
  Wanders = {2}
  Scenarios <- AllScenarios
INVARIANTS
  FilterFits
  StepLands
  SteppedOnceWhenSyntonized
PROPERTIES
  EstimateBetween
CHECK_DEADLOCK FALSE
