SPECIFICATION Spec
CONSTANTS
  Self = 2
  OwnQuality <- LocalQuality
  MaxForeign = 3
  Records <- Announced
INVARIANTS
  ComparisonAgrees
  BestNamesBestGrandmaster
