SPECIFICATION Spec
CONSTANTS
  Symbols <- AllSymbols
  LongCopy = 10
INVARIANTS
  InputWithinBudget
  EveryCommandAdvances
  WordInPlace
  DistancesFit
CHECK_DEADLOCK FALSE
