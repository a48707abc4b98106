\* Two workers that count small and large pieces while one of them samples.
SPECIFICATION LiveSpec
CONSTANTS
  w1 = w1
  w2 = w2
  Workers <- TwoWorkers
  Pieces <- SmallAndLarge
  Word = 16
  LongWord = 64
  Window = 3
  MaxCounts = 5
INVARIANTS
  SamplesAddUp
  SpeedIsAmongRates
PROPERTIES
  SpeedFallsToZero
