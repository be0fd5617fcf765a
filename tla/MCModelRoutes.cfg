CONSTANTS
  a = a
  b = b
  ag = ag
  Star = star
  Name = {1, 2, 3}
  Caller = {ag}
  AnyCaller = none
  Letter = {a, b, star}
  Pattern <- MCPatterns
  ModelName <- MCModels
  Rank = {0, 1}
  MaxMatch = 2
SPECIFICATION RoutesSpec
INVARIANTS RoutedWhenCovered ExactBeatsWildcard
