SPECIFICATION SpecRepeat
CONSTANTS
  Stops <- MCStops
  MaxRounds = 2
  Day = 20
  Infinity = 1000
  Inputs <- Twins
INVARIANT
  Repeatable
