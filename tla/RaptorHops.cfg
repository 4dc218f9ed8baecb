SPECIFICATION Spec
CONSTANTS
  Stops <- MCStops
  MaxRounds = 3
  Day = 20
  Infinity = 1000
  Inputs <- GeneralInputs
INVARIANT
  MultiHopWalksEmerge
