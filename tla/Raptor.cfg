SPECIFICATION FairSpec
CONSTANTS
  Stops <- MCStops
  MaxRounds = 3
  Day = 20
  Infinity = 1000
  Inputs <- RaptorInputs
INVARIANTS
  TypeInv
  InductiveInv
  JourneysFeasible
  JourneysImprove
  TransfersIncrease
  ReconstructionSucceeds
PROPERTIES
  AnswersPareto
  Returns
