SPECIFICATION Spec
CONSTANTS
  Feeds <- UnknownStopFeeds
  Dates <- MCDates
  Width = 16
INVARIANTS
  TripsShareTheirStops
