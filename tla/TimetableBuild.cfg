SPECIFICATION FairSpec
CONSTANTS
  Feeds <- AllFeeds
  Dates <- MCDates
  Width = 16
INVARIANTS
  TypeOK
  PatternsFollowTrips
  TripsPartitioned
  TimesStoredOnce
  TripsInOrder
  PatternsSuitEngine
  IndexExact
  ServicesAgree
PROPERTIES
  BuildEnds
