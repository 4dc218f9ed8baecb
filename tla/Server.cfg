SPECIFICATION FairSpec
CONSTANTS
  c1 = c1
  c2 = c2
  Clients <- MCClients
  Deployments <- MCDeployments
  Surveys <- MCSurveys
  MinLat = 3
  MaxLat = 8
  MinLon <- MCMinLon
  MaxLon <- MCMaxLon
  Unit = 10
  Cos <- MCCos
  MaxMeters = 2
  WalkSpeed = 1
  NaN = NaN
  Chars <- MCChars
  Lower <- MCLower
  ResolveLimit = 2
  DefaultStopLimit = 2
  MaxStopLimit = 3
  Width = 400000
  Rides <- MCRides
  Absent = Absent
  Malformed = Malformed
CHECK_DEADLOCK FALSE
INVARIANTS
  TypeOK
  FootpathsExact
  LinksPaired
  ServesWhenReady
  PlannerAgrees
PROPERTIES
  OnlySlowReadersCut
  SignalEndsServer
  CallsEnd
  RepliesRight
