CONSTANT Zips <- AllZips
SPECIFICATION FairSpec
INVARIANTS
  TypeOK
  AcceptsUsable
  TimesFollowSequence
  ByStopExact
  ServicesCombineFiles
  FeedSuitsBuild
PROPERTY ParseEnds
