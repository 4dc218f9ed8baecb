SPECIFICATION Spec
CONSTANTS
  Feeds <- BlankTimeFeeds
  Dates <- MCDates
  Width = 16
INVARIANTS
  TimesAreSeconds
