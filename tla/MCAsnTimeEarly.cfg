CONSTANTS
  DaySeconds = 2
  CacheRange = 30
  Clocks <- EarlyClocks
  Injected <- MCInjected
  Dates <- MCDates
  LastYear = 2140
SPECIFICATION TimeSpec
INVARIANTS EpochIsZero
