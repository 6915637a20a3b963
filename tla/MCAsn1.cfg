CONSTANTS
  Base = 16
  Bits = 4
  SizeBytes = 2
  U64Bytes = 2
  WordBytes = 2
  Tag <- MCTag
  Zed = 10
  Rooms = {12, 22}
  ReadRooms = {1, 8}
  Writes <- MCWrites
  Damage = {0, 2, 8, 9}
  MaxWrites = 4
  MaxDamaged = 2
  MaxReads = 2
  DaySeconds = 2
  CacheRange = 30
  Clocks <- MCClocks
  Injected <- MCInjected
  Dates <- MCDates
  LastYear = 2140
SPECIFICATION MCSpec
INVARIANTS TypeOK ReadsBack Canonical TimeTypeOK ConversionsExact InjectedRules UtcRoundTrip
CHECK_DEADLOCK FALSE
