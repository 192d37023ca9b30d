CONSTANTS
  MaxInt = 7
  MaxInits = 3
  Second = 3
  MaxSecs = 9
  MaxTtl = 5
  MaxBuffer = 7
  LittleEndian = TRUE
  Octets = {0, 1, 2}
  MaxName = 3
  MaxUrl = 5
  MaxChanges = 3
  Unlisted <- MCUnlisted
SPECIFICATION Spec
INVARIANTS ConfigSticks SettingKept NoUnreachable ErrorKept UrlNamesPeer
  BuildIsCurrent LinkSound
CHECK_DEADLOCK FALSE
