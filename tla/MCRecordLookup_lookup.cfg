SPECIFICATION Spec
CONSTANTS
  b1 = b1 b2 = b2 alias = alias host = host a = a x = x c = c
  Browser = {b1, b2}
  BrowseKey <- MCBrowseKey
  Restarting = {b2}
  KeyOf <- MCKeyOf
  Alias <- MCAlias
  Target <- MCTarget
  MaxLookups = 15
  CacheMax = 2
  PoofMax = 1
  MaxDelay = 0
  MaxEvents = 3
CHECK_DEADLOCK FALSE
INVARIANTS LookupsCounted ToldIsCached AskedBeforeExpiry
PROPERTIES SupersededGoes
