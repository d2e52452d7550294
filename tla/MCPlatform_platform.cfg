\* Three operations of the daemon, two services, six time events, two watches
\* and a timeout, two records on two links, three servers of DNS records, three domains,
\* two lookups at two DNS servers.
CONSTANTS
  o1 = o1 o2 = o2 o3 = o3 s1 = s1 s2 = s2 w1 = w1 w2 = w2
  eth = eth wlan = wlan d1 = d1 d2 = d2 t1 = t1 t2 = t2 t3 = t3
  Op <- ThreeOps
  MaxSockets = 2
  MaxUid = 2
  MaxReplies = 2
  MaxIndex = 1
  None = None
  Code = Code
  Ref <- Refs
  Service = {s1, s2}
  MaxWork = 2
  MaxTime = 2
  MaxEvents = 6
  Watch = {w1, w2}
  Timeout = {t1}
  Link = {eth, wlan}
  Data = {d1, d2}
  Nothing = Nothing
  SrvRecord = {s1, s2, t3}
  MaxInfo = 2
  Domain = {t1, t3}
  Invalid = {t3}
  Static <- TwoStatics
  Id = {1, 2}
  Key = {t1}
  Server = {d1, d2}
  MaxServers = 3
  MaxChanges = 1
SPECIFICATION Spec
SYMMETRY Alike
CHECK_DEADLOCK FALSE
INVARIANTS RepliesKept SharingKept BrowserSound LoopWakes NamesAnswered
PROPERTIES TimesKept DomainsInOrder WideAnswers
