SPECIFICATION Spec
CONSTANTS
  i1 = i1 i2 = i2 a1 = a1 a2 = a2 a3 = a3 h1 = h1 h2 = h2
  Iface = {i1, i2}
  Addresses <- MCAddresses
  On <- MCOn
  Global = {a1, a2}
  HostName = {h1, h2}
  Iterations = 2
  MaxEvents = 2
CHECK_DEADLOCK FALSE
INVARIANTS RegistrationsKept HeardIsServed NeverStuck
