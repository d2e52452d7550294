CONSTANTS
  m1 = m1  m2 = m2  zcUID = zcUID
  e0 = e0  e1 = e1  e2 = e2  e3 = e3
  Module = {m1, m2, zcUID}
  Entry = {e0, e1, e2, e3}
  Publishes = {e0, e1, e3}
  ownerOf <- Owner
  MaxStarts = 2
  MaxPublish = 3
SPECIFICATION Spec
CHECK_DEADLOCK FALSE
INVARIANTS Served
PROPERTIES PointersSound OthersUntouched
