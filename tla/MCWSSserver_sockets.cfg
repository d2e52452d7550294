\* Three clients for two places, and a fourth that is not on the white list.
CONSTANTS
  c1 = c1  c2 = c2  c3 = c3  c4 = c4
  Client <- FourClients
  uiMaxConnections = 2
  ListBW <- AllButFourth
  bListIsBlack = FALSE
SPECIFICATION WssFairSpec
CHECK_DEADLOCK FALSE
INVARIANTS ObjectsOwned
PROPERTIES PoolSpec ObjectsGo
