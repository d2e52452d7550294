\* Four clients, one of them black-listed, for a house of one with two pending
\* places; or one client with two requests and answers of up to four portions.
CONSTANTS
  c1 = c1
  c2 = c2
  c3 = c3
  c4 = c4
  Client <- FourClients
  MaxConnections = 1
  MaxPending = 2
  ListBW <- OnlyFourth
  ListIsBlack = TRUE
  MaxReads = 2
  MaxChunks = 4
SPECIFICATION MCSpec
CHECK_DEADLOCK FALSE
INVARIANTS NothingLeaks AnswersIntact
PROPERTIES PoolSpec AnswerFreesSlot
