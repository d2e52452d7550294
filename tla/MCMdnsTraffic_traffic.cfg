SPECIFICATION TrafficSpec
CONSTANTS
  ptr = ptr srv = srv
  Record = {ptr, srv}
  KeyOf <- MCKeyOf
  Aux <- MCAux
  Unique = {srv}
  Querier = {q1, q2}
  Aged = {q2}
  NoOne = NoOne
  Full = 4
  Low = 1
  Room = 1
INVARIANTS SchedulesKept GoodbyeComes
PROPERTIES AnswersComplete
