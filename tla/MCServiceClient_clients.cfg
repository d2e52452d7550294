SPECIFICATION ClientSpec
CONSTANTS
  v4 = v4 v6 = v6 h1 = h1 h2 = h2
  Proto = {v4, v6}
  Host = {h1, h2}
  Carried <- MCMoves
  Failures = TRUE
  None = None
INVARIANTS ListSound
PROPERTIES Recovers
