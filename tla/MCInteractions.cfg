SPECIFICATION MCSpec
CONSTANTS
  None = None
  MaxFaults = 2
  Ttl = 1
  Actor = {a1, a2}
  User = {u1, u2}
  Page = {p1}
  Read = {r1, r2}
  Item = {i1}
  Attempts = 2
  Batch = 1
  MaxTime = 2
  NoUpdate = NoUpdate
  Update = {m1, m2}
  Link = {l1, l2}
  MaxOperations = 2
  MaxTokens = 3
  Process = {webhook}
  Caller = {c1, c2}
  Home <- OneHome
  Life = 2
  Margin = 1
  Rounds = 2
  SessionTime = 2
  SessionFaults = 1
  MaxSessions = 4
INVARIANTS
  TokensAreKept
  LinksAreKept
  SessionsAreOwn
PROPERTIES
  AuthoritiesLeave
  CacheIsKept
  ExchangesEnd
CHECK_DEADLOCK FALSE
