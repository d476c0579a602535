SPECIFICATION LedgerSpec
CONSTANTS
  Writers = {w1, w2}
  Consumer = w1
  Sessions = {policy, run}
  PolicySession = policy
  Tokens = {t1, t2, t3}
  None = None
  Window = 2
  TTL = 6
  Age = 4
  Ahead = 0
  MaxClock = 7
INVARIANTS
  EventsAreKept
  SpentAgainOnlyPastWindow
