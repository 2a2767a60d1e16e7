CONSTANTS
  PoolCallers = {p1, p2}
  Executors = {e1}
  Readers = {r1}
  NoQueue = NoQueue
  Unlocked = Unlocked
  StateNonce = 1
  MaxNonce = 2
  MaxLength = 1
SPECIFICATION FairSpec
INVARIANT TypeOK
INVARIANT OkPollsLower
INVARIANT ErrPollsAbove
PROPERTY ImplementsQueue
PROPERTY CallsReturn
VIEW Live
