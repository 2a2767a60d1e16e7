CONSTANTS
  PoolCallers = {p1}
  Executors = {e1}
  Readers = {r1}
  NoQueue = NoQueue
  Unlocked = Unlocked
  StateNonce = 0
  MaxNonce = 1
  MaxLength = 1
SPECIFICATION Spec
PROPERTY OnlyDeletesRemove
VIEW Live
