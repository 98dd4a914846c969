SPECIFICATION FairSpec
CONSTANTS
  Agent = {a1}
  NoAgent = NoAgent
  Worker = {w1, w2}
  NoWorker = NoWorker
  Limit = 1
  MaxCommands = 2
  MaxEnroll = 0
CHECK_DEADLOCK FALSE
PROPERTIES
  QueueDrains
