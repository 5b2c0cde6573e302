\* Log messages among the data.
CONSTANTS
  Clients = {c1}
  NoTarget = NoTarget
  Dispatchers = {d1}
  Kinds = {"data", "def", "log"}
  MaxItems = 5
  TimeoutTicks = 1
  SeqMod = 65536
  LossySend = FALSE
  Rt = TRUE
  Confirmations = {FALSE}
  Restarts = FALSE
SPECIFICATION SpecClient
INVARIANTS ClientParserValid
