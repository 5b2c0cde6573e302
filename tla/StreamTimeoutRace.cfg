\* An acknowledgement arrives while the timeout expires.
CONSTANTS
  Clients = {c1}
  NoTarget = NoTarget
  Dispatchers = {d1}
  Kinds = {"def", "data"}
  MaxItems = 4
  TimeoutTicks = 2
  SeqMod = 65536
  LossySend = FALSE
  Rt = TRUE
  Confirmations = {FALSE}
  Restarts = FALSE
SPECIFICATION Spec
INVARIANTS NoTimeoutRace
