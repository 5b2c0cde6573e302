\* The repository client asks for no confirmation.
CONSTANTS
  Clients = {c1}
  NoTarget = NoTarget
  Dispatchers = {d1}
  Kinds = {"def", "data"}
  MaxItems = 3
  TimeoutTicks = 2
  SeqMod = 65536
  LossySend = TRUE
  Rt = TRUE
  Confirmations = {FALSE}
  Restarts = FALSE
SPECIFICATION ConnectSpec
PROPERTIES ConnectReturns
