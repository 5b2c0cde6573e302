\* Clients that ask for a confirmation get one, whoever owns the stream.
CONSTANTS
  Clients = {c1, c2}
  NoTarget = NoTarget
  Dispatchers = {d1}
  Kinds = {"def"}
  MaxItems = 0
  TimeoutTicks = 1
  SeqMod = 65536
  LossySend = TRUE
  Rt = TRUE
  Confirmations = {TRUE}
  Restarts = TRUE
SPECIFICATION ConnectSpec
PROPERTIES ConnectReturns
