\* Fair network and scheduler, a client that restarts: every definition gets
\* through.
CONSTANTS
  Clients = {c1}
  NoTarget = NoTarget
  Dispatchers = {d1}
  Kinds = {"def", "data"}
  MaxItems = 3
  TimeoutTicks = 1
  SeqMod = 65536
  LossySend = TRUE
  Rt = TRUE
  Confirmations = {FALSE}
  Restarts = TRUE
SPECIFICATION TransferSpec
PROPERTIES EventuallyStreaming
