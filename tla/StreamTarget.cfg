\* Two clients compete for the stream with START and STOP.
CONSTANTS
  Clients = {c1, c2}
  NoTarget = NoTarget
  Dispatchers = {d1}
  Kinds = {"def", "data"}
  MaxItems = 3
  TimeoutTicks = 1
  SeqMod = 65536
  LossySend = FALSE
  Rt = FALSE
  Confirmations = {TRUE}
  Restarts = FALSE
SPECIFICATION Spec
INVARIANTS AcceptedOnlyTarget
PROPERTIES TargetIsFinal
SYMMETRY ClientSymmetry
