\* One dispatcher, one client with its parser, an unreliable network; as many
\* definitions as there are sequence numbers.
CONSTANTS
  Clients = {c1}
  NoTarget = NoTarget
  Dispatchers = {d1}
  Kinds = {"def", "bigdef", "data", "bigdata"}
  MaxItems = 5
  TimeoutTicks = 2
  SeqMod = 4
  LossySend = TRUE
  Rt = TRUE
  Confirmations = {FALSE}
  Restarts = FALSE
SPECIFICATION SpecClient
INVARIANTS TypeOK DefinitionsInOrder DataAfterDefinitions OnlyKnownAssertsFail ClientParserValid
PROPERTIES ImplementsDefTransfer
