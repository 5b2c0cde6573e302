---------------------------- MODULE StreamSystem ----------------------------
(***************************************************************************)
(* The streamer together with clients that behave like the repository's    *)
(* own, tests/mutelemetry_client.cc: START until is_start_ack, STOP at any *)
(* time, each definition parsed once and acknowledged whenever it arrives. *)
(* With Restarts a client may end and start anew at any time: nothing of   *)
(* what it keeps survives, and the streamer does not learn of it.          *)
(***************************************************************************)
EXTENDS Streamer

CONSTANTS Confirmations,  \* values of the confirmation field of commands
          Restarts        \* clients may restart

ASSUME ClientAssumption ==
  /\ Confirmations \subseteq BOOLEAN
  /\ Restarts \in BOOLEAN

VARIABLES
  sequence_keeper,  \* sequence numbers a client has seen
  parsed,           \* definitions a client has given to its parser, in order
  is_start_ack,
  is_stop_ack

clientVars == <<sequence_keeper, parsed, is_start_ack, is_stop_ack>>
vars == <<serverVars, clientVars>>

Init ==
  /\ ServerInit
  /\ sequence_keeper = [c \in Clients |-> {}]
  /\ parsed = [c \in Clients |-> <<>>]
  /\ is_start_ack = [c \in Clients |-> FALSE]
  /\ is_stop_ack = [c \in Clients |-> FALSE]

Send(m) ==
  /\ Transmit(m)
  /\ UNCHANGED <<queueVars, syncVars, discVars, mainVars, skip_cntr_, state_,
                 target_, handler, failed>>

(* command_start_logging, as called by connect() and test_stop_start().    *)
CommandStart(c, confirm) ==
  /\ ~ is_start_ack[c]
  /\ Send(Command("START", c, confirm))
  /\ UNCHANGED clientVars

(* command_stop_logging, as called by test_stop_start().                   *)
CommandStop(c, confirm) ==
  /\ ~ is_stop_ack[c]
  /\ Send(Command("STOP", c, confirm))
  /\ UNCHANGED clientVars

(* test_stop_start() turns to restarting.                                  *)
ResetStopAck(c) ==
  /\ is_stop_ack[c]
  /\ is_stop_ack' = [is_stop_ack EXCEPT ![c] = FALSE]
  /\ UNCHANGED <<serverVars, sequence_keeper, parsed, is_start_ack>>

(* The handler of COMMAND_ACK: the result of the command is not looked at. *)
ReceiveCommandAck(c, m) ==
  /\ m.type = "command_ack" /\ m.dst = c
  /\ is_start_ack' = [is_start_ack EXCEPT ![c] = m.command = "START"]
  /\ is_stop_ack' = [is_stop_ack EXCEPT ![c] = @ \/ m.command = "STOP"]
  /\ UNCHANGED <<serverVars, sequence_keeper, parsed>>

(* Mutant: repeated definitions are parsed again.                          *)
IsNewAlways(c, m) == TRUE

IsNew(c, m) == m.sequence \notin sequence_keeper[c]

(* The handler of LOGGING_DATA_ACKED.                                      *)
ReceiveDefinition(c, m) ==
  /\ m.type = "data_acked" /\ m.dst = c
  /\ sequence_keeper' = [sequence_keeper EXCEPT ![c] = @ \cup {m.sequence}]
  /\ parsed' = IF IsNew(c, m) THEN [parsed EXCEPT ![c] = Append(@, m.item)] ELSE parsed
  /\ Send(LoggingAck(c, m.sequence))
  /\ UNCHANGED <<is_start_ack, is_stop_ack>>

(* The process ends, and main() begins again with connect().               *)
ClientRestart(c) ==
  /\ Restarts
  /\ sequence_keeper' = [sequence_keeper EXCEPT ![c] = {}]
  /\ parsed' = [parsed EXCEPT ![c] = <<>>]
  /\ is_start_ack' = [is_start_ack EXCEPT ![c] = FALSE]
  /\ is_stop_ack' = [is_stop_ack EXCEPT ![c] = FALSE]
  /\ UNCHANGED serverVars

(* What a client does besides reading the log.                             *)
ClientControl(c) ==
  \/ \E confirm \in Confirmations : CommandStart(c, confirm) \/ CommandStop(c, confirm)
  \/ ResetStopAck(c)
  \/ \E m \in wire : ReceiveCommandAck(c, m)

ClientStep(c) ==
  \/ ClientControl(c)
  \/ \E m \in wire : ReceiveDefinition(c, m)
  \/ ClientRestart(c)

Next ==
  \/ ServerNext /\ UNCHANGED clientVars
  \/ \E c \in Clients : ClientStep(c)

Spec == Init /\ [][Next]_vars

-----------------------------------------------------------------------------
(***************************************************************************)
(* Properties.                                                             *)
(***************************************************************************)

(* The type invariant.  It also says that the test sync_timeout_ == 1000   *)
(* of sync_loop cannot be stepped over.                                    *)
TypeOK ==
  /\ produced \in 0 .. MaxItems
  /\ \A i \in DOMAIN net_queue_ : net_queue_[i].id \in 1 .. produced
  /\ state_ \in StreamerState \ {"UNKNOWN"}
  /\ seq_ \in 0 .. Len(definitions_)
  /\ target_ \in Clients \cup {NoTarget}
  /\ sync_timeout_ \in 0 .. TimeoutTicks
  /\ {discarding_, running_} \subseteq BOOLEAN
  /\ {sync_st, main_st} \subseteq StreamerState
  /\ send_cntr_ + skip_cntr_ + Len(definitions_) + Len(net_queue_) = produced

(* Definitions the target has parsed.                                      *)
Delivered == IF target_ = NoTarget THEN 0 ELSE Len(parsed[target_])

(* Whatever the network loses, repeats or reorders, and whichever resends  *)
(* time out: the client's parser sees the definitions in the order they    *)
(* were stored, each once, and a client other than the target sees none.   *)
DefinitionsInOrder ==
  /\ \A i \in DOMAIN definitions_ : definitions_[i].id = i
  /\ \A c \in Clients :
       /\ c # target_ => parsed[c] = <<>>
       /\ \A i \in DOMAIN parsed[c] : parsed[c][i].id = i

(* No data message is sent before its receiver has parsed all definitions. *)
DataAfterDefinitions ==
  \A m \in wire : m.type = "data" =>
    /\ m.dst \in Clients
    /\ Len(parsed[m.dst]) = Len(definitions_)

(* With one dispatcher thread no assertion of the streamer fails except    *)
(* the two of an acknowledgement that races the resend timeout, and the    *)
(* assert(0) of sync_loop if a definition is too large for a message.      *)
(* Among those that hold are the assertions of main_loop about state_, of  *)
(* the START and STOP handler, and of sync_loop's own compare-exchanges.   *)
OnlyKnownAssertsFail ==
  failed \subseteq {"ack_cas", "expired_cas"} \cup
    {name \in {"send_def"} : \E i \in DOMAIN definitions_ : ~ fits(definitions_[i])}

(* With one dispatcher thread the streamer never changes its client: a     *)
(* START of another one is refused (proto_command_handler).                *)
TargetIsFinal == [][target_ # NoTarget => target_' = target_]_vars

(* A client is told ACCEPTED only if the stream is its own: START when it   *)
(* became or already was the target, STOP when its stream was running.     *)
AcceptedOnlyTarget ==
  \A m \in wire : m.type = "command_ack" /\ m.accepted =>
    m.dst = target_ /\ (m.command = "STOP" => seq_ = Len(definitions_))

Transfer == INSTANCE DefTransfer WITH
              total     <- Len(definitions_),
              sealed    <- discarding_,
              delivered <- Delivered,
              confirmed <- seq_,
              streaming <- running_

(* The streamer and its client implement the stop-and-wait transfer of     *)
(* DefTransfer: seq_ advances only for a definition that has arrived, the  *)
(* client is at most one definition ahead, and running_ comes last.        *)
ImplementsDefTransfer == Transfer!Spec

(* The asserts of proto_logging_ack_handler ("Another thread has changed   *)
(* the state") and of the timeout in sync_loop never fail.                 *)
NoTimeoutRace == failed \cap {"ack_cas", "expired_cas"} = {}

-----------------------------------------------------------------------------
(***************************************************************************)
(* Liveness.  A handler runs for microseconds and sync_loop sleeps 50 ms   *)
(* at a time, so no tick of the timeout falls into a handler.  A message   *)
(* that is sent for ever gets on the wire, and one that can be received    *)
(* for ever is received: in particular, the acknowledgement sync_loop      *)
(* waits for does not always miss the wait or fall into the instant        *)
(* between the last tick and the resend.                                   *)
(***************************************************************************)
PromptHandlers ==
  sync_timeout_' > sync_timeout_ => \A d \in Dispatchers : handler[d].pc = "idle"

ExpectedAck(d) ==
  /\ sync_pc # "expired"
  /\ \E c \in Clients :
       /\ LoggingAck(c, seq_ % SeqMod) \in wire
       /\ HandlerLoad(d, LoggingAck(c, seq_ % SeqMod))

StartArrives(d, c) ==
  \E confirm \in Confirmations :
    /\ Command("START", c, confirm) \in wire
    /\ HandlerLoad(d, Command("START", c, confirm))

(* The reply to a START of client c.                                       *)
StartReply(d, c) ==
  /\ CommandApply(d)
  /\ handler[d].msg.command = "START" /\ handler[d].msg.src = c

DefinitionArrives(c) ==
  \E m \in wire :
    /\ ReceiveDefinition(c, m)
    /\ m.sequence = seq_ % SeqMod
    /\ LoggingAck(c, m.sequence) \in wire'

StartAckArrives(c) ==
  \E m \in wire : ReceiveCommandAck(c, m) /\ m.command = "START"

(* The handler finishes what it has begun.                                 *)
HandlerWork(d) ==
  CommandDecide(d) \/ CommandApply(d) \/ AckCompare(d) \/ AckApply(d)

Server(A) == A /\ UNCHANGED clientVars
GetsOnWire(A) == A /\ wire' # wire

(* A client asks, its command arrives and the handler finishes with it.    *)
CommandFairness ==
  /\ \A d \in Dispatchers :
       /\ WF_vars(Server(HandlerWork(d)))
       /\ \A c \in Clients : SF_vars(Server(StartArrives(d, c)))
  /\ \A c \in Clients : \A confirm \in Confirmations :
       WF_vars(GetsOnWire(CommandStart(c, confirm)))

(* The loops run, definitions arrive and so do their acknowledgements.     *)
TransferFairness ==
  /\ SF_vars(Server(SyncStep /\ PromptHandlers))
  /\ SF_vars(Server(GetsOnWire(SyncSend)))
  /\ WF_vars(Server(MainStep))
  /\ WF_vars(Server(DiscardStep))
  /\ \A d \in Dispatchers : SF_vars(Server(ExpectedAck(d)))
  /\ \A c \in Clients : SF_vars(DefinitionArrives(c))

(* The replies to START get through.                                       *)
ReplyFairness ==
  \A c \in Clients :
    /\ \A d \in Dispatchers : SF_vars(Server(GetsOnWire(StartReply(d, c))))
    /\ SF_vars(StartAckArrives(c))

(* Clients do not change sync_timeout_: this is Next /\ PromptHandlers.     *)
PromptNext ==
  \/ ServerNext /\ PromptHandlers /\ UNCHANGED clientVars
  \/ \E c \in Clients : ClientStep(c)

PromptSpec == Init /\ [][PromptNext]_vars /\ CommandFairness
TransferSpec == PromptSpec /\ TransferFairness
ConnectSpec == PromptSpec /\ ReplyFairness

(* Once the first data message is queued and clients ask for the stream,   *)
(* the definitions get through, streaming begins, and all that is stored   *)
(* later leaves the queue: discard_loop and main_loop, which race for the  *)
(* last message with a dequeue() that blocks, leave none behind.  A client *)
(* that restarts, however often, does not stall the transfer.              *)
EventuallyStreaming == discarding_ ~> (running_ /\ net_queue_ = <<>>)

(* connect() returns, and so does the wait for the START that follows a    *)
(* STOP in test_stop_start(): a client that keeps asking is answered, also *)
(* one that is refused because another client has the stream, and one that *)
(* has restarted.                                                          *)
ConnectReturns == \A c \in Clients : ~ is_start_ack[c] ~> is_start_ack[c]

=============================================================================
