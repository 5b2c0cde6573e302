------------------------------ MODULE Streamer ------------------------------
(***************************************************************************)
(* The network streamer (MutelemetryStreamer, mutelemetry_network.{h,cc}). *)
(*                                                                         *)
(* Application threads put serialized messages into net_queue_.  sync_loop *)
(* collects everything before the first data message into definitions_,    *)
(* sends the definitions one by one to the client that sent the first      *)
(* START, waiting for an acknowledgement of each, and then sets running_.  *)
(* With rt, discard_loop meanwhile throws the queue away.  The periodic    *)
(* main_loop streams what is queued once running_ is set.  The router      *)
(* calls the two protocol handlers from its dispatcher threads.            *)
(*                                                                         *)
(* Threads meet in state_, changed only by compare_exchange_strong         *)
(* (set_state); a step of this module is the work between two accesses of  *)
(* one thread to shared state.  An assertion that does not hold adds its   *)
(* name to failed and the code continues, as with NDEBUG.                  *)
(*                                                                         *)
(* The network may lose, duplicate and reorder: a message on the wire can  *)
(* be received at any time, any number of times, or never.  With LossySend *)
(* a message may also fail to get on the wire, which matters to liveness   *)
(* only: fairness then does not deliver it unless it is sent again.        *)
(***************************************************************************)
EXTENDS Naturals, Sequences, FiniteSets

CONSTANTS Clients,       \* addresses (group and instance id) of clients
          NoTarget,      \* the address 0 of a streamer without a client
          Dispatchers,   \* router threads that call the protocol handlers
          Kinds,         \* kinds of messages the application stores
          MaxItems,      \* bound: messages put into net_queue_
          TimeoutTicks,  \* sleeps of sync_loop until it resends (1000 / 50)
          SeqMod,        \* sequence numbers are sent modulo this (2^16)
          LossySend,     \* a message may be lost when it is sent
          Rt             \* the argument of run(): discard_loop is started

ASSUME StreamerAssumption ==
  /\ NoTarget \notin Clients
  /\ Kinds \subseteq {"def", "data", "bigdef", "bigdata", "log"}
  /\ MaxItems \in Nat
  /\ TimeoutTicks \in Nat \ {0}
  /\ SeqMod \in Nat \ {0}
  /\ LossySend \in BOOLEAN
  /\ Rt \in BOOLEAN

VARIABLES
  produced,      \* messages put into net_queue_ so far
  net_queue_,    \* contents of the ConcQueue
  definitions_, state_, seq_, target_, sync_timeout_,
  discarding_, running_, send_cntr_, skip_cntr_,
  sync_pc,       \* where sync_loop is
  sync_st,       \* its local copy of state_
  disc_pc,       \* where discard_loop is
  main_pc,       \* where main_loop is
  main_st,       \* its local copy of state_
  handler,       \* the protocol handler each dispatcher executes
  wire,          \* messages of the streamer and its clients in the network
  failed         \* assertions of the code that did not hold

queueVars == <<produced, net_queue_>>
syncVars == <<definitions_, seq_, sync_timeout_, discarding_, running_, sync_pc, sync_st>>
discVars == <<disc_pc>>
mainVars == <<main_pc, main_st, send_cntr_>>
serverVars == <<queueVars, syncVars, discVars, mainVars, skip_cntr_, state_,
                target_, handler, wire, failed>>

StreamerState == {"INIT", "CONNECTED", "SEND_DEF", "RESEND_DEF", "ACK_RECV",
                  "ACK_WAIT", "RUNNING", "STOPPED", "UNKNOWN"}

(* check_ulog_data_begin: the message starts with a subscription 'A'.      *)
check_ulog_data_begin(item) == item.kind \in {"data", "bigdata"}

(* The message fits the data field (249 bytes) of a MAVLink message.       *)
fits(item) == item.kind \in {"def", "data", "log"}

(* The messages on the wire.                                               *)
Command(cmd, c, confirm) ==
  [type |-> "command", command |-> cmd, src |-> c, confirmation |-> confirm]
CommandAck(cmd, c, accepted) ==
  [type |-> "command_ack", command |-> cmd, dst |-> c, accepted |-> accepted]
LoggingDataAcked(c, n, item) ==
  [type |-> "data_acked", dst |-> c, sequence |-> n, item |-> item]
LoggingAck(c, n) ==
  [type |-> "logging_ack", src |-> c, sequence |-> n]
LoggingData(c, item) ==
  [type |-> "data", dst |-> c, item |-> item]

(* sendmavmsg.                                                             *)
Transmit(m) ==
  \/ wire' = wire \cup {m}
  \/ LossySend /\ wire' = wire

NoHandler == [pc |-> "idle"]

(* MutelemetryStreamer(), init() and run().                                *)
ServerInit ==
  /\ produced = 0
  /\ net_queue_ = <<>>
  /\ definitions_ = <<>>
  /\ state_ = "INIT"
  /\ seq_ = 0
  /\ target_ = NoTarget
  /\ sync_timeout_ = 0
  /\ discarding_ = FALSE
  /\ running_ = FALSE
  /\ send_cntr_ = 0
  /\ skip_cntr_ = 0
  /\ sync_pc = "collect" /\ sync_st = "UNKNOWN"
  /\ disc_pc = IF Rt THEN "wait" ELSE "done"
  /\ main_pc = "idle" /\ main_st = "UNKNOWN"
  /\ handler = [d \in Dispatchers |-> NoHandler]
  /\ wire = {}
  /\ failed = {}

(* An assertion; with NDEBUG its failure has no effect on the program.     *)
AssertHolds(cond, name) == failed' = IF cond THEN failed ELSE failed \cup {name}

(* set_state(old, new), whose result the caller asserts.                   *)
SetState(old, new, name) ==
  /\ state_' = IF state_ = old THEN new ELSE state_
  /\ AssertHolds(state_ = old, name)

-----------------------------------------------------------------------------
(* MuTelemetry::to_io.  create_header_and_flags stores the first two       *)
(* messages, which are not data and fit.                                   *)
Preamble == 2

Enqueue(kind) ==
  /\ produced < MaxItems
  /\ produced < Preamble => kind = "def"
  /\ produced' = produced + 1
  /\ net_queue_' = Append(net_queue_, [id |-> produced + 1, kind |-> kind])
  /\ UNCHANGED <<syncVars, discVars, mainVars, skip_cntr_, state_, target_,
                 handler, wire, failed>>

-----------------------------------------------------------------------------
(***************************************************************************)
(* sync_loop.                                                              *)
(***************************************************************************)

(* Nothing else takes from the queue before discarding_ is set.            *)
Collect ==
  /\ sync_pc = "collect"
  /\ net_queue_ # <<>>
  /\ IF check_ulog_data_begin(Head(net_queue_))
       THEN /\ discarding_' = TRUE
            /\ sync_pc' = "load"
            /\ UNCHANGED <<net_queue_, definitions_>>
       ELSE /\ net_queue_' = Tail(net_queue_)
            /\ definitions_' = Append(definitions_, Head(net_queue_))
            /\ UNCHANGED <<discarding_, sync_pc>>
  /\ UNCHANGED <<produced, seq_, sync_timeout_, running_, sync_st, discVars,
                 mainVars, skip_cntr_, state_, target_, handler, wire, failed>>

(* Where the switch of sync_loop goes; INIT and STOPPED only sleep.        *)
Dispatch(st) ==
  CASE st \in {"CONNECTED", "RESEND_DEF", "SEND_DEF"} -> "send"
    [] st = "ACK_RECV" -> "recv"
    [] st = "ACK_WAIT" -> "wait"
    [] OTHER           -> "load"

SyncLoad ==
  /\ sync_pc = "load"
  /\ seq_ < Len(definitions_)
  /\ sync_st' = state_
  /\ sync_pc' = Dispatch(state_)
  /\ AssertHolds(state_ \notin {"RUNNING", "UNKNOWN"}, "sync_state")
  /\ UNCHANGED <<queueVars, definitions_, seq_, sync_timeout_, discarding_,
                 running_, discVars, mainVars, skip_cntr_, state_, target_,
                 handler, wire>>

(* Mutant: the timeout is not restarted.                                   *)
SyncSendKeepsTimeout ==
  /\ sync_pc = "send"
  /\ Transmit(LoggingDataAcked(target_, seq_ % SeqMod, definitions_[seq_ + 1]))
  /\ sync_pc' = "sent"
  /\ UNCHANGED <<queueVars, definitions_, seq_, sync_timeout_, discarding_,
                 running_, sync_st, discVars, mainVars, skip_cntr_, state_,
                 target_, handler, failed>>

(* send_ulog_ack(definitions_[seq_]); when it refuses, the loop repeats.   *)
SyncSend ==
  /\ sync_pc = "send"
  /\ LET dp == definitions_[seq_ + 1] IN
       /\ IF fits(dp)
            THEN /\ Transmit(LoggingDataAcked(target_, seq_ % SeqMod, dp))
                 /\ sync_timeout_' = 0
                 /\ sync_pc' = "sent"
            ELSE /\ sync_pc' = "load"
                 /\ UNCHANGED <<wire, sync_timeout_>>
       /\ failed' = failed
            \cup (IF sync_st = "CONNECTED" /\ target_ = NoTarget THEN {"target"} ELSE {})
            \cup (IF fits(dp) THEN {} ELSE {"send_def"})
  /\ UNCHANGED <<queueVars, definitions_, seq_, discarding_, running_, sync_st,
                 discVars, mainVars, skip_cntr_, state_, target_, handler>>

SyncSent ==
  /\ sync_pc = "sent"
  /\ SetState(sync_st, "ACK_WAIT", "sent_cas")
  /\ sync_pc' = "load"
  /\ UNCHANGED <<queueVars, definitions_, seq_, sync_timeout_, discarding_,
                 running_, sync_st, discVars, mainVars, skip_cntr_, target_,
                 handler, wire>>

SyncRecv ==
  /\ sync_pc = "recv"
  /\ SetState(sync_st, "SEND_DEF", "recv_cas")
  /\ sync_pc' = "inc"
  /\ UNCHANGED <<queueVars, definitions_, seq_, sync_timeout_, discarding_,
                 running_, sync_st, discVars, mainVars, skip_cntr_, target_,
                 handler, wire>>

SyncInc ==
  /\ sync_pc = "inc"
  /\ seq_' = seq_ + 1
  /\ sync_pc' = "load"
  /\ UNCHANGED <<queueVars, definitions_, sync_timeout_, discarding_, running_,
                 sync_st, discVars, mainVars, skip_cntr_, state_, target_,
                 handler, wire, failed>>

(* One sleep of 50 ms.                                                     *)
SyncWait ==
  /\ sync_pc = "wait"
  /\ sync_timeout_' = sync_timeout_ + 1
  /\ sync_pc' = IF sync_timeout_' = TimeoutTicks THEN "expired" ELSE "load"
  /\ UNCHANGED <<queueVars, definitions_, seq_, discarding_, running_, sync_st,
                 discVars, mainVars, skip_cntr_, state_, target_, handler,
                 wire, failed>>

(* Mutant: the timeout is restarted but nothing is sent again.             *)
SyncExpiredNoResend ==
  /\ sync_pc = "expired"
  /\ sync_timeout_' = 0
  /\ sync_pc' = "load"
  /\ UNCHANGED <<queueVars, definitions_, seq_, discarding_, running_, sync_st,
                 discVars, mainVars, skip_cntr_, state_, target_, handler,
                 wire, failed>>

SyncExpired ==
  /\ sync_pc = "expired"
  /\ SetState(sync_st, "RESEND_DEF", "expired_cas")
  /\ sync_pc' = "load"
  /\ UNCHANGED <<queueVars, definitions_, seq_, sync_timeout_, discarding_,
                 running_, sync_st, discVars, mainVars, skip_cntr_, target_,
                 handler, wire>>

(* set_state(state_.load(), STATE_RUNNING), whose result is ignored.       *)
SyncFinishLoad ==
  /\ sync_pc = "load"
  /\ seq_ >= Len(definitions_)
  /\ sync_st' = state_
  /\ sync_pc' = "finish"
  /\ UNCHANGED <<queueVars, definitions_, seq_, sync_timeout_, discarding_,
                 running_, discVars, mainVars, skip_cntr_, state_, target_,
                 handler, wire, failed>>

SyncFinish ==
  /\ sync_pc = "finish"
  /\ state_' = IF state_ = sync_st THEN "RUNNING" ELSE state_
  /\ sync_pc' = "run"
  /\ UNCHANGED <<queueVars, definitions_, seq_, sync_timeout_, discarding_,
                 running_, sync_st, discVars, mainVars, skip_cntr_, target_,
                 handler, wire, failed>>

SyncRun ==
  /\ sync_pc = "run"
  /\ running_' = TRUE
  /\ sync_pc' = "done"
  /\ UNCHANGED <<queueVars, definitions_, seq_, sync_timeout_, discarding_,
                 sync_st, discVars, mainVars, skip_cntr_, state_, target_,
                 handler, wire, failed>>

SyncStep ==
  \/ Collect \/ SyncLoad \/ SyncSend \/ SyncSent \/ SyncRecv \/ SyncInc
  \/ SyncWait \/ SyncExpired \/ SyncFinishLoad \/ SyncFinish \/ SyncRun

-----------------------------------------------------------------------------
(***************************************************************************)
(* discard_loop.                                                           *)
(***************************************************************************)
DiscardTest ==
  /\ \/ disc_pc = "wait" /\ discarding_ /\ disc_pc' = "test"
     \/ disc_pc = "test" /\ disc_pc' = IF running_ THEN "done" ELSE "dequeue"
  /\ UNCHANGED <<queueVars, syncVars, mainVars, skip_cntr_, state_, target_,
                 handler, wire, failed>>

(* dequeue() blocks while the queue is empty.                              *)
Discard ==
  /\ disc_pc = "dequeue"
  /\ net_queue_ # <<>>
  /\ net_queue_' = Tail(net_queue_)
  /\ skip_cntr_' = skip_cntr_ + 1
  /\ disc_pc' = "test"
  /\ UNCHANGED <<produced, syncVars, mainVars, state_, target_, handler, wire,
                 failed>>

DiscardStep == DiscardTest \/ Discard

-----------------------------------------------------------------------------
(***************************************************************************)
(* main_loop.                                                              *)
(***************************************************************************)
(* Mutant: main_loop waits for the wrong flag.                             *)
MainEnterOnDiscarding ==
  /\ main_pc = "idle"
  /\ discarding_
  /\ main_st' = state_
  /\ main_pc' = "while"
  /\ UNCHANGED <<queueVars, syncVars, discVars, send_cntr_, skip_cntr_, state_,
                 target_, handler, wire, failed>>

MainEnter ==
  /\ main_pc = "idle"
  /\ running_
  /\ main_st' = state_
  /\ main_pc' = "while"
  /\ AssertHolds(state_ \in {"RUNNING", "STOPPED"}, "main_state")
  /\ UNCHANGED <<queueVars, syncVars, discVars, send_cntr_, skip_cntr_, state_,
                 target_, handler, wire>>

MainWhile ==
  /\ main_pc = "while"
  /\ main_pc' = IF net_queue_ = <<>> THEN "idle" ELSE "dequeue"
  /\ UNCHANGED <<queueVars, syncVars, discVars, main_st, send_cntr_, skip_cntr_,
                 state_, target_, handler, wire, failed>>

(* dequeue() blocks when discard_loop took the message first.  What is     *)
(* neither skipped nor refused by send_ulog is sent.                       *)
MainDequeue ==
  /\ main_pc = "dequeue"
  /\ net_queue_ # <<>>
  /\ net_queue_' = Tail(net_queue_)
  /\ main_pc' = "while"
  /\ IF main_st # "STOPPED" /\ fits(Head(net_queue_))
       THEN /\ Transmit(LoggingData(target_, Head(net_queue_)))
            /\ send_cntr_' = send_cntr_ + 1
            /\ UNCHANGED skip_cntr_
       ELSE /\ skip_cntr_' = skip_cntr_ + 1
            /\ UNCHANGED <<wire, send_cntr_>>
  /\ UNCHANGED <<produced, syncVars, discVars, main_st, state_, target_,
                 handler, failed>>

MainStep == MainEnter \/ MainWhile \/ MainDequeue

-----------------------------------------------------------------------------
(***************************************************************************)
(* The protocol handlers.                                                  *)
(***************************************************************************)

(* The handler decodes the message and loads state_.  An acknowledgement   *)
(* is ignored unless the streamer waits for one.                           *)
HandlerLoad(d, m) ==
  /\ handler[d].pc = "idle"
  /\ m.type \in {"command", "logging_ack"}
  /\ m.type = "logging_ack" => state_ = "ACK_WAIT"
  /\ handler' = [handler EXCEPT ![d] =
       [pc |-> m.type, msg |-> m, st |-> state_, new |-> "UNKNOWN"]]
  /\ UNCHANGED <<queueVars, syncVars, discVars, mainVars, skip_cntr_, state_,
                 target_, wire, failed>>

(* Mutant: START and STOP of any client.                                   *)
NewStateOfAny(m, st) ==
  CASE m.command = "START" /\ st = "INIT"    -> "CONNECTED"
    [] m.command = "START" /\ st = "STOPPED" -> "RUNNING"
    [] m.command = "STOP"  /\ st = "RUNNING" -> "STOPPED"
    [] OTHER -> "UNKNOWN"

(* Mutant: STOP in any state.                                              *)
NewStateStopsAlways(m, st) ==
  CASE m.command = "START" /\ st = "INIT" -> "CONNECTED"
    [] m.command = "START" /\ st = "STOPPED" /\ m.src = target_ -> "RUNNING"
    [] m.command = "STOP"  /\ m.src = target_ -> "STOPPED"
    [] OTHER -> "UNKNOWN"

(* What a command asks for in a state: UNKNOWN when it does not apply.     *)
NewState(m, st) ==
  CASE m.command = "START" /\ st = "INIT" -> "CONNECTED"
    [] m.command = "START" /\ st = "STOPPED" /\ m.src = target_ -> "RUNNING"
    [] m.command = "STOP"  /\ st = "RUNNING" /\ m.src = target_ -> "STOPPED"
    [] OTHER -> "UNKNOWN"

(* Mutant: the target is recorded before the state is looked at.           *)
CommandDecideTakesTarget(d) ==
  /\ handler[d].pc = "command"
  /\ LET m == handler[d].msg
         new == NewState(m, handler[d].st) IN
       /\ handler' = [handler EXCEPT ![d].pc = "command_cas", ![d].new = new]
       /\ target_' = IF m.command = "START" THEN m.src ELSE target_
  /\ UNCHANGED <<queueVars, syncVars, discVars, mainVars, skip_cntr_, state_,
                 wire, failed>>

CommandDecide(d) ==
  /\ handler[d].pc = "command"
  /\ LET m == handler[d].msg
         new == NewState(m, handler[d].st) IN
       /\ handler' = [handler EXCEPT ![d].pc = "command_cas", ![d].new = new]
       /\ target_' = IF new = "CONNECTED" THEN m.src ELSE target_
  /\ UNCHANGED <<queueVars, syncVars, discVars, mainVars, skip_cntr_, state_,
                 wire, failed>>

(* Mutant: a command that does not apply is not answered.                  *)
CommandApplySilent(d) ==
  /\ handler[d].pc = "command_cas"
  /\ LET h == handler[d]
         apply == h.new # "UNKNOWN" IN
       IF apply
         THEN /\ SetState(h.st, h.new, "command_cas")
              /\ Transmit(CommandAck(h.msg.command, h.msg.src, apply))
         ELSE UNCHANGED <<state_, failed, wire>>
  /\ handler' = [handler EXCEPT ![d] = NoHandler]
  /\ UNCHANGED <<queueVars, syncVars, discVars, mainVars, skip_cntr_, target_>>

(* set_state, and the reply if the command asks for one.                   *)
CommandApply(d) ==
  /\ handler[d].pc = "command_cas"
  /\ LET h == handler[d]
         apply == h.new # "UNKNOWN" IN
       /\ IF apply THEN SetState(h.st, h.new, "command_cas")
                   ELSE UNCHANGED <<state_, failed>>
       /\ IF h.msg.confirmation
            THEN Transmit(CommandAck(h.msg.command, h.msg.src, apply))
            ELSE UNCHANGED wire
  /\ handler' = [handler EXCEPT ![d] = NoHandler]
  /\ UNCHANGED <<queueVars, syncVars, discVars, mainVars, skip_cntr_, target_>>

(* Mutant: any acknowledgement counts.                                     *)
AckCompareAny(d) ==
  /\ handler[d].pc = "logging_ack"
  /\ handler' = [handler EXCEPT ![d].pc = "ack_cas", ![d].new = "ACK_RECV"]
  /\ UNCHANGED <<queueVars, syncVars, discVars, mainVars, skip_cntr_, state_,
                 target_, wire, failed>>

AckCompare(d) ==
  /\ handler[d].pc = "logging_ack"
  /\ handler' = [handler EXCEPT
       ![d].pc = "ack_cas",
       ![d].new = IF handler[d].msg.sequence = seq_ % SeqMod
                    THEN "ACK_RECV" ELSE "RESEND_DEF"]
  /\ UNCHANGED <<queueVars, syncVars, discVars, mainVars, skip_cntr_, state_,
                 target_, wire, failed>>

AckApply(d) ==
  /\ handler[d].pc = "ack_cas"
  /\ SetState(handler[d].st, handler[d].new, "ack_cas")
  /\ handler' = [handler EXCEPT ![d] = NoHandler]
  /\ UNCHANGED <<queueVars, syncVars, discVars, mainVars, skip_cntr_, target_, wire>>

HandlerStep(d) ==
  \/ \E m \in wire : HandlerLoad(d, m)
  \/ CommandDecide(d) \/ CommandApply(d)
  \/ AckCompare(d) \/ AckApply(d)

(* The three threads and the handlers.                                     *)
ServerStep ==
  \/ SyncStep
  \/ DiscardStep
  \/ MainStep
  \/ \E d \in Dispatchers : HandlerStep(d)

ServerNext ==
  \/ \E kind \in Kinds : Enqueue(kind)
  \/ ServerStep

=============================================================================
