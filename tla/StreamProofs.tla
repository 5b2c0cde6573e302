---------------------------- MODULE StreamProofs ----------------------------
(***************************************************************************)
(* Proofs about the streamer and its clients, for every set of clients,    *)
(* number of messages, timeout and modulus of the sequence numbers, with   *)
(* or without losses and restarts of clients: the types for any number of  *)
(* dispatcher threads, and the properties of the control, such as that no  *)
(* other assertion of the code fails than the known ones, for one          *)
(* (OneDispatcher).                                                        *)
(***************************************************************************)
EXTENDS StreamSystem, SequenceTheorems, TLAPS

-----------------------------------------------------------------------------
(***************************************************************************)
(* The invariant of the types.                                             *)
(***************************************************************************)

(* A message in net_queue_ or definitions_.                                *)
QueueItem == [id : 1 .. MaxItems, kind : Kinds]

(* The positions in sync_loop.                                             *)
SyncPc == {"collect", "load", "send", "sent", "recv", "inc", "wait", "expired",
           "finish", "run", "done"}

(* What the positions of the loops imply: discarding_ is set when the      *)
(* definitions are complete, running_ when sync_loop has ended,            *)
(* discard_loop and main_loop wait for them.                               *)
PhaseInv ==
  /\ sync_pc \in SyncPc
  /\ disc_pc \in {"wait", "test", "dequeue", "done"}
  /\ main_pc \in {"idle", "while", "dequeue"}
  /\ discarding_ = (sync_pc # "collect")
  /\ running_ = (sync_pc = "done")
  /\ disc_pc \in {"test", "dequeue"} => sync_pc # "collect"
  /\ main_pc # "idle" => sync_pc = "done"

(* Every stored message is queued, a definition, or counted as sent or     *)
(* skipped; none is lost between the three loops that take from the queue. *)
QueueInv ==
  /\ produced \in 0 .. MaxItems
  /\ net_queue_ \in Seq(QueueItem)
  /\ definitions_ \in Seq(QueueItem)
  /\ send_cntr_ \in Nat /\ skip_cntr_ \in Nat
  /\ send_cntr_ + skip_cntr_ + Len(definitions_) + Len(net_queue_) = produced
  /\ \A i \in 1 .. Len(net_queue_) : net_queue_[i].id <= produced

(* The definitions are the first messages, in the order of to_io. The      *)
(* queue goes on where they end, as long as sync_loop is collecting. The   *)
(* first two messages never start the data, so there are at least two      *)
(* definitions.                                                            *)
OrderInv ==
  /\ \A i \in 1 .. Len(definitions_) : definitions_[i].id = i
  /\ \A i \in 1 .. Len(net_queue_) :
       net_queue_[i].id <= Preamble => ~ check_ulog_data_begin(net_queue_[i])
  /\ sync_pc = "collect" =>
       /\ send_cntr_ = 0 /\ skip_cntr_ = 0
       /\ \A i \in 1 .. Len(net_queue_) : net_queue_[i].id = Len(definitions_) + i
  /\ sync_pc # "collect" => Len(definitions_) \in Preamble .. MaxItems - 1

(* seq_ is the index of a definition until all have been sent, and the     *)
(* tick count stays below the timeout except in the step that notices it.  *)
SyncInv ==
  /\ seq_ \in 0 .. Len(definitions_)
  /\ sync_pc = "collect" => seq_ = 0
  /\ sync_pc \in {"send", "sent", "recv", "inc", "wait", "expired"} =>
       seq_ < Len(definitions_)
  /\ sync_pc \in {"finish", "run", "done"} => seq_ = Len(definitions_)
  /\ sync_timeout_ \in 0 .. TimeoutTicks
  /\ sync_pc \in {"sent", "wait"} => sync_timeout_ < TimeoutTicks
  /\ state_ = "ACK_WAIT" /\ sync_pc # "expired" => sync_timeout_ < TimeoutTicks
  /\ sync_pc \in {"wait", "expired"} => sync_st = "ACK_WAIT"
  /\ state_ \in StreamerState \ {"UNKNOWN"}
  /\ sync_st \in StreamerState /\ main_st \in StreamerState
  /\ target_ \in Clients \cup {NoTarget}

(* Messages on the wire have the fields the handlers read.                 *)
WireInv ==
  \A m \in wire :
    /\ m.type \in {"command", "command_ack", "data_acked", "logging_ack", "data"}
    /\ m.type = "command" =>
         m.src \in Clients /\ m.command \in {"START", "STOP"}
    /\ m.type = "command_ack" => m.dst \in Clients
    /\ m.type = "logging_ack" => m.src \in Clients

(* What a handler keeps while it is at work.                               *)
Busy == [pc : {"command", "command_cas", "logging_ack", "ack_cas"},
         msg : wire, st : StreamerState, new : StreamerState]

(* A handler works on a message of its kind, and has decided on one of the *)
(* states it can choose.                                                   *)
HandlerInv ==
  /\ handler \in [Dispatchers -> {NoHandler} \cup Busy]
  /\ \A d \in Dispatchers :
       /\ handler[d].pc \in {"command", "command_cas"} =>
            handler[d].msg.type = "command"
       /\ handler[d].pc = "command_cas" =>
            handler[d].new \in {"CONNECTED", "RUNNING", "STOPPED", "UNKNOWN"}
       /\ handler[d].pc \in {"logging_ack", "ack_cas"} =>
            handler[d].msg.type = "logging_ack" /\ handler[d].st = "ACK_WAIT"
       /\ handler[d].pc = "ack_cas" => handler[d].new \in {"ACK_RECV", "RESEND_DEF"}

(* The inductive invariant of the types.                                   *)
TypeInv == PhaseInv /\ QueueInv /\ OrderInv /\ SyncInv /\ WireInv /\ HandlerInv

-----------------------------------------------------------------------------
(***************************************************************************)
(* The invariant of the control.                                           *)
(***************************************************************************)

(* There is at most one dispatcher thread, so that no two handlers of the  *)
(* streamer run at once. The router decides this; without it two STARTs    *)
(* can both become the target.                                             *)
OneDispatcher == \A d, e \in Dispatchers : d = e

(* What the position of sync_loop implies for state_, which the handlers   *)
(* change at the same time. Before the definitions are complete no client  *)
(* can be sent anything, and RUNNING and STOPPED come only after the last  *)
(* definition.                                                             *)
StateInv ==
  /\ seq_ > 0 => state_ \notin {"INIT", "CONNECTED"}
  /\ sync_pc = "collect" => state_ \in {"INIT", "CONNECTED"}
  /\ sync_pc = "load" => state_ \notin {"RUNNING", "STOPPED"}
  /\ sync_pc = "load" /\ seq_ = Len(definitions_) => state_ = "SEND_DEF"
  /\ sync_pc \in {"send", "sent"} =>
       state_ = sync_st /\ state_ \in {"CONNECTED", "SEND_DEF", "RESEND_DEF"}
  /\ sync_pc = "recv" => state_ = "ACK_RECV" /\ sync_st = "ACK_RECV"
  /\ sync_pc = "inc" => state_ = "SEND_DEF"
  /\ sync_pc \in {"wait", "expired"} =>
       state_ \in {"ACK_WAIT", "ACK_RECV", "RESEND_DEF"}
  /\ sync_pc = "finish" => state_ = "SEND_DEF" /\ sync_st = "SEND_DEF"
  /\ sync_pc \in {"run", "done"} => state_ \in {"RUNNING", "STOPPED"}

(* What a handler has loaded is still true when it comes to its compare-   *)
(* exchange, except in the states that sync_loop leaves: nobody else       *)
(* leaves INIT, RUNNING and STOPPED. ACK_WAIT the timeout may leave.       *)
CasInv ==
  \A d \in Dispatchers :
    /\ handler[d].pc \in {"command", "command_cas"}
         /\ handler[d].st \in {"INIT", "RUNNING", "STOPPED"} => state_ = handler[d].st
    /\ handler[d].pc = "command_cas" /\ handler[d].new # "UNKNOWN" =>
         /\ handler[d].msg.src = target_
         /\ handler[d].new = "CONNECTED" => handler[d].st = "INIT"
         /\ handler[d].new = "RUNNING" => handler[d].st = "STOPPED"
         /\ handler[d].new = "STOPPED" => handler[d].st = "RUNNING"
         /\ handler[d].msg.command = "STOP" => handler[d].new = "STOPPED"
    /\ handler[d].pc \in {"logging_ack", "ack_cas"} =>
         state_ \in {"ACK_WAIT", "RESEND_DEF"}

(* There is a target from the moment a START is about to leave INIT.       *)
TargetInv ==
  /\ state_ # "INIT" => target_ # NoTarget
  /\ target_ # NoTarget /\ state_ = "INIT" =>
       \E d \in Dispatchers :
         handler[d].pc = "command_cas" /\ handler[d].new = "CONNECTED"

(* A reply ACCEPTED went to the target, for a STOP only when streaming.    *)
AcceptedInv ==
  \A m \in wire : m.type = "command_ack" /\ m.accepted =>
    m.dst = target_ /\ (m.command = "STOP" => sync_pc \in {"run", "done"})

(* The inductive invariant of the control.                                 *)
ControlInv == TypeInv /\ StateInv /\ CasInv /\ TargetInv /\ AcceptedInv
              /\ OnlyKnownAssertsFail

-----------------------------------------------------------------------------
(***************************************************************************)
(* Types.                                                                  *)
(***************************************************************************)

(* Taking the first message off a queue.                                   *)
LEMMA DequeueItem ==
  ASSUME NEW S, NEW q \in Seq(S), q # <<>>
  PROVE  /\ Len(q) \in Nat \ {0}
         /\ Head(q) = q[1] /\ Head(q) \in S
         /\ Tail(q) \in Seq(S)
         /\ Len(Tail(q)) = Len(q) - 1
         /\ \A i \in 1 .. Len(Tail(q)) : i + 1 \in 1 .. Len(q) /\ Tail(q)[i] = q[i + 1]
  BY HeadTailProperties, EmptySeq

(* The types of what is in the queues.                                     *)
LEMMA QueueTypes ==
  ASSUME QueueInv
  PROVE  /\ Len(net_queue_) \in Nat /\ Len(definitions_) \in Nat
         /\ produced \in Nat /\ MaxItems \in Nat
         /\ \A i \in 1 .. Len(net_queue_) : net_queue_[i].id \in 1 .. produced
         /\ \A i \in 1 .. Len(definitions_) : definitions_[i] \in QueueItem
<1>1. Len(net_queue_) \in Nat /\ Len(definitions_) \in Nat
  BY LenProperties DEF QueueInv
<1>2. produced \in Nat /\ MaxItems \in Nat
  BY StreamerAssumption DEF QueueInv
<1>3. \A i \in 1 .. Len(net_queue_) : net_queue_[i] \in QueueItem
  BY ElementOfSeq DEF QueueInv
<1>4. \A i \in 1 .. Len(net_queue_) : net_queue_[i].id \in 1 .. produced
  BY <1>2, <1>3 DEF QueueInv, QueueItem
<1>5. \A i \in 1 .. Len(definitions_) : definitions_[i] \in QueueItem
  BY ElementOfSeq DEF QueueInv
<1> QED
  BY <1>1, <1>2, <1>4, <1>5

(* to_io puts a message into net_queue_.                                   *)
LEMMA QueueEnqueue ==
  ASSUME QueueInv, OrderInv, NEW kind \in Kinds, Enqueue(kind)
  PROVE  (QueueInv /\ OrderInv)'
<1> DEFINE item == [id |-> produced + 1, kind |-> kind]
<1>1. /\ UNCHANGED <<definitions_, send_cntr_, skip_cntr_, sync_pc>>
      /\ produced' = produced + 1 /\ produced < MaxItems
      /\ net_queue_' = Append(net_queue_, item)
      /\ produced < Preamble => kind = "def"
  BY DEF Enqueue, mainVars, syncVars
<1>2. item \in QueueItem
  BY <1>1, QueueTypes DEF QueueItem
<1>3. item.id = produced + 1
  OBVIOUS
<1>4. item.id <= Preamble => ~ check_ulog_data_begin(item)
  BY <1>1, QueueTypes DEF Preamble, check_ulog_data_begin
<1> HIDE DEF item
<1>5. /\ net_queue_' \in Seq(QueueItem)
      /\ Len(net_queue_') = Len(net_queue_) + 1
      /\ \A i \in 1 .. Len(net_queue_) : net_queue_'[i] = net_queue_[i]
      /\ net_queue_'[Len(net_queue_) + 1] = item
  BY <1>1, <1>2, AppendProperties DEF QueueInv
<1>6. \A i \in 1 .. Len(net_queue_') :
        \/ i \in 1 .. Len(net_queue_) /\ net_queue_'[i] = net_queue_[i]
        \/ i = Len(net_queue_) + 1 /\ net_queue_'[i] = item
  BY <1>5, QueueTypes
<1>7. QueueInv'
  <2>1. produced' \in 0 .. MaxItems
    BY <1>1, QueueTypes
  <2>2. \A i \in 1 .. Len(net_queue_') : net_queue_'[i].id <= produced'
    BY <1>1, <1>3, <1>6, QueueTypes
  <2>3. send_cntr_ + skip_cntr_ + Len(definitions_) + Len(net_queue_) + 1 = produced + 1
    BY DEF QueueInv
  <2>4. (send_cntr_ + skip_cntr_ + Len(definitions_) + Len(net_queue_))' = produced'
    BY <1>1, <1>5, <2>3, QueueTypes DEF QueueInv
  <2> QED
    BY <1>1, <1>5, <2>1, <2>2, <2>4 DEF QueueInv
<1>8. OrderInv'
  <2>1. \A i \in 1 .. Len(net_queue_') :
          net_queue_'[i].id <= Preamble => ~ check_ulog_data_begin(net_queue_'[i])
    BY <1>4, <1>6 DEF OrderInv
  <2>2. ASSUME sync_pc = "collect"
        PROVE  \A i \in 1 .. Len(net_queue_') : net_queue_'[i].id = Len(definitions_) + i
    <3>1. produced = Len(definitions_) + Len(net_queue_)
      BY <2>2, QueueTypes DEF QueueInv, OrderInv
    <3>2. \A i \in 1 .. Len(net_queue_) : net_queue_[i].id = Len(definitions_) + i
      BY <2>2 DEF OrderInv
    <3>3. item.id = Len(definitions_) + (Len(net_queue_) + 1)
      BY <1>3, <3>1, QueueTypes
    <3> QED
      BY <1>6, <3>2, <3>3
  <2> QED
    BY <1>1, <2>1, <2>2 DEF OrderInv
<1> QED
  BY <1>7, <1>8

(* sync_loop collects a definition, or finds the first data message.       *)
LEMMA QueueCollect ==
  ASSUME QueueInv, OrderInv, PhaseInv, Collect
  PROVE  (QueueInv /\ OrderInv)'
<1>1. /\ sync_pc = "collect" /\ net_queue_ # <<>>
      /\ UNCHANGED <<produced, send_cntr_, skip_cntr_>>
  BY DEF Collect, mainVars
<1>2. /\ Len(net_queue_) \in Nat \ {0}
      /\ Head(net_queue_) = net_queue_[1] /\ Head(net_queue_) \in QueueItem
      /\ Tail(net_queue_) \in Seq(QueueItem)
      /\ Len(Tail(net_queue_)) = Len(net_queue_) - 1
      /\ \A i \in 1 .. Len(Tail(net_queue_)) :
           i + 1 \in 1 .. Len(net_queue_) /\ Tail(net_queue_)[i] = net_queue_[i + 1]
  BY <1>1, DequeueItem DEF QueueInv
<1>3. /\ Len(definitions_) + Len(net_queue_) = produced
      /\ \A i \in 1 .. Len(net_queue_) : net_queue_[i].id = Len(definitions_) + i
  BY <1>1, QueueTypes DEF QueueInv, OrderInv
<1>4. CASE check_ulog_data_begin(Head(net_queue_))
  <2>1. sync_pc' = "load" /\ UNCHANGED <<net_queue_, definitions_>>
    BY <1>4 DEF Collect
  <2>2. ~ (net_queue_[1].id <= Preamble)
    BY <1>2, <1>4 DEF OrderInv
  <2>3. net_queue_[1].id = Len(definitions_) + 1
    BY <1>2, <1>3
  <2>4. Len(definitions_) \in Preamble .. MaxItems - 1
    BY <1>2, <1>3, <2>2, <2>3, QueueTypes DEF Preamble, QueueInv
  <2>5. QueueInv'
    BY <1>1, <2>1 DEF QueueInv
  <2>6. OrderInv'
    BY <1>1, <2>1, <2>4 DEF OrderInv
  <2> QED
    BY <2>5, <2>6
<1>5. CASE ~ check_ulog_data_begin(Head(net_queue_))
  <2>1. /\ net_queue_' = Tail(net_queue_)
        /\ definitions_' = Append(definitions_, net_queue_[1])
        /\ sync_pc' = sync_pc
    BY <1>2, <1>5 DEF Collect
  <2>2. /\ definitions_' \in Seq(QueueItem)
        /\ Len(definitions_') = Len(definitions_) + 1
        /\ \A i \in 1 .. Len(definitions_) : definitions_'[i] = definitions_[i]
        /\ definitions_'[Len(definitions_) + 1] = net_queue_[1]
    BY <1>2, <2>1, AppendProperties DEF QueueInv
  <2>3. \A i \in 1 .. Len(net_queue_') :
          i + 1 \in 1 .. Len(net_queue_) /\ net_queue_'[i] = net_queue_[i + 1]
    BY <1>2, <2>1
  <2>4. QueueInv'
    <3>1. \A i \in 1 .. Len(net_queue_') : net_queue_'[i].id <= produced'
      BY <1>1, <2>3 DEF QueueInv
    <3>2. (send_cntr_ + skip_cntr_ + Len(definitions_) + Len(net_queue_))' = produced'
      BY <1>1, <1>2, <2>1, <2>2, QueueTypes DEF QueueInv
    <3> QED
      BY <1>1, <1>2, <2>1, <2>2, <3>1, <3>2 DEF QueueInv
  <2>5. OrderInv'
    <3>1. \A i \in 1 .. Len(definitions_') : definitions_'[i].id = i
      <4>1. \A i \in 1 .. Len(definitions_') :
              i \in 1 .. Len(definitions_) \/ i = Len(definitions_) + 1
        BY <2>2, QueueTypes
      <4>2. net_queue_[1].id = Len(definitions_) + 1
        BY <1>2, <1>3
      <4> QED
        BY <2>2, <4>1, <4>2 DEF OrderInv
    <3>2. \A i \in 1 .. Len(net_queue_') :
            net_queue_'[i].id <= Preamble => ~ check_ulog_data_begin(net_queue_'[i])
      BY <2>3 DEF OrderInv
    <3>3. \A i \in 1 .. Len(net_queue_') : net_queue_'[i].id = Len(definitions_') + i
      BY <1>2, <1>3, <2>1, <2>2, <2>3, QueueTypes
    <3> QED
      BY <1>1, <2>1, <3>1, <3>2, <3>3 DEF OrderInv
  <2> QED
    BY <2>4, <2>5
<1> QED
  BY <1>4, <1>5

(* discard_loop or main_loop takes a message off the queue.                *)
LEMMA QueueTake ==
  ASSUME QueueInv, OrderInv, PhaseInv, Discard \/ MainDequeue
  PROVE  (QueueInv /\ OrderInv)'
<1>1. /\ sync_pc # "collect" /\ net_queue_ # <<>>
      /\ net_queue_' = Tail(net_queue_)
      /\ UNCHANGED <<produced, definitions_, sync_pc>>
  BY DEF Discard, MainDequeue, PhaseInv, syncVars
<1>2. \/ send_cntr_' = send_cntr_ + 1 /\ skip_cntr_' = skip_cntr_
      \/ send_cntr_' = send_cntr_ /\ skip_cntr_' = skip_cntr_ + 1
  BY DEF Discard, MainDequeue, mainVars
<1>3. /\ Len(net_queue_) \in Nat \ {0}
      /\ net_queue_' \in Seq(QueueItem)
      /\ Len(net_queue_') = Len(net_queue_) - 1
      /\ \A i \in 1 .. Len(net_queue_') :
           i + 1 \in 1 .. Len(net_queue_) /\ net_queue_'[i] = net_queue_[i + 1]
  BY <1>1, DequeueItem DEF QueueInv
<1>4. QueueInv'
  <2>1. \A i \in 1 .. Len(net_queue_') : net_queue_'[i].id <= produced'
    BY <1>1, <1>3 DEF QueueInv
  <2>2. (send_cntr_ + skip_cntr_ + Len(definitions_) + Len(net_queue_))' = produced'
    <3>1. /\ Len(net_queue_') = Len(net_queue_) - 1
          /\ Len(definitions_') = Len(definitions_)
          /\ produced' = produced
      BY <1>1, <1>3
    <3>2. /\ send_cntr_ \in Nat /\ skip_cntr_ \in Nat
          /\ send_cntr_ + skip_cntr_ + Len(definitions_) + Len(net_queue_) = produced
      BY DEF QueueInv
    <3>3. CASE send_cntr_' = send_cntr_ + 1 /\ skip_cntr_' = skip_cntr_
      BY <3>1, <3>2, <3>3, QueueTypes
    <3>4. CASE send_cntr_' = send_cntr_ /\ skip_cntr_' = skip_cntr_ + 1
      BY <3>1, <3>2, <3>4, QueueTypes
    <3> QED
      BY <1>2, <3>3, <3>4
  <2> QED
    BY <1>1, <1>2, <1>3, <2>1, <2>2 DEF QueueInv
<1>5. OrderInv'
  <2>1. \A i \in 1 .. Len(net_queue_') :
          net_queue_'[i].id <= Preamble => ~ check_ulog_data_begin(net_queue_'[i])
    BY <1>3 DEF OrderInv
  <2> QED
    BY <1>1, <2>1 DEF OrderInv
<1> QED
  BY <1>4, <1>5

(* No other step touches the queues or starts sending.                     *)
LEMMA Frame ==
  ASSUME Next
  PROVE  \/ \E kind \in Kinds : Enqueue(kind)
         \/ Collect
         \/ Discard \/ MainDequeue
         \/ /\ UNCHANGED <<produced, net_queue_, definitions_, send_cntr_, skip_cntr_>>
            /\ sync_pc' = "collect" <=> sync_pc = "collect"
<1> USE DEF queueVars, syncVars, discVars, mainVars, serverVars, clientVars
<1>1. CASE SyncStep
  BY <1>1 DEF SyncStep, SyncLoad, SyncSend, SyncSent, SyncRecv, SyncInc, SyncWait,
              SyncExpired, SyncFinishLoad, SyncFinish, SyncRun, Dispatch
<1>2. CASE DiscardStep \/ MainStep
  BY <1>2 DEF DiscardStep, DiscardTest, MainStep, MainEnter, MainWhile
<1>3. CASE \E d \in Dispatchers : HandlerStep(d)
  BY <1>3 DEF HandlerStep, HandlerLoad, CommandDecide, CommandApply, AckCompare,
              AckApply
<1>4. CASE \E c \in Clients : ClientStep(c)
  BY <1>4 DEF ClientStep, ClientControl, CommandStart, CommandStop, ResetStopAck,
              ReceiveCommandAck, ReceiveDefinition, ClientRestart, Send
<1> QED
  BY <1>1, <1>2, <1>3, <1>4 DEF Next, ServerNext, ServerStep

(* Every step keeps what is said of the queues.                            *)
LEMMA QueueStep ==
  ASSUME QueueInv, OrderInv, PhaseInv, Next
  PROVE  (QueueInv /\ OrderInv)'
<1>1. CASE /\ UNCHANGED <<produced, net_queue_, definitions_, send_cntr_, skip_cntr_>>
           /\ sync_pc' = "collect" <=> sync_pc = "collect"
  BY <1>1 DEF QueueInv, OrderInv
<1> QED
  BY <1>1, Frame, QueueEnqueue, QueueCollect, QueueTake

(* Every step of sync_loop keeps SyncInv.                                  *)
LEMMA SyncStepInv ==
  ASSUME QueueInv, OrderInv, PhaseInv, SyncInv, SyncStep
  PROVE  SyncInv'
<1> USE QueueTypes, StreamerAssumption DEF SyncInv, StreamerState, syncVars,
mainVars
<1>1. CASE Collect
  <2>1. CASE UNCHANGED definitions_
    BY <1>1, <2>1 DEF Collect, OrderInv, Preamble
  <2>2. CASE definitions_' = Append(definitions_, Head(net_queue_))
    <3>1. Len(definitions_') = Len(definitions_) + 1
      BY <1>1, <2>2, DequeueItem, AppendProperties DEF QueueInv, Collect
    <3>2. /\ sync_pc = "collect" /\ sync_pc' \in {"collect", "load"}
          /\ UNCHANGED <<seq_, sync_timeout_, sync_st, main_st, state_, target_>>
      BY <1>1 DEF Collect
    <3> QED
      BY <3>1, <3>2
  <2> QED
    BY <1>1, <2>1, <2>2 DEF Collect
<1>2. CASE SyncLoad
  BY <1>2 DEF SyncLoad, Dispatch
<1>3. CASE SyncSend
  BY <1>3 DEF SyncSend
<1>4. CASE SyncSent
  BY <1>4 DEF SyncSent, SetState
<1>5. CASE SyncRecv
  BY <1>5 DEF SyncRecv, SetState
<1>6. CASE SyncInc
  BY <1>6 DEF SyncInc
<1>7. CASE SyncWait
  BY <1>7 DEF SyncWait
<1>8. CASE SyncExpired
  BY <1>8 DEF SyncExpired, SetState
<1>9. CASE SyncFinishLoad
  BY <1>9 DEF SyncFinishLoad
<1>10. CASE SyncFinish \/ SyncRun
  BY <1>10 DEF SyncFinish, SyncRun
<1> QED
  BY <1>1, <1>2, <1>3, <1>4, <1>5, <1>6, <1>7, <1>8, <1>9, <1>10 DEF SyncStep

(* Every step keeps WireInv, and what was sent stays on the wire.          *)
LEMMA WireStep ==
  ASSUME SyncInv, WireInv, HandlerInv, Next
  PROVE  WireInv' /\ wire \subseteq wire'
<1> USE StreamerAssumption DEF queueVars, syncVars, discVars, mainVars,
serverVars, clientVars, Transmit
<1>1. CASE \E kind \in Kinds : Enqueue(kind)
  BY <1>1 DEF Enqueue, WireInv
<1>2. CASE SyncStep
  BY <1>2 DEF SyncStep, Collect, SyncLoad, SyncSend, SyncSent, SyncRecv, SyncInc,
              SyncWait,
              SyncExpired, SyncFinishLoad, SyncFinish, SyncRun, WireInv,
              LoggingDataAcked
<1>3. CASE DiscardStep \/ MainStep
  BY <1>3 DEF DiscardStep, DiscardTest, Discard, MainStep, MainEnter, MainWhile,
              MainDequeue, WireInv, LoggingData
<1>4. ASSUME NEW d \in Dispatchers, HandlerStep(d)
      PROVE  WireInv' /\ wire \subseteq wire'
  <2>1. CASE UNCHANGED wire
    BY <2>1 DEF WireInv
  <2>2. CASE CommandApply(d)
    <3>1. handler[d].msg \in wire /\ handler[d].msg.type = "command"
      BY <2>2 DEF CommandApply, HandlerInv, Busy, NoHandler
    <3>2. handler[d].msg.src \in Clients
      BY <3>1 DEF WireInv
    <3>3. \/ wire' = wire
          \/ \E a \in BOOLEAN :
               wire' = wire \cup {CommandAck(handler[d].msg.command, handler[d].msg.src, a)}
      BY <2>2 DEF CommandApply
    <3> QED
      BY <3>2, <3>3 DEF WireInv, CommandAck
  <2> QED
    BY <1>4, <2>1, <2>2 DEF HandlerStep, HandlerLoad, CommandDecide, AckCompare,
                            AckApply
<1>5. CASE \E c \in Clients : ClientStep(c)
  BY <1>5 DEF ClientStep, ClientControl, CommandStart, CommandStop, ResetStopAck,
              ReceiveCommandAck, ReceiveDefinition, ClientRestart, Send, Command,
              LoggingAck, WireInv
<1> QED
  BY <1>1, <1>2, <1>3, <1>4, <1>5 DEF Next, ServerNext, ServerStep

(* What proto_command_handler decides: to leave INIT for any client, and   *)
(* STOPPED and RUNNING for the target.                                     *)
LEMMA NewStates ==
  ASSUME NEW m, NEW st
  PROVE  /\ NewState(m, st) \in {"CONNECTED", "RUNNING", "STOPPED", "UNKNOWN"}
         /\ NewState(m, st) = "CONNECTED" => m.command = "START" /\ st = "INIT"
         /\ NewState(m, st) = "RUNNING" =>
              m.command = "START" /\ st = "STOPPED" /\ m.src = target_
         /\ NewState(m, st) = "STOPPED" =>
              m.command = "STOP" /\ st = "RUNNING" /\ m.src = target_
  BY DEF NewState

(* A handler that has decided keeps its message and the state it loaded.   *)
LEMMA HandlerDecides ==
  ASSUME HandlerInv, NEW d \in Dispatchers, NEW p, NEW n
  PROVE  handler[d].pc # "idle" /\ handler' = [handler EXCEPT ![d].pc = p, ![d].new = n] =>
         /\ handler[d] \in Busy
         /\ handler'[d] \in [pc : {p}, msg : wire, st : StreamerState, new : {n}]
         /\ handler'[d].msg = handler[d].msg /\ handler'[d].st = handler[d].st
<1>1. ASSUME handler[d].pc # "idle",
             handler' = [handler EXCEPT ![d].pc = p, ![d].new = n]
      PROVE  /\ handler[d] \in Busy
             /\ handler'[d] \in [pc : {p}, msg : wire, st : StreamerState, new : {n}]
             /\ handler'[d].msg = handler[d].msg /\ handler'[d].st = handler[d].st
  <2>1. handler[d] \in Busy
    BY <1>1 DEF HandlerInv, NoHandler
  <2>2. handler'[d] = [handler[d] EXCEPT !.pc = p, !.new = n]
    BY <1>1 DEF HandlerInv
  <2>3. /\ handler'[d] \in [pc : {p}, msg : wire, st : StreamerState, new : {n}]
        /\ handler'[d].msg = handler[d].msg /\ handler'[d].st = handler[d].st
    BY <2>1, <2>2 DEF Busy
  <2> QED
    BY <2>1, <2>3
<1> QED
  BY <1>1

(* Every step of a handler keeps HandlerInv.                               *)
LEMMA HandlerStepInv ==
  ASSUME SyncInv, WireInv, HandlerInv, NEW d \in Dispatchers, HandlerStep(d)
  PROVE  HandlerInv'
<1> DEFINE h == handler[d]
<1>0. wire \subseteq wire'
  BY DEF HandlerStep, HandlerLoad, CommandDecide, CommandApply, AckCompare,
         AckApply, Transmit
<1>1. \A e \in Dispatchers : e # d => handler'[e] = handler[e]
  BY DEF HandlerStep, HandlerLoad, CommandDecide, CommandApply, AckCompare,
         AckApply, HandlerInv
<1>2. handler' = [handler EXCEPT ![d] = handler'[d]]
  BY DEF HandlerStep, HandlerLoad, CommandDecide, CommandApply, AckCompare,
         AckApply, HandlerInv
<1>3. SUFFICES /\ handler'[d] \in {NoHandler} \cup Busy'
               /\ handler'[d].pc \in {"command", "command_cas"} =>
                    handler'[d].msg.type = "command"
               /\ handler'[d].pc = "command_cas" =>
                    handler'[d].new \in {"CONNECTED", "RUNNING", "STOPPED", "UNKNOWN"}
               /\ handler'[d].pc \in {"logging_ack", "ack_cas"} =>
                    handler'[d].msg.type = "logging_ack" /\ handler'[d].st = "ACK_WAIT"
               /\ handler'[d].pc = "ack_cas" =>
                    handler'[d].new \in {"ACK_RECV", "RESEND_DEF"}
  BY <1>0, <1>1, <1>2 DEF HandlerInv, Busy
<1>4. CASE \E m \in wire : HandlerLoad(d, m)
  BY <1>0, <1>4 DEF HandlerLoad, HandlerInv, Busy, SyncInv, StreamerState
<1>5. CASE CommandDecide(d)
  <2> DEFINE n == NewState(handler[d].msg, handler[d].st)
  <2>1. n \in {"CONNECTED", "RUNNING", "STOPPED", "UNKNOWN"}
    BY NewStates
  <2>2. /\ handler[d] \in Busy
        /\ handler'[d] \in
             [pc : {"command_cas"}, msg : wire, st : StreamerState, new : {n}]
        /\ handler'[d].msg = handler[d].msg /\ handler'[d].st = handler[d].st
    BY <1>5, HandlerDecides DEF CommandDecide
  <2> HIDE DEF n
  <2> QED
    BY <1>0, <1>5, <2>1, <2>2 DEF CommandDecide, HandlerInv, Busy, StreamerState
<1>6. CASE AckCompare(d)
  <2> DEFINE n == IF handler[d].msg.sequence = seq_ % SeqMod
                    THEN "ACK_RECV" ELSE "RESEND_DEF"
  <2>1. n \in {"ACK_RECV", "RESEND_DEF"}
    OBVIOUS
  <2>2. /\ handler[d] \in Busy
        /\ handler'[d] \in [pc : {"ack_cas"}, msg : wire, st : StreamerState, new : {n}]
        /\ handler'[d].msg = handler[d].msg /\ handler'[d].st = handler[d].st
    BY <1>6, HandlerDecides DEF AckCompare
  <2> HIDE DEF n
  <2> QED
    BY <1>0, <1>6, <2>1, <2>2 DEF AckCompare, HandlerInv, Busy, StreamerState
<1>7. CASE CommandApply(d) \/ AckApply(d)
  BY <1>7 DEF CommandApply, AckApply, HandlerInv, NoHandler
<1> QED
  BY <1>4, <1>5, <1>6, <1>7 DEF HandlerStep

(* Every step keeps SyncInv: no other thread touches seq_ and the tick     *)
(* count.                                                                  *)
LEMMA SyncNext ==
  ASSUME QueueInv, OrderInv, PhaseInv, SyncInv, WireInv, HandlerInv, Next
  PROVE  SyncInv'
<1>1. CASE \E kind \in Kinds : Enqueue(kind)
  BY <1>1 DEF Enqueue, SyncInv, syncVars, mainVars
<1>2. CASE SyncStep
  BY <1>2, SyncStepInv
<1>3. CASE DiscardStep \/ MainStep
  BY <1>3 DEF DiscardStep, DiscardTest, Discard, MainStep, MainEnter, MainWhile,
              MainDequeue, SyncInv, syncVars, mainVars
<1>4. ASSUME NEW d \in Dispatchers, HandlerStep(d)
      PROVE  SyncInv'
  <2>1. UNCHANGED <<syncVars, mainVars>>
    BY <1>4 DEF HandlerStep, HandlerLoad, CommandDecide, CommandApply, AckCompare,
                AckApply
  <2>2. state_' # state_ =>
          state_' \in {"CONNECTED", "RUNNING", "STOPPED", "ACK_RECV", "RESEND_DEF"}
    BY <1>4 DEF HandlerStep, HandlerLoad, CommandDecide, CommandApply, AckCompare,
                AckApply,
                SetState, HandlerInv
  <2>3. target_' \in Clients \cup {NoTarget}
    <3>1. CASE CommandDecide(d)
      <4>1. handler[d].msg \in wire /\ handler[d].msg.type = "command"
        BY <3>1 DEF CommandDecide, HandlerInv, Busy, NoHandler
      <4>2. target_' \in {target_, handler[d].msg.src}
        BY <3>1 DEF CommandDecide
      <4> QED
        BY <4>1, <4>2 DEF WireInv, SyncInv
    <3> QED
      BY <1>4, <3>1 DEF HandlerStep, HandlerLoad, CommandApply, AckCompare,
                        AckApply, SyncInv
  <2> QED
    BY <2>1, <2>2, <2>3 DEF SyncInv, StreamerState, syncVars, mainVars
<1>5. CASE \E c \in Clients : ClientStep(c)
  BY <1>5 DEF ClientStep, ClientControl, CommandStart, CommandStop, ResetStopAck,
              ReceiveCommandAck, ReceiveDefinition, ClientRestart, Send, SyncInv,
              syncVars, mainVars, serverVars
<1> QED
  BY <1>1, <1>2, <1>3, <1>4, <1>5 DEF Next, ServerNext, ServerStep

(* Every step keeps HandlerInv.                                            *)
LEMMA HandlerNext ==
  ASSUME SyncInv, WireInv, HandlerInv, Next
  PROVE  HandlerInv'
<1>1. CASE \E d \in Dispatchers : HandlerStep(d)
  BY <1>1, HandlerStepInv
<1>2. CASE UNCHANGED handler
  <2>1. wire \subseteq wire'
    BY WireStep
  <2> QED
    BY <1>2, <2>1 DEF HandlerInv, Busy
<1>3. CASE \E kind \in Kinds : Enqueue(kind)
  BY <1>2, <1>3 DEF Enqueue
<1>4. CASE SyncStep
  BY <1>2, <1>4 DEF SyncStep, Collect, SyncLoad, SyncSend, SyncSent, SyncRecv,
                    SyncInc,
                    SyncWait, SyncExpired, SyncFinishLoad, SyncFinish, SyncRun
<1>5. CASE DiscardStep \/ MainStep
  BY <1>2, <1>5 DEF DiscardStep, DiscardTest, Discard, MainStep, MainEnter,
                    MainWhile, MainDequeue
<1>6. CASE \E c \in Clients : ClientStep(c)
  BY <1>2, <1>6 DEF ClientStep, ClientControl, CommandStart, CommandStop,
                    ResetStopAck,
              ReceiveCommandAck, ReceiveDefinition, ClientRestart, Send, serverVars
<1> QED
  BY <1>1, <1>3, <1>4, <1>5, <1>6 DEF Next, ServerNext, ServerStep

(* Every step keeps PhaseInv.                                              *)
LEMMA PhaseNext ==
  ASSUME PhaseInv, Next
  PROVE  PhaseInv'
<1> USE DEF PhaseInv, SyncPc, queueVars, syncVars, discVars, mainVars, serverVars
<1>1. CASE \E kind \in Kinds : Enqueue(kind)
  BY <1>1 DEF Enqueue
<1>2. CASE SyncStep
  BY <1>2 DEF SyncStep, Collect, SyncLoad, SyncSend, SyncSent, SyncRecv, SyncInc,
              SyncWait, SyncExpired, SyncFinishLoad, SyncFinish, SyncRun, Dispatch
<1>3. CASE DiscardStep
  BY <1>3 DEF DiscardStep, DiscardTest, Discard
<1>4. CASE MainStep
  BY <1>4 DEF MainStep, MainEnter, MainWhile, MainDequeue
<1>5. CASE \E d \in Dispatchers : HandlerStep(d)
  BY <1>5 DEF HandlerStep, HandlerLoad, CommandDecide, CommandApply, AckCompare,
              AckApply
<1>6. CASE \E c \in Clients : ClientStep(c)
  BY <1>6 DEF ClientStep, ClientControl, CommandStart, CommandStop, Send,
              ResetStopAck, ReceiveCommandAck, ReceiveDefinition, ClientRestart
<1> QED
  BY <1>1, <1>2, <1>3, <1>4, <1>5, <1>6 DEF Next, ServerNext, ServerStep

(* The initial states satisfy the invariant.                               *)
LEMMA TypeInit == Init => TypeInv
<1> SUFFICES ASSUME Init PROVE TypeInv
  OBVIOUS
<1> USE StreamerAssumption DEF Init, ServerInit
<1>1. PhaseInv
  BY DEF PhaseInv, SyncPc
<1>2. <<>> \in Seq(QueueItem) /\ Len(<<>>) = 0
  BY EmptySeq
<1>3. QueueInv
  BY <1>2 DEF QueueInv
<1>4. OrderInv
  BY <1>2 DEF OrderInv
<1>5. SyncInv
  BY <1>2 DEF SyncInv, StreamerState
<1>6. WireInv /\ HandlerInv
  BY DEF WireInv, HandlerInv, NoHandler
<1> QED
  BY <1>1, <1>3, <1>4, <1>5, <1>6 DEF TypeInv

(* Every step keeps the invariant.                                         *)
LEMMA TypeNext == TypeInv /\ [Next]_vars => TypeInv'
<1> SUFFICES ASSUME TypeInv, [Next]_vars PROVE TypeInv'
  OBVIOUS
<1> USE DEF TypeInv
<1>1. CASE Next
  BY <1>1, PhaseNext, QueueStep, SyncNext, WireStep, HandlerNext
<1>2. CASE UNCHANGED vars
  BY <1>2 DEF vars, serverVars, queueVars, syncVars, discVars, mainVars,
              PhaseInv, QueueInv, OrderInv, SyncInv, WireInv, HandlerInv, Busy
<1> QED
  BY <1>1, <1>2

(* The invariant holds in every reachable state.                           *)
LEMMA TypeInvariant == Spec => []TypeInv
  BY TypeInit, TypeNext, PTL DEF Spec

(* Whatever clients and network do and however many dispatcher threads     *)
(* there are: seq_ is an index of the definitions, the tick count never    *)
(* steps over the timeout sync_loop compares it with, and every message    *)
(* to_io stored is queued, a definition, or counted.                       *)
THEOREM StreamTypeCorrect == Spec => []TypeOK
<1>1. TypeInv => TypeOK
  <2> SUFFICES ASSUME TypeInv PROVE TypeOK
    OBVIOUS
  <2>1. \A i \in DOMAIN net_queue_ : net_queue_[i].id \in 1 .. produced
    BY QueueTypes, LenProperties DEF TypeInv, QueueInv
  <2>2. {discarding_, running_} \subseteq BOOLEAN
    BY DEF TypeInv, PhaseInv
  <2> QED
    BY <2>1, <2>2 DEF TypeInv, TypeOK, QueueInv, SyncInv
<1> QED
  BY <1>1, TypeInvariant, PTL

(* The changes of state_ a handler can make. *)
-----------------------------------------------------------------------------
(***************************************************************************)
(* Control.                                                                *)
(***************************************************************************)

(* How the handlers change state_.                                         *)
LEMMA HandlerState ==
  ASSUME TypeInv, CasInv, NEW d \in Dispatchers, HandlerStep(d)
  PROVE  \/ state_' = state_
         \/ state_ = "INIT" /\ state_' = "CONNECTED"
         \/ state_ = "STOPPED" /\ state_' = "RUNNING"
         \/ state_ = "RUNNING" /\ state_' = "STOPPED"
         \/ state_ = "ACK_WAIT" /\ state_' \in {"ACK_RECV", "RESEND_DEF"}
<1>1. CASE CommandApply(d)
  BY <1>1 DEF CommandApply, SetState, CasInv, TypeInv, HandlerInv
<1>2. CASE AckApply(d)
  BY <1>2 DEF AckApply, SetState, TypeInv, HandlerInv
<1> QED
  BY <1>1, <1>2 DEF HandlerStep, HandlerLoad, CommandDecide, AckCompare

(* Every step keeps StateInv.                                              *)
LEMMA StateNext ==
  ASSUME TypeInv, CasInv, StateInv, Next
  PROVE  StateInv'
<1>1. CASE \E kind \in Kinds : Enqueue(kind)
  BY <1>1 DEF Enqueue, StateInv, syncVars
<1>2. CASE SyncStep
  <2> USE QueueTypes DEF TypeInv, SyncInv, StateInv, StreamerState
  <2>1. CASE Collect
    <3>1. OrderInv' /\ QueueInv'
      BY <2>1, QueueCollect
    <3>2. sync_pc' = "load" => Len(definitions_') >= 2
      BY <3>1, StreamerAssumption DEF OrderInv, Preamble
    <3>3. /\ sync_pc = "collect" /\ sync_pc' \in {"collect", "load"}
          /\ seq_ = 0 /\ UNCHANGED <<seq_, state_>>
      BY <2>1 DEF Collect
    <3> QED
      BY <3>2, <3>3
  <2>2. CASE SyncLoad
    BY <2>2 DEF SyncLoad, Dispatch
  <2>3. CASE SyncSend
    BY <2>3 DEF SyncSend
  <2>4. CASE SyncSent \/ SyncRecv \/ SyncExpired
    BY <2>4 DEF SyncSent, SyncRecv, SyncExpired, SetState
  <2>5. CASE SyncInc
    BY <2>5 DEF SyncInc
  <2>6. CASE SyncWait
    BY <2>6 DEF SyncWait
  <2>7. CASE SyncFinishLoad
    BY <2>7 DEF SyncFinishLoad
  <2>8. CASE SyncFinish
    BY <2>8, StreamerAssumption DEF SyncFinish, OrderInv, Preamble
  <2>9. CASE SyncRun
    BY <2>9 DEF SyncRun
  <2> QED
    BY <1>2, <2>1, <2>2, <2>3, <2>4, <2>5, <2>6, <2>7, <2>8, <2>9 DEF SyncStep
<1>3. CASE DiscardStep \/ MainStep
  BY <1>3 DEF DiscardStep, DiscardTest, Discard, MainStep, MainEnter, MainWhile,
              MainDequeue, StateInv, syncVars
<1>4. ASSUME NEW d \in Dispatchers, HandlerStep(d)
      PROVE  StateInv'
  <2>1. UNCHANGED syncVars
    BY <1>4 DEF HandlerStep, HandlerLoad, CommandDecide, CommandApply, AckCompare,
                AckApply
  <2> QED
    BY <1>4, <2>1, HandlerState DEF StateInv, syncVars
<1>5. CASE \E c \in Clients : ClientStep(c)
  BY <1>5 DEF ClientStep, ClientControl, CommandStart, CommandStop, ResetStopAck,
              ReceiveCommandAck, ReceiveDefinition, ClientRestart, Send, StateInv,
              syncVars, serverVars
<1> QED
  BY <1>1, <1>2, <1>3, <1>4, <1>5 DEF Next, ServerNext, ServerStep

(* How sync_loop changes state_: never out of the states that START and    *)
(* STOP are about.                                                         *)
LEMMA SyncState ==
  ASSUME TypeInv, StateInv, SyncStep
  PROVE  /\ state_' # state_ =>
              \/ state_ \in {"CONNECTED", "SEND_DEF", "RESEND_DEF"} /\ state_' = "ACK_WAIT"
              \/ state_ = "ACK_RECV" /\ state_' = "SEND_DEF"
              \/ state_ = "ACK_WAIT" /\ state_' = "RESEND_DEF"
              \/ state_ = "SEND_DEF" /\ state_' = "RUNNING"
         /\ UNCHANGED <<handler, target_>>
  BY DEF SyncStep, Collect, SyncLoad, SyncSend, SyncSent, SyncRecv, SyncInc,
         SyncWait, SyncExpired, SyncFinishLoad, SyncFinish, SyncRun, SetState,
         TypeInv, SyncInv, StateInv

(* The other loops and the clients do not touch state_.                    *)
LEMMA OthersState ==
  ASSUME Next, ~ SyncStep, ~ \E d \in Dispatchers : HandlerStep(d)
  PROVE  UNCHANGED <<state_, target_, handler, sync_pc, seq_, definitions_,
  sync_st>>
<1>1. CASE \E kind \in Kinds : Enqueue(kind)
  BY <1>1 DEF Enqueue, syncVars
<1>3. CASE DiscardStep \/ MainStep
  BY <1>3 DEF DiscardStep, DiscardTest, Discard, MainStep, MainEnter, MainWhile,
              MainDequeue, syncVars
<1>5. CASE \E c \in Clients : ClientStep(c)
  BY <1>5 DEF ClientStep, ClientControl, CommandStart, CommandStop, ResetStopAck,
              ReceiveCommandAck, ReceiveDefinition, ClientRestart, Send, syncVars,
              serverVars
<1> QED
  BY <1>1, <1>3, <1>5 DEF Next, ServerNext, ServerStep

(* A handler changes the target only where there is none: in INIT.         *)
LEMMA TargetHandler ==
  ASSUME OneDispatcher, TypeInv, CasInv, TargetInv,
         NEW d \in Dispatchers, HandlerStep(d)
  PROVE  /\ target_ # NoTarget => target_' = target_
         /\ TargetInv'
<1>0. Dispatchers = {d}
  BY DEF OneDispatcher
<1>1. CASE CommandDecide(d)
  <2>1. /\ handler[d].pc = "command" /\ state_' = state_
        /\ handler'[d].pc = "command_cas"
        /\ handler'[d].new = NewState(handler[d].msg, handler[d].st)
        /\ target_' = IF handler'[d].new = "CONNECTED"
                        THEN handler[d].msg.src ELSE target_
     <3>1. handler[d].pc = "command" /\ state_' = state_
        BY <1>1 DEF CommandDecide
     <3>2. /\ handler'[d].pc = "command_cas"
           /\ handler'[d].new = NewState(handler[d].msg, handler[d].st)
       BY <1>1, <3>1, HandlerDecides DEF CommandDecide, TypeInv
     <3> QED
       BY <1>1, <3>1, <3>2 DEF CommandDecide
  <2>2. handler[d].msg.src # NoTarget
    BY <2>1, StreamerAssumption DEF TypeInv, HandlerInv, Busy, NoHandler, WireInv
  <2>3. handler'[d].new = "CONNECTED" => state_ = "INIT" /\ target_ = NoTarget
    <3>1. handler'[d].new = "CONNECTED" => handler[d].st = "INIT"
      BY <2>1, NewStates
    <3> QED
      BY <1>0, <2>1, <3>1 DEF CasInv, TargetInv
  <2>4. target_ # NoTarget => state_ # "INIT"
    BY <1>0, <2>1 DEF TargetInv
  <2> QED
    BY <1>0, <2>1, <2>2, <2>3, <2>4 DEF TargetInv
<1>2. CASE CommandApply(d)
  <2>1. handler[d].pc = "command_cas" /\ target_' = target_
    BY <1>2 DEF CommandApply
  <2>2. CASE handler[d].new = "CONNECTED"
    <3>1. state_ = "INIT" /\ handler[d].st = "INIT" /\ handler[d].msg.src = target_
      BY <2>1, <2>2 DEF CasInv
    <3>2. state_' = "CONNECTED"
      BY <1>2, <2>2, <3>1 DEF CommandApply, SetState
    <3>3. target_ # NoTarget
      BY <2>1, <3>1, StreamerAssumption DEF TypeInv, HandlerInv, Busy, NoHandler,
         WireInv
    <3> QED
      BY <2>1, <3>2, <3>3 DEF TargetInv
  <2>3. CASE handler[d].new # "CONNECTED"
    <3>1. target_ # NoTarget => state_ # "INIT"
      BY <1>0, <2>3 DEF TargetInv
    <3>2. state_' = "INIT" <=> state_ = "INIT"
      BY <1>2, <2>1, <2>3 DEF CommandApply, SetState, TypeInv, HandlerInv, CasInv
    <3> QED
      BY <2>1, <3>1, <3>2 DEF TargetInv
  <2> QED
    BY <2>2, <2>3
<1>3. CASE (\E m \in wire : HandlerLoad(d, m)) \/ AckCompare(d) \/ AckApply(d)
  <2>1. target_' = target_ /\ handler[d].pc # "command_cas"
    BY <1>3 DEF HandlerLoad, AckCompare, AckApply
  <2>2. state_' = "INIT" <=> state_ = "INIT"
    BY <1>3 DEF HandlerLoad, AckCompare, AckApply, SetState, TypeInv, HandlerInv
  <2> QED
    BY <1>0, <2>1, <2>2 DEF TargetInv
<1> QED
  BY <1>1, <1>2, <1>3 DEF HandlerStep

(* No step changes the target once there is one.                           *)
LEMMA TargetNext ==
  ASSUME OneDispatcher, TypeInv, StateInv, CasInv, TargetInv, Next
  PROVE  /\ target_ # NoTarget => target_' = target_
         /\ TargetInv'
<1>1. CASE \E d \in Dispatchers : HandlerStep(d)
  BY <1>1, TargetHandler
<1>2. CASE SyncStep
  BY <1>2, SyncState DEF TargetInv
<1> QED
  BY <1>1, <1>2, OthersState DEF TargetInv

(* Every step keeps CasInv.                                                *)
LEMMA CasNext ==
  ASSUME OneDispatcher, TypeInv, StateInv, CasInv, TargetInv, Next
  PROVE  CasInv'
<1>1. ASSUME NEW d \in Dispatchers, HandlerStep(d)
      PROVE  CasInv'
  <2>0. Dispatchers = {d}
    BY DEF OneDispatcher
  <2>1. CASE \E m \in wire : HandlerLoad(d, m)
    BY <2>0, <2>1 DEF HandlerLoad, CasInv, TypeInv, HandlerInv
  <2>2. CASE CommandDecide(d)
    <3>1. /\ handler[d].pc = "command" /\ state_' = state_
          /\ handler'[d].pc = "command_cas"
          /\ handler'[d].new = NewState(handler[d].msg, handler[d].st)
          /\ handler'[d].msg = handler[d].msg /\ handler'[d].st = handler[d].st
      BY <2>2, HandlerDecides DEF CommandDecide, TypeInv
    <3>2. target_' = IF handler'[d].new = "CONNECTED"
                       THEN handler[d].msg.src ELSE target_
      BY <2>2, <3>1 DEF CommandDecide
    <3>3. handler'[d].new # "UNKNOWN" => handler[d].msg.src = target_'
      BY <3>1, <3>2, NewStates
    <3>4. /\ handler'[d].new = "CONNECTED" =>
               handler[d].st = "INIT" /\ handler[d].msg.command = "START"
          /\ handler'[d].new = "RUNNING" =>
               handler[d].st = "STOPPED" /\ handler[d].msg.command = "START"
          /\ handler'[d].new = "STOPPED" => handler[d].st = "RUNNING"
          /\ handler'[d].new \in {"CONNECTED", "RUNNING", "STOPPED", "UNKNOWN"}
      BY <3>1, NewStates
    <3> QED
      BY <2>0, <3>1, <3>3, <3>4 DEF CasInv
  <2>3. CASE AckCompare(d)
    <3>1. /\ handler[d].pc = "logging_ack" /\ handler'[d].pc = "ack_cas"
          /\ state_' = state_
      BY <2>3, HandlerDecides DEF AckCompare, TypeInv
    <3> QED
      BY <2>0, <3>1 DEF CasInv
  <2>4. CASE CommandApply(d) \/ AckApply(d)
    <3>1. handler'[d].pc = "idle"
      BY <2>4 DEF CommandApply, AckApply, TypeInv, HandlerInv, NoHandler
    <3> QED
      BY <2>0, <3>1 DEF CasInv
  <2> QED
    BY <1>1, <2>1, <2>2, <2>3, <2>4 DEF HandlerStep
<1>2. CASE SyncStep
  BY <1>2, SyncState DEF CasInv
<1> QED
  BY <1>1, <1>2, OthersState DEF CasInv

(* Every step keeps AcceptedInv.                                           *)
LEMMA AcceptedNext ==
  ASSUME OneDispatcher, TypeInv, StateInv, CasInv, TargetInv, AcceptedInv, Next
  PROVE  AcceptedInv'
<1>1. target_ # NoTarget => target_' = target_
  BY TargetNext
<1>2. sync_pc \in {"run", "done"} => sync_pc' \in {"run", "done"}
  <2>1. CASE SyncStep
    BY <2>1 DEF SyncStep, Collect, SyncLoad, SyncSend, SyncSent, SyncRecv, SyncInc,
                SyncWait, SyncExpired, SyncFinishLoad, SyncFinish, SyncRun
  <2>2. CASE \E d \in Dispatchers : HandlerStep(d)
    BY <2>2 DEF HandlerStep, HandlerLoad, CommandDecide, CommandApply, AckCompare,
                AckApply, syncVars
  <2> QED
    BY <2>1, <2>2, OthersState
<1>3. ASSUME NEW m \in wire', m \notin wire, m.type = "command_ack", m.accepted
      PROVE  m.dst = target_' /\ (m.command = "STOP" => sync_pc' \in {"run", "done"})
  <2>1. PICK d \in Dispatchers : CommandApply(d)
    <3>1. CASE SyncStep
      BY <1>3, <3>1 DEF SyncStep, Collect, SyncLoad, SyncSend, SyncSent, SyncRecv,
                        SyncInc,
                SyncWait, SyncExpired, SyncFinishLoad, SyncFinish, SyncRun,
                Transmit, LoggingDataAcked
    <3>2. CASE \E kind \in Kinds : Enqueue(kind)
      BY <1>3, <3>2 DEF Enqueue
    <3>3. CASE DiscardStep \/ MainStep
      BY <1>3, <3>3 DEF DiscardStep, DiscardTest, Discard, MainStep, MainEnter,
                        MainWhile,
              MainDequeue, Transmit, LoggingData
    <3>4. CASE \E c \in Clients : ClientStep(c)
      BY <1>3, <3>4 DEF ClientStep, ClientControl, CommandStart, CommandStop,
                        ResetStopAck,
              ReceiveCommandAck, ReceiveDefinition, ClientRestart, Send,
              serverVars, Transmit, Command, LoggingAck
    <3>5. ASSUME NEW d \in Dispatchers, HandlerStep(d), ~ CommandApply(d) PROVE FALSE
      BY <1>3, <3>5 DEF HandlerStep, HandlerLoad, CommandDecide, AckCompare,
                        AckApply
    <3> QED
      BY <3>1, <3>2, <3>3, <3>4, <3>5 DEF Next, ServerNext, ServerStep
  <2>2. /\ handler[d].pc = "command_cas" /\ target_' = target_ /\ sync_pc' = sync_pc
        /\ m = CommandAck(handler[d].msg.command, handler[d].msg.src,
                          handler[d].new # "UNKNOWN")
    BY <1>3, <2>1 DEF CommandApply, Transmit, syncVars
  <2>3. /\ m.accepted = (handler[d].new # "UNKNOWN")
        /\ m.dst = handler[d].msg.src /\ m.command = handler[d].msg.command
    BY <2>2 DEF CommandAck
  <2>4. handler[d].new # "UNKNOWN"
    BY <1>3, <2>3
  <2>5. handler[d].msg.src = target_
    BY <2>2, <2>4 DEF CasInv
  <2>6. ASSUME handler[d].msg.command = "STOP"
        PROVE  sync_pc \in {"run", "done"}
    <3>1. state_ = "RUNNING"
      BY <2>2, <2>4, <2>6 DEF CasInv
    <3> QED
      BY <3>1 DEF StateInv, TypeInv, PhaseInv, SyncPc
  <2> QED
    BY <2>2, <2>3, <2>5, <2>6
<1>4. ASSUME NEW m \in wire, m.type = "command_ack", m.accepted
      PROVE  m.dst = target_' /\ (m.command = "STOP" => sync_pc' \in {"run", "done"})
  <2>1. m.dst = target_ /\ target_ # NoTarget
    BY <1>4, StreamerAssumption DEF AcceptedInv, TypeInv, WireInv
  <2> QED
    BY <1>1, <1>2, <1>4, <2>1 DEF AcceptedInv
<1> QED
  BY <1>3, <1>4 DEF AcceptedInv

(* Definitions are only added, and none once sending has begun.            *)
LEMMA DefinitionsGrow ==
  ASSUME TypeInv, Next
  PROVE  /\ Len(definitions_) \in Nat /\ Len(definitions_') \in Nat
         /\ Len(definitions_) <= Len(definitions_')
         /\ \A i \in 1 .. Len(definitions_) : definitions_'[i] = definitions_[i]
         /\ sync_pc # "collect" => definitions_' = definitions_
<1>0. Len(definitions_) \in Nat
  BY QueueTypes DEF TypeInv
<1>1. CASE Collect
  <2>1. CASE definitions_' = definitions_
    BY <1>0, <2>1
  <2>2. CASE definitions_' = Append(definitions_, Head(net_queue_))
    <3>1. Head(net_queue_) \in QueueItem /\ definitions_ \in Seq(QueueItem)
      BY <1>1, DequeueItem DEF Collect, TypeInv, QueueInv
    <3>2. /\ Len(definitions_') = Len(definitions_) + 1
          /\ \A i \in 1 .. Len(definitions_) : definitions_'[i] = definitions_[i]
      BY <2>2, <3>1, AppendProperties
    <3> QED
      BY <1>0, <1>1, <3>2 DEF Collect
  <2> QED
    BY <1>1, <2>1, <2>2 DEF Collect
<1>2. CASE definitions_' = definitions_
  BY <1>0, <1>2
<1> QED
  BY <1>1, <1>2, Frame DEF Discard, MainDequeue, Enqueue, syncVars

(* Every step keeps OnlyKnownAssertsFail: main_loop finds state_ as it     *)
(* expects it, the compare-exchange of a START or STOP succeeds, and so do *)
(* those of sync_loop except the one of the timeout.                       *)
LEMMA AssertsNext ==
  ASSUME TypeInv, StateInv, CasInv, TargetInv, OnlyKnownAssertsFail, Next
  PROVE  OnlyKnownAssertsFail'
<1> DEFINE Oversize == \E i \in DOMAIN definitions_ : ~ fits(definitions_[i])
<1>0. /\ DOMAIN definitions_ = 1 .. Len(definitions_)
      /\ DOMAIN definitions_' = 1 .. Len(definitions_')
  <2>1. QueueInv'
    BY QueueStep DEF TypeInv
  <2> QED
    BY <2>1, LenProperties DEF TypeInv, QueueInv
<1>1. Oversize => Oversize'
  <2> SUFFICES ASSUME NEW i \in 1 .. Len(definitions_), ~ fits(definitions_[i])
               PROVE  \E k \in 1 .. Len(definitions_') : ~ fits(definitions_'[k])
    BY <1>0 DEF fits
  <2>1. i \in 1 .. Len(definitions_') /\ definitions_'[i] = definitions_[i]
    BY DefinitionsGrow
  <2> QED
    BY <2>1 DEF fits
<1>2. SUFFICES failed' \subseteq failed \cup {"ack_cas", "expired_cas"}
                                 \cup {name \in {"send_def"} : Oversize}
  BY <1>1 DEF OnlyKnownAssertsFail, fits
<1>3. CASE SyncStep
  <2>1. CASE SyncSend
    <3>1. seq_ + 1 \in 1 .. Len(definitions_)
      BY <2>1, QueueTypes DEF SyncSend, TypeInv, SyncInv
    <3>2. ~ fits(definitions_[seq_ + 1]) => Oversize
      BY <1>0, <3>1
    <3>3. ~ (sync_st = "CONNECTED" /\ target_ = NoTarget)
      BY <2>1 DEF SyncSend, StateInv, TargetInv
    <3>4. failed' = failed \cup (IF fits(definitions_[seq_ + 1]) THEN {} ELSE {"send_def"})
      BY <2>1, <3>3 DEF SyncSend
    <3> HIDE DEF Oversize
    <3> QED
      BY <3>2, <3>4
  <2> HIDE DEF Oversize
  <2>2. CASE SyncLoad
    BY <2>2 DEF SyncLoad, AssertHolds, StateInv, TypeInv, SyncInv
  <2>3. CASE SyncSent \/ SyncRecv \/ SyncExpired
    BY <2>3 DEF SyncSent, SyncRecv, SyncExpired, SetState, AssertHolds, StateInv
  <2> QED
    BY <1>3, <2>1, <2>2, <2>3 DEF SyncStep, Collect, SyncInc, SyncWait,
                                  SyncFinishLoad, SyncFinish, SyncRun
<1> HIDE DEF Oversize
<1>4. CASE MainEnter
  BY <1>4 DEF MainEnter, AssertHolds, StateInv, TypeInv, PhaseInv
<1>5. ASSUME NEW d \in Dispatchers, HandlerStep(d)
      PROVE  failed' \subseteq failed \cup {"ack_cas"}
  <2>1. CASE CommandApply(d)
    BY <2>1 DEF CommandApply, SetState, AssertHolds, CasInv, TypeInv, HandlerInv
  <2>2. CASE AckApply(d)
    BY <2>2 DEF AckApply, SetState, AssertHolds
  <2> QED
    BY <1>5, <2>1, <2>2 DEF HandlerStep, HandlerLoad, CommandDecide, AckCompare
<1>6. CASE \/ \E kind \in Kinds : Enqueue(kind)
           \/ DiscardStep \/ MainWhile \/ MainDequeue
  BY <1>6 DEF Enqueue, DiscardStep, DiscardTest, Discard, MainWhile, MainDequeue
<1>7. CASE \E c \in Clients : ClientStep(c)
  BY <1>7 DEF ClientStep, ClientControl, CommandStart, CommandStop, ResetStopAck,
              ReceiveCommandAck, ReceiveDefinition, ClientRestart, Send, serverVars
<1> QED
  BY <1>3, <1>4, <1>5, <1>6, <1>7 DEF Next, ServerNext, ServerStep, MainStep

(* The initial states satisfy the invariant.                               *)
LEMMA ControlInit == Init => ControlInv
<1> SUFFICES ASSUME Init PROVE ControlInv
  OBVIOUS
<1> USE DEF Init, ServerInit
<1>1. StateInv /\ TargetInv
  BY DEF StateInv, TargetInv
<1>2. CasInv /\ AcceptedInv /\ OnlyKnownAssertsFail
  BY DEF CasInv, NoHandler, AcceptedInv, OnlyKnownAssertsFail
<1> QED
  BY <1>1, <1>2, TypeInit DEF ControlInv

(* With one dispatcher every step keeps the invariant.                     *)
LEMMA ControlNext == ASSUME OneDispatcher PROVE ControlInv /\ [Next]_vars => ControlInv'
<1> SUFFICES ASSUME ControlInv, [Next]_vars PROVE ControlInv'
  OBVIOUS
<1>0. TypeInv'
  BY TypeNext DEF ControlInv
<1>1. CASE Next
  BY <1>0, <1>1, StateNext, CasNext, TargetNext, AcceptedNext, AssertsNext
     DEF ControlInv
<1>2. CASE UNCHANGED vars
  BY <1>0, <1>2 DEF vars, serverVars, queueVars, syncVars, discVars, mainVars,
                    ControlInv,
              StateInv, CasInv, TargetInv, AcceptedInv, OnlyKnownAssertsFail
<1> QED
  BY <1>1, <1>2

(* With one dispatcher the invariant holds in every reachable state.       *)
LEMMA ControlInvariant == ASSUME OneDispatcher PROVE Spec => []ControlInv
  BY ControlInit, ControlNext, PTL DEF Spec

(* With one dispatcher thread no assertion of the streamer fails except    *)
(* the two of an acknowledgement that races the timeout of sync_loop, and  *)
(* that of a definition which does not fit a message.                      *)
THEOREM OnlyKnownAsserts ==
  ASSUME OneDispatcher PROVE Spec => []OnlyKnownAssertsFail
<1>1. ControlInv => OnlyKnownAssertsFail
  BY DEF ControlInv
<1> QED
  BY <1>1, ControlInvariant, PTL

(* With one dispatcher thread proto_command_handler replies ACCEPTED only  *)
(* to the target, and to a STOP only when all definitions have arrived.    *)
THEOREM AcceptedIsTarget ==
  ASSUME OneDispatcher PROVE Spec => []AcceptedOnlyTarget
<1>1. ControlInv => AcceptedOnlyTarget
  <2> SUFFICES ASSUME ControlInv, NEW m \in wire, m.type = "command_ack", m.accepted
               PROVE  m.dst = target_ /\ (m.command = "STOP" =>
                        seq_ = Len(definitions_))
    BY DEF AcceptedOnlyTarget
  <2> QED
    BY DEF ControlInv, AcceptedInv, TypeInv, SyncInv
<1> QED
  BY <1>1, ControlInvariant, PTL

(* With one dispatcher thread the streamer never changes its client (the   *)
(* address proto_command_handler stores when it leaves INIT).              *)
THEOREM TargetFinal ==
  ASSUME OneDispatcher PROVE Spec => TargetIsFinal
<1>1. ControlInv /\ [Next]_vars => [target_ # NoTarget => target_' = target_]_vars
  BY TargetNext DEF ControlInv
<1> QED
  BY <1>1, ControlInvariant, PTL DEF Spec, TargetIsFinal

=============================================================================
