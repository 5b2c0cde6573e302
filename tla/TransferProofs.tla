--------------------------- MODULE TransferProofs ---------------------------
(***************************************************************************)
(* Proofs about the transfer of the definitions, for every set of clients, *)
(* number of messages, timeout and modulus, on a network that loses,       *)
(* repeats and reorders. They assume one dispatcher thread, clients that   *)
(* do not restart, and no more definitions than there are sequence numbers *)
(* (FewDefinitions).                                                       *)
(***************************************************************************)
EXTENDS StreamProofs

(* What is on the wire: definitions for the target, under their index, at  *)
(* most up to seq_; acknowledgements only for what their client has        *)
(* parsed; data only once sync_loop has ended.                             *)
SentInv ==
  \A m \in wire :
    /\ m.type = "data_acked" =>
         /\ m.dst = target_
         /\ target_ # NoTarget
         /\ sync_pc # "collect"
         /\ m.sequence \in 0 .. seq_ /\ m.sequence < Len(definitions_)
         /\ m.item = definitions_[m.sequence + 1]
    /\ m.type = "logging_ack" =>
         m.src = target_ /\ m.sequence \in 0 .. Len(parsed[m.src]) - 1
    /\ m.type = "data" => m.dst = target_ /\ target_ # NoTarget /\ sync_pc = "done"

(* A client that is not the target has parsed nothing. The target has      *)
(* parsed the first definitions, each once: as many as have been           *)
(* acknowledged, or one more, and one more for sure when sync_loop has     *)
(* seen the acknowledgement.                                               *)
ParsedInv ==
  /\ parsed \in [Clients -> Seq(QueueItem)]
  /\ sequence_keeper \in [Clients -> SUBSET Nat]
  /\ \A c \in Clients :
       /\ sequence_keeper[c] = 0 .. Len(parsed[c]) - 1
       /\ c # target_ => parsed[c] = <<>>
       /\ Len(parsed[c]) <= Len(definitions_)
       /\ \A i \in 1 .. Len(parsed[c]) : parsed[c][i] = definitions_[i]
       /\ c = target_ => Len(parsed[c]) \in {seq_, seq_ + 1}
       /\ c = target_ /\ (state_ = "ACK_RECV" \/ sync_pc = "inc") =>
            Len(parsed[c]) = seq_ + 1

(* A handler about to set ACK_RECV holds the acknowledgement of seq_.      *)
AckedInv ==
  \A d \in Dispatchers :
    handler[d].pc = "ack_cas" /\ handler[d].new = "ACK_RECV" =>
      handler[d].msg.sequence = seq_ % SeqMod

(* The inductive invariant of the transfer.                                *)
TransferInv == SentInv /\ ParsedInv /\ AckedInv

(* The definitions have different sequence numbers. The numbers have 16    *)
(* bits; with more definitions than that, the client would take definition *)
(* SeqMod for the first one, sent again.                                   *)
FewDefinitions == Len(definitions_) <= SeqMod

-----------------------------------------------------------------------------
(***************************************************************************)
(* Types, and what the steps leave alone.                                  *)
(***************************************************************************)

(* A sequence number below the modulus is not cut off.                     *)
LEMMA SmallSequence ==
  ASSUME NEW n \in Nat, n < SeqMod
  PROVE  n % SeqMod = n
  BY StreamerAssumption

(* What the invariant of the control says of seq_ and the target.          *)
LEMMA TransferTypes ==
  ASSUME ControlInv
  PROVE  /\ seq_ \in Nat /\ Len(definitions_) \in Nat /\ seq_ <= Len(definitions_)
         /\ state_ \in {"ACK_WAIT", "ACK_RECV", "RESEND_DEF"} =>
              seq_ < Len(definitions_)
         /\ state_ = "INIT" => seq_ = 0
         /\ target_ # NoTarget => target_ \in Clients
         /\ state_ \in {"ACK_WAIT", "ACK_RECV", "RESEND_DEF"} =>
              sync_pc \notin {"collect", "inc", "finish", "run", "done"}
  BY QueueTypes DEF ControlInv, TypeInv, SyncInv, StateInv, PhaseInv, SyncPc

(* sync_loop goes forward, and only it advances seq_.                      *)
LEMMA Forward ==
  ASSUME ControlInv, Next
  PROVE  /\ sync_pc # "collect" => sync_pc' # "collect"
         /\ sync_pc = "done" => sync_pc' = "done"
         /\ seq_' \in {seq_, seq_ + 1}
         /\ seq_' # seq_ => SyncInc
<1>1. CASE SyncStep
  BY <1>1, TransferTypes DEF SyncStep, Collect, SyncLoad, SyncSend, SyncSent,
                             SyncRecv, SyncInc,
              SyncWait, SyncExpired, SyncFinishLoad, SyncFinish, SyncRun, Dispatch
<1>2. CASE \E d \in Dispatchers : HandlerStep(d)
  BY <1>2 DEF HandlerStep, HandlerLoad, CommandDecide, CommandApply, AckCompare,
              AckApply, syncVars
<1> QED
  BY <1>1, <1>2, OthersState

(* A client that does not restart parses only what it receives.            *)
LEMMA ClientFrame ==
  ASSUME Next, ~ Restarts
  PROVE  \/ UNCHANGED <<parsed, sequence_keeper>>
         \/ \E c \in Clients : \E m \in wire : ReceiveDefinition(c, m)
  BY DEF Next, ClientStep, ClientControl, CommandStart, CommandStop, ResetStopAck,
         ReceiveCommandAck, ClientRestart, clientVars

(* A client that receives a definition, for the first time or again, has   *)
(* parsed it, and still has parsed the first definitions in order.         *)
LEMMA ReceiveEffect ==
  ASSUME ControlInv, ParsedInv, SentInv,
         NEW c \in Clients, NEW m \in wire, ReceiveDefinition(c, m)
  PROVE  /\ c = target_
         /\ UNCHANGED <<target_, seq_, definitions_, state_, sync_pc, handler>>
         /\ m.sequence \in Nat /\ m.sequence < Len(parsed'[c])
         /\ (ParsedInv)'
         /\ Len(parsed[c]) <= Len(parsed'[c])
<1>1. /\ m.type = "data_acked" /\ m.dst = c
      /\ UNCHANGED <<target_, seq_, definitions_, state_, sync_pc, handler>>
      /\ sequence_keeper' = [sequence_keeper EXCEPT ![c] = @ \cup {m.sequence}]
      /\ parsed' = IF IsNew(c, m) THEN [parsed EXCEPT ![c] = Append(@, m.item)]
                                  ELSE parsed
  BY DEF ReceiveDefinition, Send, syncVars
<1>2. /\ c = target_ /\ m.sequence \in 0 .. seq_ /\ m.sequence < Len(definitions_)
      /\ m.item = definitions_[m.sequence + 1]
  BY <1>1 DEF SentInv
<1>3. /\ parsed[c] \in Seq(QueueItem) /\ Len(parsed[c]) \in Nat
      /\ sequence_keeper[c] = 0 .. Len(parsed[c]) - 1
      /\ Len(parsed[c]) \in {seq_, seq_ + 1}
  BY <1>2, LenProperties DEF ParsedInv
<1>4. CASE IsNew(c, m)
  <2>1. m.sequence = seq_ /\ Len(parsed[c]) = seq_
    BY <1>2, <1>3, <1>4, TransferTypes DEF IsNew
  <2>2. definitions_[seq_ + 1] \in QueueItem
    <3>1. seq_ + 1 \in 1 .. Len(definitions_)
      BY <1>2, <2>1, TransferTypes
    <3> QED
      BY <3>1, QueueTypes DEF ControlInv, TypeInv
  <2>3. parsed' = [parsed EXCEPT ![c] = Append(parsed[c], definitions_[seq_ + 1])]
    BY <1>1, <1>2, <1>4, <2>1
  <2>4. /\ parsed'[c] = Append(parsed[c], definitions_[seq_ + 1])
        /\ \A e \in Clients : e # c => parsed'[e] = parsed[e]
        /\ sequence_keeper'[c] = sequence_keeper[c] \cup {seq_}
        /\ \A e \in Clients : e # c => sequence_keeper'[e] = sequence_keeper[e]
    <3>1. DOMAIN parsed = Clients /\ DOMAIN sequence_keeper = Clients
      BY DEF ParsedInv
    <3>2. sequence_keeper' = [sequence_keeper EXCEPT ![c] = sequence_keeper[c] \cup {seq_}]
      BY <1>1, <2>1
    <3>3. /\ parsed'[c] = Append(parsed[c], definitions_[seq_ + 1])
          /\ \A e \in Clients : e # c => parsed'[e] = parsed[e]
      BY <2>3, <3>1, Zenon
    <3>4. /\ sequence_keeper'[c] = sequence_keeper[c] \cup {seq_}
          /\ \A e \in Clients : e # c => sequence_keeper'[e] = sequence_keeper[e]
      BY <3>1, <3>2, Zenon
    <3> QED
      BY <3>3, <3>4
  <2>5. /\ parsed'[c] \in Seq(QueueItem)
        /\ Len(parsed'[c]) = seq_ + 1
        /\ \A i \in 1 .. Len(parsed[c]) : parsed'[c][i] = parsed[c][i]
        /\ parsed'[c][seq_ + 1] = definitions_[seq_ + 1]
    BY <1>3, <2>1, <2>2, <2>4, AppendProperties
  <2>6. sequence_keeper'[c] = 0 .. Len(parsed'[c]) - 1
    BY <1>3, <2>1, <2>4, <2>5, TransferTypes
  <2>7. \A i \in 1 .. Len(parsed'[c]) : parsed'[c][i] = definitions_[i]
    <3>1. \A i \in 1 .. Len(parsed[c]) : parsed[c][i] = definitions_[i]
      BY DEF ParsedInv
    <3>2. \A i \in 1 .. Len(parsed'[c]) : i \in 1 .. Len(parsed[c]) \/ i = seq_ + 1
      BY <2>1, <2>5, TransferTypes
    <3> QED
      BY <2>5, <3>1, <3>2
  <2>8. /\ parsed' \in [Clients -> Seq(QueueItem)]
        /\ sequence_keeper' \in [Clients -> SUBSET Nat]
    <3>1. m.sequence \in Nat
      BY <1>2, TransferTypes
    <3> QED
      BY <1>1, <2>3, <2>4, <2>5, <3>1 DEF ParsedInv
  <2>9. Len(parsed'[c]) <= Len(definitions_)
    BY <1>2, <2>1, <2>5, TransferTypes
  <2>10. ParsedInv'
    BY <1>1, <1>2, <2>4, <2>5, <2>6, <2>7, <2>8, <2>9 DEF ParsedInv
  <2> QED
    BY <1>1, <1>2, <2>1, <2>5, <2>10, TransferTypes
<1>5. CASE ~ IsNew(c, m)
  <2>1. parsed' = parsed
    BY <1>1, <1>5
  <2>2. m.sequence \in sequence_keeper[c]
    BY <1>5 DEF IsNew
  <2>3. sequence_keeper' = sequence_keeper
    BY <1>1, <2>2 DEF ParsedInv
  <2>4. ParsedInv'
    <3>1. UNCHANGED <<target_, seq_, definitions_, state_, sync_pc>>
      BY <1>1
    <3> QED
      BY <2>1, <2>3, <3>1 DEF ParsedInv
  <2>5. m.sequence \in Nat /\ m.sequence < Len(parsed[c])
    BY <1>3, <2>2
  <2> QED
    BY <1>1, <1>2, <1>3, <2>1, <2>4, <2>5
<1> QED
  BY <1>4, <1>5

-----------------------------------------------------------------------------
(***************************************************************************)
(* The invariant.                                                          *)
(***************************************************************************)

(* Every step keeps SentInv.                                               *)
LEMMA SentNext ==
  ASSUME OneDispatcher, ~ Restarts, ControlInv, FewDefinitions, TransferInv, Next
  PROVE  SentInv'
<1>1. /\ target_ # NoTarget => target_' = target_
      /\ sync_pc # "collect" => sync_pc' # "collect" /\ definitions_' = definitions_
      /\ sync_pc = "done" => sync_pc' = "done"
      /\ seq_' \in {seq_, seq_ + 1}
  BY TargetNext, Forward, DefinitionsGrow DEF ControlInv
<1>2. \A c \in Clients : Len(parsed[c]) \in Nat /\ Len(parsed'[c]) \in Nat
                         /\ Len(parsed[c]) <= Len(parsed'[c])
  <2>1. \A c \in Clients : Len(parsed[c]) \in Nat
    BY LenProperties DEF TransferInv, ParsedInv
  <2>2. CASE UNCHANGED <<parsed, sequence_keeper>>
    BY <2>1, <2>2
  <2>3. ASSUME NEW e \in Clients, NEW m \in wire, ReceiveDefinition(e, m)
        PROVE  \A c \in Clients :
                 Len(parsed'[c]) \in Nat /\ Len(parsed[c]) <= Len(parsed'[c])
    <3>1. ParsedInv' /\ Len(parsed[e]) <= Len(parsed'[e])
      BY <2>3, ReceiveEffect DEF TransferInv
    <3>2. \A c \in Clients : Len(parsed'[c]) \in Nat
      BY <3>1, LenProperties DEF ParsedInv
    <3>3. \A c \in Clients : c # e => parsed'[c] = parsed[c]
      BY <2>3 DEF ReceiveDefinition, TransferInv, ParsedInv
    <3> QED
      BY <2>1, <3>1, <3>2, <3>3
  <2> QED
    BY <2>1, <2>2, <2>3, ClientFrame
<1> DEFINE Fits(m) ==
      /\ m.type = "data_acked" =>
           /\ m.dst = target_
           /\ target_ # NoTarget
           /\ sync_pc # "collect"
           /\ m.sequence \in 0 .. seq_ /\ m.sequence < Len(definitions_)
           /\ m.item = definitions_[m.sequence + 1]
      /\ m.type = "logging_ack" =>
           m.src = target_ /\ m.sequence \in 0 .. Len(parsed[m.src]) - 1
      /\ m.type = "data" => m.dst = target_ /\ target_ # NoTarget /\ sync_pc = "done"
<1>3. ASSUME NEW m \in wire
      PROVE  Fits(m)'
  <2>1. m.type = "logging_ack" => m.src \in Clients
    BY DEF ControlInv, TypeInv, WireInv
  <2>2. Fits(m)
    BY DEF TransferInv, SentInv
  <2>3. m.type = "data_acked" => Fits(m)'
    BY <1>1, <2>2, TransferTypes
  <2>4. m.type = "logging_ack" => Fits(m)'
    BY <1>1, <1>2, <2>1, <2>2, StreamerAssumption
  <2> QED
    BY <1>1, <2>2, <2>3, <2>4
<1>4. SUFFICES ASSUME NEW m \in wire' \ wire PROVE Fits(m)'
  BY <1>3 DEF SentInv
<1>5. CASE SyncSend
  <2>1. /\ m = LoggingDataAcked(target_, seq_ % SeqMod, definitions_[seq_ + 1])
        /\ sync_pc = "send" /\ sync_pc' = "sent"
        /\ UNCHANGED <<target_, seq_, definitions_>>
    BY <1>4, <1>5 DEF SyncSend, Transmit
  <2>2. seq_ \in Nat /\ seq_ < Len(definitions_) /\ target_ # NoTarget
    BY <2>1, TransferTypes DEF ControlInv, TypeInv, SyncInv, StateInv, TargetInv
  <2>3. seq_ % SeqMod = seq_
    BY <2>2, SmallSequence, StreamerAssumption, TransferTypes DEF FewDefinitions
  <2> QED
    BY <2>1, <2>2, <2>3 DEF LoggingDataAcked
<1>6. CASE MainDequeue
  <2>1. /\ \E item : m = LoggingData(target_, item)
        /\ main_pc = "dequeue" /\ UNCHANGED <<target_, sync_pc>>
    BY <1>4, <1>6 DEF MainDequeue, Transmit, syncVars
  <2>2. sync_pc = "done" /\ target_ # NoTarget
    BY <2>1 DEF ControlInv, TypeInv, PhaseInv, StateInv, TargetInv
  <2> QED
    BY <2>1, <2>2 DEF LoggingData
<1>7. ASSUME NEW c \in Clients, NEW r \in wire, ReceiveDefinition(c, r)
      PROVE  Fits(m)'
  <2>1. m = LoggingAck(c, r.sequence)
    BY <1>4, <1>7 DEF ReceiveDefinition, Send, Transmit
  <2>2. /\ c = target_ /\ target_' = target_
        /\ r.sequence \in Nat /\ r.sequence < Len(parsed'[c])
    BY <1>7, ReceiveEffect DEF TransferInv
  <2>3. Len(parsed'[c]) \in Nat
    BY <1>2
  <2> QED
    BY <2>1, <2>2, <2>3 DEF LoggingAck
<1>8. CASE m.type \in {"command", "command_ack"}
  BY <1>8
<1>9. \/ SyncSend \/ MainDequeue
      \/ \E c \in Clients : \E r \in wire : ReceiveDefinition(c, r)
      \/ m.type \in {"command", "command_ack"}
  <2>1. CASE SyncStep
    BY <1>4, <2>1 DEF SyncStep, Collect, SyncLoad, SyncSent, SyncRecv, SyncInc,
                      SyncWait, SyncExpired, SyncFinishLoad, SyncFinish, SyncRun
  <2>2. CASE DiscardStep \/ MainStep
    BY <1>4, <2>2 DEF DiscardStep, DiscardTest, Discard, MainStep, MainEnter,
                      MainWhile
  <2>3. CASE \E d \in Dispatchers : HandlerStep(d)
    BY <1>4, <2>3 DEF HandlerStep, HandlerLoad, CommandDecide, CommandApply,
                      AckCompare,
                      AckApply, Transmit, CommandAck
  <2>4. CASE \E c \in Clients : ClientStep(c)
    BY <1>4, <2>4 DEF ClientStep, ClientControl, CommandStart, CommandStop,
                      ResetStopAck,
                      ReceiveCommandAck, ClientRestart, Send, Transmit, Command,
                      serverVars
  <2>5. CASE \E kind \in Kinds : Enqueue(kind)
    BY <1>4, <2>5 DEF Enqueue
  <2> QED
    BY <2>1, <2>2, <2>3, <2>4, <2>5 DEF Next, ServerNext, ServerStep
<1> QED
  BY <1>5, <1>6, <1>7, <1>8, <1>9

(* Every step keeps ParsedInv.                                             *)
LEMMA ParsedNext ==
  ASSUME OneDispatcher, ~ Restarts, ControlInv, FewDefinitions, TransferInv, Next
  PROVE  ParsedInv'
<1>1. CASE \E c \in Clients : \E m \in wire : ReceiveDefinition(c, m)
  BY <1>1, ReceiveEffect DEF TransferInv
<1>2. ASSUME UNCHANGED <<parsed, sequence_keeper>>
      PROVE  ParsedInv'
  <2>1. ParsedInv /\ SentInv /\ AckedInv
    BY DEF TransferInv
  <2>2. \A c \in Clients : Len(parsed[c]) \in Nat
    BY <2>1, LenProperties DEF ParsedInv
  <2>3. /\ target_ # NoTarget => target_' = target_
        /\ target_' \in Clients \cup {NoTarget}
    BY TargetNext, SyncNext DEF ControlInv, TypeInv, SyncInv
  <2>4. CASE target_ = NoTarget
    <3>1. \A c \in Clients : parsed[c] = <<>> /\ Len(parsed[c]) = 0
      BY <2>1, <2>4, StreamerAssumption, EmptySeq DEF ParsedInv
    <3>2. state_ = "INIT" /\ seq_ = 0 /\ sync_pc \in {"collect", "load"}
      BY <2>4, TransferTypes DEF ControlInv, TargetInv, StateInv, TypeInv,
                                 PhaseInv, SyncPc
    <3>3. seq_' = 0
      BY <3>2, Forward DEF SyncInc
    <3>4. state_' # "ACK_RECV" /\ sync_pc' # "inc"
      <4>1. CASE SyncStep
        BY <3>2, <4>1 DEF SyncStep, Collect, SyncLoad, SyncSend, SyncSent,
                          SyncRecv, SyncInc,
              SyncWait, SyncExpired, SyncFinishLoad, SyncFinish, SyncRun, Dispatch
      <4>2. CASE \E d \in Dispatchers : HandlerStep(d)
        <5>1. state_' \in {"INIT", "CONNECTED"}
          BY <3>2, <4>2, HandlerState DEF ControlInv
        <5>2. sync_pc' = sync_pc
          BY <4>2 DEF HandlerStep, HandlerLoad, CommandDecide, CommandApply,
                      AckCompare, AckApply, syncVars
        <5> QED
          BY <3>2, <5>1, <5>2
      <4> QED
        BY <3>2, <4>1, <4>2, OthersState
    <3>5. Len(definitions_') \in Nat
      BY DefinitionsGrow DEF ControlInv
    <3> QED
      BY <1>2, <2>1, <3>1, <3>3, <3>4, <3>5 DEF ParsedInv
  <2>5. CASE target_ # NoTarget
    <3>1. target_ \in Clients /\ target_' = target_
      BY <2>3, <2>5, TransferTypes
    <3>2. \A c \in Clients : /\ Len(parsed[c]) <= Len(definitions_')
                             /\ \A i \in 1 .. Len(parsed[c]) : parsed[c][i] = definitions_'[i]
      <4>1. /\ Len(definitions_) \in Nat /\ Len(definitions_') \in Nat
            /\ Len(definitions_) <= Len(definitions_')
            /\ \A i \in 1 .. Len(definitions_) : definitions_'[i] = definitions_[i]
        BY DefinitionsGrow DEF ControlInv
      <4>2. TAKE c \in Clients
      <4>3. /\ Len(parsed[c]) <= Len(definitions_)
            /\ \A i \in 1 .. Len(parsed[c]) : parsed[c][i] = definitions_[i]
        BY <2>1 DEF ParsedInv
      <4>4. Len(parsed[c]) \in Nat
        BY <2>2
      <4> QED
        BY <4>1, <4>3, <4>4
    <3>3. /\ Len(parsed[target_]) \in {seq_', seq_' + 1}
          /\ state_' = "ACK_RECV" \/ sync_pc' = "inc" =>
               Len(parsed[target_]) = seq_' + 1
      <4> DEFINE L == Len(parsed[target_])
      <4>1. /\ L \in Nat /\ L \in {seq_, seq_ + 1}
            /\ state_ = "ACK_RECV" \/ sync_pc = "inc" => L = seq_ + 1
        BY <2>1, <2>2, <3>1 DEF ParsedInv
      <4>2. CASE seq_' # seq_
        <5>1. SyncInc
          BY <4>2, Forward
        <5>2. /\ sync_pc = "inc" /\ sync_pc' = "load"
              /\ seq_' = seq_ + 1 /\ state_' = state_
          BY <5>1 DEF SyncInc
        <5>3. state_ = "SEND_DEF"
          BY <5>2 DEF ControlInv, StateInv
        <5> QED
          BY <4>1, <5>2, <5>3, TransferTypes
      <4>3. CASE seq_' = seq_
        <5> SUFFICES ASSUME state_' = "ACK_RECV" \/ sync_pc' = "inc"
                     PROVE  L = seq_ + 1
          BY <4>1, <4>3
        <5>1. CASE SyncStep
          <6>1. sync_pc' = "inc" => state_ = "ACK_RECV"
            BY <5>1 DEF SyncStep, Collect, SyncLoad, SyncSend, SyncSent, SyncRecv,
                        SyncInc,
                        SyncWait, SyncExpired, SyncFinishLoad, SyncFinish,
                        SyncRun, Dispatch,
                        ControlInv, StateInv
          <6>2. state_' = "ACK_RECV" => state_ = "ACK_RECV"
            BY <5>1, SyncState DEF ControlInv
          <6> QED
            BY <4>1, <6>1, <6>2
        <5>2. ASSUME NEW d \in Dispatchers, HandlerStep(d)
              PROVE  L = seq_ + 1
          <6>1. sync_pc' = sync_pc
            BY <5>2 DEF HandlerStep, HandlerLoad, CommandDecide, CommandApply,
                        AckCompare,
                        AckApply, syncVars
          <6>2. CASE state_ = "ACK_RECV" \/ sync_pc = "inc"
            BY <4>1, <6>2
          <6>3. ASSUME AckApply(d), handler[d].new = "ACK_RECV"
                PROVE  L = seq_ + 1
            <7>1. handler[d].pc = "ack_cas"
              BY <6>3 DEF AckApply
            <7>2. handler[d].msg \in wire /\ handler[d].msg.type = "logging_ack"
              BY <7>1 DEF ControlInv, TypeInv, HandlerInv, NoHandler, Busy
            <7>3. handler[d].msg.sequence = seq_ % SeqMod
              BY <2>1, <6>3, <7>1 DEF AckedInv
            <7>4. seq_ \in Nat /\ seq_ < Len(definitions_) /\ Len(definitions_) \in Nat
              BY <7>1, TransferTypes DEF ControlInv, CasInv
            <7>5. seq_ % SeqMod = seq_
              BY <7>4, SmallSequence, StreamerAssumption DEF FewDefinitions
            <7>6. handler[d].msg.sequence \in 0 .. L - 1
              BY <2>1, <7>2 DEF SentInv
            <7> QED
              BY <4>1, <7>3, <7>4, <7>5, <7>6
          <6>4. CASE state_ # "ACK_RECV" /\ state_' = "ACK_RECV"
            <7>1. CASE AckApply(d)
              BY <6>3, <6>4, <7>1 DEF AckApply, SetState
            <7>2. CASE CommandApply(d)
              BY <6>4, <7>2 DEF CommandApply, SetState, ControlInv, TypeInv,
                                HandlerInv
            <7> QED
              BY <5>2, <6>4, <7>1, <7>2 DEF HandlerStep, HandlerLoad,
                 CommandDecide, AckCompare
          <6> QED
            BY <6>1, <6>2, <6>4
        <5> QED
          BY <4>1, <5>1, <5>2, OthersState
      <4> QED
        BY <4>2, <4>3
    <3> QED
      <4>1. parsed' = parsed /\ sequence_keeper' = sequence_keeper
        BY <1>2
      <4> QED
        BY <2>1, <3>1, <3>2, <3>3, <4>1 DEF ParsedInv
  <2> QED
    BY <2>4, <2>5
<1> QED
  BY <1>1, <1>2, ClientFrame

(* Every step keeps AckedInv: a late acknowledgement has another number.   *)
LEMMA AckedNext ==
  ASSUME OneDispatcher, ControlInv, AckedInv, Next
  PROVE  AckedInv'
<1>1. ASSUME NEW d \in Dispatchers, HandlerStep(d)
      PROVE  AckedInv'
  <2>1. seq_' = seq_
    BY <1>1 DEF HandlerStep, HandlerLoad, CommandDecide, CommandApply, AckCompare,
                AckApply, syncVars
  <2>2. Dispatchers = {d}
    BY DEF OneDispatcher
  <2>0. HandlerInv
    BY DEF ControlInv, TypeInv
  <2>3. CASE AckCompare(d)
    <3> DEFINE n == IF handler[d].msg.sequence = seq_ % SeqMod
                      THEN "ACK_RECV" ELSE "RESEND_DEF"
    <3>1. handler'[d] \in [pc : {"ack_cas"}, msg : wire, st : StreamerState, new : {n}]
          /\ handler'[d].msg = handler[d].msg
      BY <2>0, <2>3, HandlerDecides DEF AckCompare
    <3>2. handler'[d].new = n
      BY <3>1
    <3> QED
      BY <2>1, <2>2, <3>1, <3>2 DEF AckedInv
  <2>4. CASE ~ AckCompare(d)
    <3>1. handler'[d].pc # "ack_cas"
      <4>1. CASE CommandDecide(d)
        <5> DEFINE n == NewState(handler[d].msg, handler[d].st)
        <5>1. handler'[d] \in
                [pc : {"command_cas"}, msg : wire, st : StreamerState, new : {n}]
          BY <2>0, <4>1, HandlerDecides DEF CommandDecide
        <5> QED
          BY <5>1
      <4> QED
        BY <1>1, <2>4, <4>1 DEF HandlerStep, HandlerLoad, CommandApply, AckApply,
                                NoHandler,
                                ControlInv, TypeInv, HandlerInv
    <3> QED
      BY <2>2, <3>1 DEF AckedInv
  <2> QED
    BY <2>3, <2>4
<1>2. CASE SyncStep
  <2>1. handler' = handler
    BY <1>2, SyncState DEF ControlInv
  <2>2. ASSUME NEW d \in Dispatchers, handler[d].pc = "ack_cas"
        PROVE  seq_' = seq_
    <3>1. state_ \in {"ACK_WAIT", "RESEND_DEF"}
      BY <2>2 DEF ControlInv, CasInv
    <3>2. sync_pc # "inc"
      BY <3>1 DEF ControlInv, StateInv
    <3> QED
      BY <3>2, Forward DEF SyncInc
  <2> QED
    BY <2>1, <2>2 DEF AckedInv
<1> QED
  BY <1>1, <1>2, OthersState DEF AckedInv

(* The initial states satisfy the invariant.                               *)
LEMMA TransferInit == Init => TransferInv
<1> SUFFICES ASSUME Init PROVE TransferInv
  OBVIOUS
<1> USE DEF Init, ServerInit
<1>1. SentInv /\ AckedInv
  BY DEF SentInv, AckedInv, NoHandler
<1>2. <<>> \in Seq(QueueItem) /\ Len(<<>>) = 0
  BY EmptySeq
<1>3. \A c \in Clients : parsed[c] = <<>> /\ sequence_keeper[c] = {} /\ c # target_
  BY StreamerAssumption
<1>4. ParsedInv
  BY <1>2, <1>3 DEF ParsedInv
<1> QED
  BY <1>1, <1>4 DEF TransferInv

(* Every step keeps the invariant.                                         *)
LEMMA TransferNext ==
  ASSUME OneDispatcher, ~ Restarts
  PROVE  ControlInv /\ FewDefinitions /\ TransferInv /\ [Next]_vars => TransferInv'
<1> SUFFICES ASSUME ControlInv, FewDefinitions, TransferInv, [Next]_vars
             PROVE  TransferInv'
  OBVIOUS
<1>1. CASE Next
  BY <1>1, SentNext, ParsedNext, AckedNext DEF TransferInv
<1>2. CASE UNCHANGED vars
  BY <1>2 DEF vars, serverVars, clientVars, syncVars, TransferInv, SentInv,
              ParsedInv, AckedInv
<1> QED
  BY <1>1, <1>2

(* The invariant holds in every reachable state.                           *)
LEMMA TransferInvariant ==
  ASSUME OneDispatcher, ~ Restarts
  PROVE  Spec /\ []FewDefinitions => []TransferInv
  BY ControlInvariant, TransferInit, TransferNext, PTL DEF Spec

-----------------------------------------------------------------------------
(***************************************************************************)
(* The properties.                                                         *)
(***************************************************************************)

(* Whatever the network loses, repeats or reorders, and whichever resends  *)
(* of sync_loop time out, the parser of the client sees the definitions in *)
(* the order they were stored, each once, and no other client sees any.    *)
THEOREM DefinitionsArriveInOrder ==
  ASSUME OneDispatcher, ~ Restarts
  PROVE  Spec /\ []FewDefinitions => []DefinitionsInOrder
<1>1. ControlInv /\ TransferInv => DefinitionsInOrder
  <2> SUFFICES ASSUME ControlInv, TransferInv PROVE DefinitionsInOrder
    OBVIOUS
  <2>1. \A i \in 1 .. Len(definitions_) : definitions_[i].id = i
    BY DEF ControlInv, TypeInv, OrderInv
  <2>2. DOMAIN definitions_ = 1 .. Len(definitions_)
    BY LenProperties DEF ControlInv, TypeInv, QueueInv
  <2>3. ASSUME NEW c \in Clients
        PROVE  /\ c # target_ => parsed[c] = <<>>
               /\ \A i \in DOMAIN parsed[c] : parsed[c][i].id = i
    <3>1. /\ DOMAIN parsed[c] = 1 .. Len(parsed[c]) /\ Len(parsed[c]) \in Nat
      BY LenProperties DEF TransferInv, ParsedInv
    <3>2. /\ c # target_ => parsed[c] = <<>>
          /\ Len(parsed[c]) <= Len(definitions_)
          /\ \A i \in 1 .. Len(parsed[c]) : parsed[c][i] = definitions_[i]
      BY DEF TransferInv, ParsedInv
    <3> QED
      BY <2>1, <3>1, <3>2, TransferTypes
  <2> QED
    BY <2>1, <2>2, <2>3 DEF DefinitionsInOrder
<1> QED
  BY <1>1, ControlInvariant, TransferInvariant, PTL

(* main_loop of the streamer sends no data message before its receiver has *)
(* parsed all definitions.                                                 *)
THEOREM DataComesAfterDefinitions ==
  ASSUME OneDispatcher, ~ Restarts
  PROVE  Spec /\ []FewDefinitions => []DataAfterDefinitions
<1>1. ControlInv /\ TransferInv => DataAfterDefinitions
  <2> SUFFICES ASSUME ControlInv, TransferInv, NEW m \in wire, m.type = "data"
               PROVE  m.dst \in Clients /\ Len(parsed[m.dst]) = Len(definitions_)
    BY DEF DataAfterDefinitions
  <2>1. m.dst = target_ /\ target_ # NoTarget /\ sync_pc = "done"
    BY DEF TransferInv, SentInv
  <2>2. m.dst \in Clients /\ seq_ = Len(definitions_)
    BY <2>1, TransferTypes DEF ControlInv, TypeInv, SyncInv
  <2>3. /\ Len(parsed[m.dst]) <= Len(definitions_)
        /\ Len(parsed[m.dst]) \in {seq_, seq_ + 1}
    BY <2>1, <2>2 DEF TransferInv, ParsedInv
  <2> QED
    BY <2>2, <2>3, TransferTypes
<1> QED
  BY <1>1, ControlInvariant, TransferInvariant, PTL

-----------------------------------------------------------------------------
(***************************************************************************)
(* The refinement of DefTransfer.                                          *)
(***************************************************************************)

(* Every step of the system is one of DefTransfer or leaves its variables  *)
(* alone.                                                                  *)
LEMMA TransferStep ==
  ASSUME OneDispatcher, ~ Restarts, ControlInv, FewDefinitions, TransferInv, Next
  PROVE  [Transfer!Next]_(Transfer!vars)
<1>1. /\ discarding_ = (sync_pc # "collect") /\ running_ = (sync_pc = "done")
      /\ discarding_' = (sync_pc' # "collect") /\ running_' = (sync_pc' = "done")
  BY PhaseNext DEF ControlInv, TypeInv, PhaseInv
<1>2. target_ # NoTarget => target_ \in Clients /\ target_' = target_
  BY TransferTypes, TargetNext DEF ControlInv
<1>3. target_ # NoTarget =>
        /\ Delivered = Len(parsed[target_]) /\ Delivered \in {seq_, seq_ + 1}
        /\ sync_pc = "inc" => Delivered = seq_ + 1
  BY <1>2 DEF Delivered, TransferInv, ParsedInv
<1>4. ASSUME NEW c \in Clients, NEW m \in wire, ReceiveDefinition(c, m)
      PROVE  [Transfer!Next]_(Transfer!vars)
  <2>1. /\ c = target_ /\ target_ # NoTarget /\ sync_pc # "collect"
        /\ UNCHANGED <<target_, seq_, definitions_, sync_pc>>
        /\ ParsedInv' /\ Len(parsed[c]) <= Len(parsed'[c])
    BY <1>4, ReceiveEffect, StreamerAssumption
       DEF TransferInv, SentInv, ReceiveDefinition
  <2>2. Delivered' = Len(parsed'[c]) /\ Delivered = Len(parsed[c])
    BY <2>1 DEF Delivered
  <2>3. /\ Delivered' \in {seq_, seq_ + 1} /\ Delivered' <= Len(definitions_)
    BY <2>1, <2>2 DEF ParsedInv
  <2>4. \/ Delivered' = Delivered
        \/ Delivered = seq_ /\ Delivered' = seq_ + 1
    BY <1>3, <2>1, <2>2, <2>3, TransferTypes
  <2>5. CASE Delivered' = Delivered
    BY <1>1, <2>1, <2>5 DEF Transfer!vars
  <2>6. CASE Delivered = seq_ /\ Delivered' = seq_ + 1
    <3>1. Delivered < Len(definitions_) /\ Delivered' = Delivered + 1
      BY <2>3, <2>6, TransferTypes
    <3>2. discarding_ /\ UNCHANGED <<Len(definitions_), discarding_, seq_, running_>>
      BY <1>1, <2>1
    <3>3. Transfer!Deliver
      BY <2>6, <3>1, <3>2 DEF Transfer!Deliver
    <3> QED
      BY <3>3 DEF Transfer!Next
  <2> QED
    BY <2>4, <2>5, <2>6
<1>5. ASSUME ~ \E c \in Clients : \E m \in wire : ReceiveDefinition(c, m)
      PROVE  [Transfer!Next]_(Transfer!vars)
  <2>1. parsed' = parsed
    BY <1>5, ClientFrame
  <2>2. target_' = target_ => Delivered' = Delivered
    BY <2>1 DEF Delivered
  <2>3. CASE SyncStep
    <3>1. target_' = target_ /\ Delivered' = Delivered
      BY <2>2, <2>3, SyncState DEF ControlInv
    <3>2. CASE Collect
      <4>1. sync_pc = "collect" /\ seq_' = seq_ /\ net_queue_ # <<>>
            /\ sync_pc' \in {"collect", "load"}
        BY <3>2 DEF Collect
      <4>2. CASE definitions_' = definitions_
        BY <1>1, <3>1, <4>1, <4>2 DEF Transfer!Next, Transfer!Seal, Transfer!vars
      <4>3. CASE /\ definitions_' = Append(definitions_, Head(net_queue_))
                 /\ sync_pc' = sync_pc
        <5>1. Len(definitions_') = Len(definitions_) + 1
          BY <4>1, <4>3, DequeueItem, AppendProperties DEF ControlInv, TypeInv,
             QueueInv
        <5> QED
          BY <1>1, <3>1, <4>1, <4>3, <5>1 DEF Transfer!Next, Transfer!Define
      <4> QED
        BY <3>2, <4>2, <4>3 DEF Collect
    <3>3. CASE SyncInc
      <4>1. /\ sync_pc = "inc" /\ sync_pc' = "load" /\ seq_' = seq_ + 1
            /\ definitions_' = definitions_
        BY <3>3 DEF SyncInc
      <4>2. target_ # NoTarget
        BY <4>1 DEF ControlInv, StateInv, TargetInv
      <4> QED
        BY <1>1, <1>3, <3>1, <4>1, <4>2, TransferTypes DEF Transfer!Next,
           Transfer!Confirm
    <3>4. CASE SyncRun
      <4>1. /\ sync_pc = "run" /\ sync_pc' = "done"
            /\ UNCHANGED <<seq_, definitions_>>
        BY <3>4 DEF SyncRun
      <4>2. seq_ = Len(definitions_)
        BY <4>1 DEF ControlInv, TypeInv, SyncInv
      <4> QED
        BY <1>1, <3>1, <4>1, <4>2 DEF Transfer!Next, Transfer!Stream
    <3>5. CASE ~ Collect /\ ~ SyncInc /\ ~ SyncRun
      <4>1. UNCHANGED <<definitions_, discarding_, seq_, running_>>
        BY <2>3, <3>5 DEF SyncStep, SyncLoad, SyncSend, SyncSent, SyncRecv,
                          SyncWait,
                          SyncExpired, SyncFinishLoad, SyncFinish
      <4> QED
        BY <3>1, <4>1 DEF Transfer!vars
    <3> QED
      BY <3>2, <3>3, <3>4, <3>5
  <2>4. CASE \E d \in Dispatchers : HandlerStep(d)
    <3>1. UNCHANGED <<definitions_, discarding_, seq_, running_>>
      BY <2>4 DEF HandlerStep, HandlerLoad, CommandDecide, CommandApply, AckCompare,
                  AckApply, syncVars
    <3>2. Delivered' = Delivered
      <4>1. CASE target_ = NoTarget
        <5>1. target_' \in Clients \cup {NoTarget}
          BY SyncNext DEF ControlInv, TypeInv, SyncInv
        <5>2. \A c \in Clients : Len(parsed[c]) = 0
          BY <4>1, StreamerAssumption, EmptySeq DEF TransferInv, ParsedInv
        <5> QED
          BY <2>1, <4>1, <5>1, <5>2 DEF Delivered
      <4> QED
        BY <1>2, <2>2, <4>1
    <3> QED
      BY <3>1, <3>2 DEF Transfer!vars
  <2>5. CASE ~ SyncStep /\ ~ (\E d \in Dispatchers : HandlerStep(d))
    <3>1. UNCHANGED <<target_, definitions_, seq_, sync_pc>>
      BY <2>5, OthersState
    <3> QED
      BY <1>1, <2>2, <3>1 DEF Transfer!vars
  <2> QED
    BY <2>3, <2>4, <2>5
<1> QED
  BY <1>4, <1>5

(* Streamer and client implement the stop-and-wait transfer of             *)
(* DefTransfer: seq_ advances only for a definition that has arrived, the  *)
(* client is at most one definition ahead, and running_ comes last.        *)
THEOREM ImplementsTransfer ==
  ASSUME OneDispatcher, ~ Restarts
  PROVE  Spec /\ []FewDefinitions => ImplementsDefTransfer
<1>1. Init => Transfer!Init
  BY EmptySeq DEF Init, ServerInit, Transfer!Init, Delivered
<1>2. ControlInv /\ FewDefinitions /\ TransferInv /\ [Next]_vars
        => [Transfer!Next]_(Transfer!vars)
  <2> SUFFICES ASSUME ControlInv, FewDefinitions, TransferInv, [Next]_vars
               PROVE  [Transfer!Next]_(Transfer!vars)
    OBVIOUS
  <2>1. CASE UNCHANGED vars
    BY <2>1 DEF vars, serverVars, clientVars, syncVars, Delivered, Transfer!vars
  <2> QED
    BY <2>1, TransferStep
<1> QED
  BY <1>1, <1>2, ControlInvariant, TransferInvariant, PTL
     DEF Spec, ImplementsDefTransfer, Transfer!Spec

=============================================================================
