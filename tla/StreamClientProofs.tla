------------------------- MODULE StreamClientProofs -------------------------
(***************************************************************************)
(* The streamer with clients that have a parser does what StreamSystem     *)
(* does, so that what is proved of StreamSystem holds for it as well; and  *)
(* the parser of a client accepts whatever it is given.                    *)
(***************************************************************************)
EXTENDS StreamClient, TransferProofs, ParserProofs

(* A step of StreamClient is a step of StreamSystem, or only the handler   *)
(* of LOGGING_DATA giving a message to the parser.                         *)
LEMMA ClientStepIsStep == [NextClient]_allVars => [Next]_vars
<1>1. ASSUME NEW kind \in Kinds, Store(kind), UNCHANGED clientVars
      PROVE  Next
  BY <1>1 DEF Store, Next, ServerNext
<1>2. ASSUME ServerStep, UNCHANGED clientVars
      PROVE  Next
  BY <1>2 DEF Next, ServerNext
<1>3. ASSUME NEW c \in Clients, ClientControl(c)
      PROVE  Next
  BY <1>3 DEF Next, ClientStep
<1>4. ASSUME NEW c \in Clients, NEW m \in wire, ReadDefinition(c, m)
      PROVE  Next
  BY <1>4 DEF ReadDefinition, Next, ClientStep
<1>5. ASSUME NEW c \in Clients, NEW m \in wire, ReceiveData(c, m)
      PROVE  UNCHANGED vars
  BY <1>5 DEF ReceiveData
<1>6. CASE UNCHANGED allVars
  BY <1>6 DEF allVars
<1> QED
  BY <1>1, <1>2, <1>3, <1>4, <1>5, <1>6 DEF NextClient

(* The application of StreamClient stores formats first and data before    *)
(* log messages, and a parser only listens: StreamClient implements        *)
(* StreamSystem.                                                           *)
THEOREM ClientIsSystem == SpecClient => Spec
<1>1. InitClient => Init
  BY DEF InitClient
<1> QED
  BY <1>1, ClientStepIsStep, PTL DEF SpecClient, Spec

(* The types of the streamer with the repository's client and its parser.  *)
THEOREM ClientTypeCorrect == SpecClient => []TypeOK
  BY ClientIsSystem, StreamTypeCorrect, PTL

(* The parser of the repository's client is given the definitions in the   *)
(* order they were stored, each once, and all of them before the first     *)
(* data message is sent, on any network; no assertion of the streamer      *)
(* fails but the known ones.                                               *)
THEOREM ClientTransfer ==
  ASSUME OneDispatcher, ~ Restarts
  PROVE  SpecClient /\ []FewDefinitions =>
           /\ []DefinitionsInOrder
           /\ []DataAfterDefinitions
           /\ []OnlyKnownAssertsFail
           /\ ImplementsDefTransfer
  BY ClientIsSystem, DefinitionsArriveInOrder, DataComesAfterDefinitions,
     OnlyKnownAsserts, ImplementsTransfer, PTL

-----------------------------------------------------------------------------
(***************************************************************************)
(* The parser of the client.                                               *)
(***************************************************************************)
(* What the application registers: its type T, with no other type among    *)
(* its fields.                                                             *)
Formats == [t \in {"T"} |-> {}]

(* The third message is the format, so that it is a definition, and what   *)
(* main_loop streams comes later.                                          *)
ItemInv ==
  /\ \A i \in 1 .. Len(net_queue_) :
       net_queue_[i].id = 3 => ~ check_ulog_data_begin(net_queue_[i])
  /\ sync_pc # "collect" =>
       /\ Len(definitions_) >= 3
       /\ \A i \in 1 .. Len(net_queue_) : net_queue_[i].id > 3
  /\ \A m \in wire : m.type = "data" => m.item \in QueueItem /\ m.item.id > 3

(* The parser of a client that has been given n definitions. After header  *)
(* and flags it is healthy; it waits for the format until it has got it,   *)
(* and can decode data from then on.                                       *)
ReaderOf(p, n) ==
  /\ n = 0 => p = NewParser
  /\ n = 1 => p = To(NewParser, "FLAGS")
  /\ n = 2 => p.state_ = "DEFINITION"
  /\ n >= 2 => Healthy(p, Formats)
  /\ n >= 3 => "T" \in DOMAIN p.formats_

(* The parser of each client goes with what the client has parsed.         *)
ReaderInv ==
  /\ DOMAIN parser = Clients
  /\ \A c \in Clients : ReaderOf(parser[c], Len(parsed[c]))

-----------------------------------------------------------------------------
(***************************************************************************)
(* What the parser does with each message.                                 *)
(***************************************************************************)
(* The handlers do not look at what has been delivered.                    *)
LEMMA ReadKeeps ==
  ASSUME NEW p, NEW item,
         Healthy(check_ulog_valid(p, Message(item)), Formats)
  PROVE  /\ Healthy(Read(p, item), Formats)
         /\ Read(p, item).state_ = check_ulog_valid(p, Message(item)).state_
         /\ Read(p, item).formats_ = check_ulog_valid(p, Message(item)).formats_
<1> DEFINE q == check_ulog_valid(p, Message(item))
           r == [q EXCEPT !.delivered = EmptyBag, !.message_logs_ = EmptyBag]
<1>1. Healthy(q, Formats) /\ Read(p, item) = r
  BY DEF Read
<1> HIDE DEF q
<1>2. /\ r.state_ = q.state_ /\ r.formats_ = q.formats_ /\ r.fault = q.fault
      /\ r.subscriptions_ = q.subscriptions_ /\ IsParser(r)
  BY <1>1 DEF Healthy, IsParser, NewParser
<1> HIDE DEF r
<1>3. Healthy(r, Formats)
  BY <1>1, <1>2 DEF Healthy, Formatted, Subscribed, Decodable
<1> QED
  BY <1>1, <1>2, <1>3 DEF q

(* The first definition.                                                   *)
LEMMA ReadHeader ==
  ASSUME NEW item, item.id = 1
  PROVE  Read(NewParser, item) = To(NewParser, "FLAGS")
<1>1. Message(item) = ULogFileHeader
  BY DEF Message
<1>2. check_ulog_valid(NewParser, ULogFileHeader) = To(NewParser, "FLAGS")
  BY DEF check_ulog_valid, parse, parse_header, ULogFileHeader, NewParser, To
<1> DEFINE q == To(NewParser, "FLAGS")
<1>3. /\ DOMAIN q = DOMAIN NewParser /\ q = [x \in DOMAIN q |-> q[x]]
      /\ q.delivered = EmptyBag /\ q.message_logs_ = EmptyBag
  BY DEF NewParser, To
<1> HIDE DEF q
<1>4. q = [q EXCEPT !.delivered = EmptyBag, !.message_logs_ = EmptyBag]
  BY <1>3
<1> QED
  BY <1>1, <1>2, <1>4 DEF Read, q

(* The second definition.                                                  *)
LEMMA ReadFlags ==
  ASSUME NEW item, item.id = 2
  PROVE  LET q == Read(To(NewParser, "FLAGS"), item) IN
           Healthy(q, Formats) /\ q.state_ = "DEFINITION"
<1>1. Message(item) = ULogMessageB(FALSE)
  BY DEF Message
<1>2. check_ulog_valid(NewParser, ULogFileHeader) = To(NewParser, "FLAGS")
  BY DEF check_ulog_valid, parse, parse_header, ULogFileHeader, NewParser, To
<1>3. LET q == check_ulog_valid(To(NewParser, "FLAGS"), ULogMessageB(FALSE)) IN
        Healthy(q, Formats) /\ q.state_ = "DEFINITION"
  BY <1>2, HealthyStart
<1> QED
  BY <1>1, <1>3, ReadKeeps

(* The third definition.                                                   *)
LEMMA ReadFormat ==
  ASSUME NEW p, Healthy(p, Formats), p.state_ = "DEFINITION", NEW item, item.id = 3
  PROVE  LET q == Read(p, item) IN
           Healthy(q, Formats) /\ "T" \in DOMAIN q.formats_
<1> DEFINE m == ULogMessageF("T", {})
<1>1. Message(item) = m
  BY DEF Message
<1>2. /\ m.type = "F" /\ m.name = "T"
      /\ m.name \in DOMAIN Formats /\ m.others = Formats[m.name]
  BY DEF ULogMessageF, Formats
<1> HIDE DEF m
<1>3. LET q == check_ulog_valid(p, m) IN
        Healthy(q, Formats) /\ DOMAIN q.formats_ = DOMAIN p.formats_ \cup {m.name}
  BY <1>2, HealthyFormat
<1> QED
  BY <1>1, <1>2, <1>3, ReadKeeps

(* All that data of the type T refers to.                                  *)
LEMMA OwnType == FieldTypes(Formats, "T") \subseteq {"T"}
  BY FieldTypesLeast DEF Formats

(* Everything later, as a definition or as data: a healthy parser that     *)
(* knows the format takes it, in any order and any number of times.        *)
LEMMA ReadItem ==
  ASSUME "log" \notin Kinds, NEW p, Healthy(p, Formats), "T" \in DOMAIN p.formats_,
         NEW item \in QueueItem, item.id > 3
  PROVE  LET q == Read(p, item) IN
           Healthy(q, Formats) /\ q.formats_ = p.formats_
<1>1. /\ ~ (item.id = 1) /\ ~ (item.id = 2) /\ ~ (item.id = 3)
      /\ item.kind \in {"def", "bigdef", "data", "bigdata"}
  <2>1. item.id \in 1 .. MaxItems /\ item.kind \in Kinds
    BY DEF QueueItem
  <2>2. MaxItems \in Nat
    BY StreamerAssumption
  <2>3. Kinds \subseteq {"def", "data", "bigdef", "bigdata", "log"}
    BY StreamerAssumption
  <2>4. item.kind \in {"def", "bigdef", "data", "bigdata"}
    BY <2>1, <2>3
  <2> QED
    BY <2>1, <2>2, <2>4
<1>2. CASE item.kind \in {"def", "bigdef"}
  <2> DEFINE m == ULogMessageI("info")
  <2>1. Message(item) = m
    BY <1>1, <1>2 DEF Message
  <2>2. m.type = "I" /\ m.key # NoKey
    BY DEF ULogMessageI, NoKey
  <2> HIDE DEF m
  <2>3. LET q == check_ulog_valid(p, m) IN
          Healthy(q, Formats) /\ q.formats_ = p.formats_
    BY <2>2, HealthyKeyed
  <2> QED
    BY <2>1, <2>3, ReadKeeps
<1>3. CASE item.kind \in {"data", "bigdata"}
  <2> DEFINE m == ULogMessageA("T", 0, 0, item.id)
  <2>1. Message(item) = m
    BY <1>1, <1>3 DEF Message
  <2>2. m.type = "A" /\ m.data.type = "D" /\ m.name = "T"
    BY DEF ULogMessageA, ULogMessageD
  <2>3. Decodable(p, Formats, "T")
    BY OwnType DEF Decodable, NoFormat
  <2> HIDE DEF m
  <2>4. LET q == check_ulog_valid(p, m) IN
          Healthy(q, Formats) /\ q.formats_ = p.formats_
    BY <2>2, <2>3, HealthyData
  <2> QED
    BY <2>1, <2>4, ReadKeeps
<1> QED
  BY <1>1, <1>2, <1>3

-----------------------------------------------------------------------------
(***************************************************************************)
(* Which messages are where.                                               *)
(***************************************************************************)
(* Only main_loop puts data messages on the wire.                          *)
LEMMA DataFrame ==
  ASSUME Next, NEW m \in wire' \ wire, m.type = "data"
  PROVE  MainDequeue /\ m.item = Head(net_queue_)
<1>1. CASE SyncStep
  BY <1>1 DEF SyncStep, Collect, SyncLoad, SyncSend, SyncSent, SyncRecv, SyncInc,
              SyncWait, SyncExpired, SyncFinishLoad, SyncFinish, SyncRun, Transmit,
              LoggingDataAcked
<1>2. CASE DiscardStep \/ MainStep
  BY <1>2 DEF DiscardStep, DiscardTest, Discard, MainStep, MainEnter, MainWhile,
              MainDequeue, Transmit, LoggingData
<1>3. CASE \E d \in Dispatchers : HandlerStep(d)
  BY <1>3 DEF HandlerStep, HandlerLoad, CommandDecide, CommandApply, AckCompare,
              AckApply, Transmit, CommandAck
<1>4. CASE \E c \in Clients : ClientStep(c)
  BY <1>4 DEF ClientStep, ClientControl, CommandStart, CommandStop, ResetStopAck,
              ReceiveCommandAck, ReceiveDefinition, ClientRestart, Send, Transmit,
              Command, LoggingAck, serverVars
<1>5. CASE \E kind \in Kinds : Enqueue(kind)
  BY <1>5 DEF Enqueue
<1> QED
  BY <1>1, <1>2, <1>3, <1>4, <1>5 DEF Next, ServerNext, ServerStep

(* What it sends is the first message of the queue.                        *)
LEMMA ItemWire ==
  ASSUME TypeInv, ItemInv, Next
  PROVE  \A m \in wire' : m.type = "data" => m.item \in QueueItem /\ m.item.id > 3
<1> SUFFICES ASSUME NEW m \in wire', m.type = "data"
             PROVE  m.item \in QueueItem /\ m.item.id > 3
  OBVIOUS
<1>1. CASE m \in wire
  BY <1>1 DEF ItemInv
<1>2. CASE m \notin wire
  <2>1. MainDequeue /\ m.item = Head(net_queue_)
    BY <1>2, DataFrame
  <2>2. sync_pc # "collect" /\ net_queue_ # <<>>
    BY <2>1 DEF MainDequeue, TypeInv, PhaseInv
  <2>3. /\ Len(net_queue_) \in Nat \ {0} /\ Head(net_queue_) = net_queue_[1]
        /\ Head(net_queue_) \in QueueItem
    BY <2>2, DequeueItem DEF TypeInv, QueueInv
  <2>4. 1 \in 1 .. Len(net_queue_)
    BY <2>3
  <2> QED
    BY <2>1, <2>2, <2>3, <2>4 DEF ItemInv
<1> QED
  BY <1>1, <1>2

(* A message put into the queue.                                           *)
LEMMA ItemStore ==
  ASSUME TypeInv, ItemInv, NEW kind \in Kinds, Store(kind)
  PROVE  /\ \A i \in 1 .. Len(net_queue_') :
              net_queue_'[i].id = 3 => ~ check_ulog_data_begin(net_queue_'[i])
         /\ sync_pc' # "collect" =>
              /\ Len(definitions_') >= 3
              /\ \A i \in 1 .. Len(net_queue_') : net_queue_'[i].id > 3
<1> DEFINE item == [id |-> produced + 1, kind |-> kind]
<1>1. /\ UNCHANGED <<definitions_, sync_pc>>
      /\ net_queue_' = Append(net_queue_, item)
      /\ produced < MaxItems
      /\ produced = Preamble => kind = "def"
  BY DEF Store, FormatFirst, Enqueue, syncVars
<1>2. produced \in Nat /\ Len(definitions_) \in Nat /\ Len(net_queue_) \in Nat
      /\ MaxItems \in Nat
  BY QueueTypes DEF TypeInv
<1>3. item \in QueueItem /\ item.id = produced + 1
  BY <1>1, <1>2 DEF QueueItem
<1>4. item.id = 3 => ~ check_ulog_data_begin(item)
  BY <1>1, <1>2 DEF Preamble, check_ulog_data_begin
<1>5. sync_pc # "collect" => item.id > 3
  <2>1. /\ send_cntr_ \in Nat /\ skip_cntr_ \in Nat
        /\ send_cntr_ + skip_cntr_ + Len(definitions_) + Len(net_queue_) = produced
    BY DEF TypeInv, QueueInv
  <2>2. sync_pc # "collect" => Len(definitions_) >= 3
    BY DEF ItemInv
  <2> QED
    BY <1>2, <1>3, <2>1, <2>2
<1> HIDE DEF item
<1>6. /\ Len(net_queue_') = Len(net_queue_) + 1
      /\ \A i \in 1 .. Len(net_queue_) : net_queue_'[i] = net_queue_[i]
      /\ net_queue_'[Len(net_queue_) + 1] = item
  BY <1>1, <1>3, AppendProperties DEF TypeInv, QueueInv
<1>7. \A i \in 1 .. Len(net_queue_') :
        \/ i \in 1 .. Len(net_queue_) /\ net_queue_'[i] = net_queue_[i]
        \/ i = Len(net_queue_) + 1 /\ net_queue_'[i] = item
  BY <1>2, <1>6
<1> QED
  BY <1>1, <1>4, <1>5, <1>7 DEF ItemInv

(* sync_loop collects a definition, or finds the first data message, which *)
(* is not the third one or earlier.                                        *)
LEMMA ItemCollect ==
  ASSUME TypeInv, ItemInv, Collect
  PROVE  /\ \A i \in 1 .. Len(net_queue_') :
              net_queue_'[i].id = 3 => ~ check_ulog_data_begin(net_queue_'[i])
         /\ sync_pc' # "collect" =>
              /\ Len(definitions_') >= 3
              /\ \A i \in 1 .. Len(net_queue_') : net_queue_'[i].id > 3
<1>1. sync_pc = "collect" /\ net_queue_ # <<>>
  BY DEF Collect
<1>2. /\ Len(net_queue_) \in Nat \ {0}
      /\ Head(net_queue_) = net_queue_[1]
      /\ \A i \in 1 .. Len(Tail(net_queue_)) :
           i + 1 \in 1 .. Len(net_queue_) /\ Tail(net_queue_)[i] = net_queue_[i + 1]
  BY <1>1, DequeueItem DEF TypeInv, QueueInv
<1>3. /\ Len(definitions_) \in Nat
      /\ \A i \in 1 .. Len(net_queue_) : net_queue_[i].id = Len(definitions_) + i
  BY <1>1, QueueTypes DEF TypeInv, OrderInv
<1>4. CASE check_ulog_data_begin(Head(net_queue_))
  <2>1. UNCHANGED <<net_queue_, definitions_>>
    BY <1>4 DEF Collect
  <2>2. net_queue_[1].id = Len(definitions_) + 1 /\ 1 \in 1 .. Len(net_queue_)
    BY <1>2, <1>3
  <2>3. ~ (net_queue_[1].id <= Preamble) /\ net_queue_[1].id # 3
    BY <1>2, <1>4, <2>2 DEF TypeInv, OrderInv, ItemInv
  <2>4. Len(definitions_) >= 3
    BY <1>3, <2>2, <2>3 DEF Preamble
  <2>5. \A i \in 1 .. Len(net_queue_) : net_queue_[i].id > 3
    BY <1>3, <2>4
  <2> QED
    BY <2>1, <2>4, <2>5 DEF ItemInv
<1>5. CASE ~ check_ulog_data_begin(Head(net_queue_))
  <2>1. net_queue_' = Tail(net_queue_) /\ sync_pc' = sync_pc
    BY <1>5 DEF Collect
  <2> QED
    BY <1>1, <1>2, <2>1 DEF ItemInv
<1> QED
  BY <1>4, <1>5

(* discard_loop or main_loop takes a message off the queue.                *)
LEMMA ItemTake ==
  ASSUME TypeInv, ItemInv, Discard \/ MainDequeue
  PROVE  /\ \A i \in 1 .. Len(net_queue_') :
              net_queue_'[i].id = 3 => ~ check_ulog_data_begin(net_queue_'[i])
         /\ sync_pc' # "collect" =>
              /\ Len(definitions_') >= 3
              /\ \A i \in 1 .. Len(net_queue_') : net_queue_'[i].id > 3
<1>1. /\ net_queue_ # <<>> /\ net_queue_' = Tail(net_queue_)
      /\ UNCHANGED <<definitions_, sync_pc>>
  BY DEF Discard, MainDequeue, syncVars
<1>2. \A i \in 1 .. Len(net_queue_') :
        i + 1 \in 1 .. Len(net_queue_) /\ net_queue_'[i] = net_queue_[i + 1]
  BY <1>1, DequeueItem DEF TypeInv, QueueInv
<1> QED
  BY <1>1, <1>2 DEF ItemInv

(* Only the application stores.                                            *)
LEMMA OnlyStores ==
  ASSUME ServerStep \/ \E c \in Clients : ClientStep(c)
  PROVE  produced' = produced
<1> USE DEF queueVars, serverVars
<1>1. CASE SyncStep
  BY <1>1 DEF SyncStep, Collect, SyncLoad, SyncSend, SyncSent, SyncRecv, SyncInc,
              SyncWait, SyncExpired, SyncFinishLoad, SyncFinish, SyncRun
<1>2. CASE DiscardStep \/ MainStep
  BY <1>2 DEF DiscardStep, DiscardTest, Discard, MainStep, MainEnter, MainWhile,
              MainDequeue
<1>3. CASE \E d \in Dispatchers : HandlerStep(d)
  BY <1>3 DEF HandlerStep, HandlerLoad, CommandDecide, CommandApply, AckCompare,
              AckApply
<1>4. CASE \E c \in Clients : ClientStep(c)
  BY <1>4 DEF ClientStep, ClientControl, CommandStart, CommandStop, ResetStopAck,
              ReceiveCommandAck, ReceiveDefinition, ClientRestart, Send
<1> QED
  BY <1>1, <1>2, <1>3, <1>4 DEF ServerStep

(* Every step keeps ItemInv.                                               *)
LEMMA ItemNext ==
  ASSUME TypeInv, ItemInv, [NextClient]_allVars
  PROVE  ItemInv'
<1>1. ASSUME NEW kind \in Kinds, Store(kind), UNCHANGED clientVars
      PROVE  ItemInv'
  <2>1. Next
    BY <1>1 DEF Store, Next, ServerNext
  <2> QED
    BY <1>1, <2>1, ItemStore, ItemWire DEF ItemInv
<1>2. ASSUME Next, produced' = produced
      PROVE  ItemInv'
  <2>1. \A m \in wire' : m.type = "data" => m.item \in QueueItem /\ m.item.id > 3
    BY <1>2, ItemWire
  <2>2. CASE Collect
    BY <2>1, <2>2, ItemCollect DEF ItemInv
  <2>3. CASE Discard \/ MainDequeue
    BY <2>1, <2>3, ItemTake DEF ItemInv
  <2>4. CASE /\ UNCHANGED <<produced, net_queue_, definitions_, send_cntr_, skip_cntr_>>
             /\ sync_pc' = "collect" <=> sync_pc = "collect"
    BY <2>1, <2>4 DEF ItemInv
  <2>5. ~ \E kind \in Kinds : Enqueue(kind)
    <3>1. produced \in Nat
      BY QueueTypes DEF TypeInv
    <3>2. produced' # produced + 1
      BY <1>2, <3>1
    <3> QED
      BY <3>2 DEF Enqueue
  <2> QED
    BY <1>2, <2>2, <2>3, <2>4, <2>5, Frame
<1>3. CASE UNCHANGED vars
  BY <1>3 DEF vars, serverVars, queueVars, syncVars, ItemInv
<1>4. ASSUME ServerStep, UNCHANGED clientVars
      PROVE  ItemInv'
  BY <1>2, <1>4, OnlyStores DEF Next, ServerNext
<1>5. ASSUME NEW c \in Clients, ClientStep(c)
      PROVE  ItemInv'
  BY <1>2, <1>5, OnlyStores DEF Next
<1>6. ASSUME NEW c \in Clients,
             \/ ClientControl(c)
             \/ \E m \in wire : ReadDefinition(c, m) \/ ReceiveData(c, m)
      PROVE  ClientStep(c) \/ UNCHANGED vars
  BY <1>6 DEF ClientStep, ReadDefinition, ReceiveData
<1>7. UNCHANGED allVars => UNCHANGED vars
  BY DEF allVars
<1> QED
  BY <1>1, <1>3, <1>4, <1>5, <1>6, <1>7 DEF NextClient

(* ItemInv holds in every reachable state.                                 *)
LEMMA ItemInvariant == SpecClient => []ItemInv
<1>1. InitClient => ItemInv
  <2> SUFFICES ASSUME InitClient PROVE ItemInv
    OBVIOUS
  <2>1. net_queue_ = <<>> /\ wire = {} /\ sync_pc = "collect"
    BY DEF InitClient, Init, ServerInit
  <2>2. Len(net_queue_) = 0
    BY <2>1, EmptySeq
  <2> QED
    BY <2>1, <2>2 DEF ItemInv
<1>2. TypeInv /\ ItemInv /\ [NextClient]_allVars => ItemInv'
  BY ItemNext
<1>3. SpecClient => []TypeInv
  BY ClientIsSystem, TypeInvariant, PTL
<1> QED
  BY <1>1, <1>2, <1>3, PTL DEF SpecClient

-----------------------------------------------------------------------------
(***************************************************************************)
(* The parser and the transfer.                                            *)
(***************************************************************************)
(* A parser that has been given n definitions takes the next one.          *)
LEMMA ReaderAdvance ==
  ASSUME "log" \notin Kinds, NEW p, NEW n \in Nat, ReaderOf(p, n),
         NEW item \in QueueItem, item.id = n + 1
  PROVE  ReaderOf(Read(p, item), n + 1)
<1>1. CASE n = 0
  BY <1>1, ReadHeader DEF ReaderOf
<1>2. CASE n = 1
  BY <1>2, ReadFlags DEF ReaderOf
<1>3. CASE n = 2
  BY <1>3, ReadFormat DEF ReaderOf
<1>4. CASE n >= 3
  <2>1. item.id > 3 /\ Healthy(p, Formats) /\ "T" \in DOMAIN p.formats_
    BY <1>4 DEF ReaderOf
  <2>2. Healthy(Read(p, item), Formats) /\ Read(p, item).formats_ = p.formats_
    BY <2>1, ReadItem
  <2> QED
    BY <1>4, <2>1, <2>2 DEF ReaderOf
<1> QED
  BY <1>1, <1>2, <1>3, <1>4

(* A client that receives data has parsed all definitions, so that its     *)
(* parser knows the format: the network cannot bring data forward.         *)
LEMMA ReaderData ==
  ASSUME "log" \notin Kinds, ControlInv, TransferInv, ItemInv, ReaderInv,
         NEW c \in Clients, NEW m \in wire, ReceiveData(c, m)
  PROVE  ReaderInv'
<1>1. /\ parser' = [parser EXCEPT ![c] = Read(parser[c], m.item)] /\ parsed' = parsed
      /\ m.type = "data" /\ m.dst = c
  BY DEF ReceiveData, vars, clientVars
<1>2. c = target_ /\ target_ # NoTarget /\ sync_pc = "done"
  BY <1>1 DEF TransferInv, SentInv
<1>3. /\ seq_ = Len(definitions_) /\ Len(definitions_) \in Nat /\ Len(definitions_) >= 3
  BY <1>2, TransferTypes DEF ControlInv, TypeInv, SyncInv, ItemInv
<1>4. Len(parsed[c]) \in Nat /\ Len(parsed[c]) >= 3
  <2>1. Len(parsed[c]) \in {seq_, seq_ + 1}
    BY <1>2 DEF TransferInv, ParsedInv
  <2> QED
    BY <1>3, <2>1
<1>5. Healthy(parser[c], Formats) /\ "T" \in DOMAIN parser[c].formats_
  BY <1>4 DEF ReaderInv, ReaderOf
<1>6. m.item \in QueueItem /\ m.item.id > 3
  BY <1>1 DEF ItemInv
<1>7. /\ Healthy(Read(parser[c], m.item), Formats)
      /\ Read(parser[c], m.item).formats_ = parser[c].formats_
  BY <1>5, <1>6, ReadItem
<1> DEFINE q == Read(parser[c], m.item)
           n == Len(parsed[c])
<1>8. n \in Nat /\ n >= 3 /\ Healthy(q, Formats) /\ "T" \in DOMAIN q.formats_
  BY <1>4, <1>5, <1>7
<1> HIDE DEF q, n
<1>9. ReaderOf(q, n)
  BY <1>8 DEF ReaderOf
<1> QED
  BY <1>1, <1>9 DEF ReaderInv, q, n

(* A client that receives a definition gives it to its parser when it is   *)
(* new, and only then; it is then the next one.                            *)
LEMMA ReaderDefinition ==
  ASSUME "log" \notin Kinds, ControlInv, TransferInv, ReaderInv,
         NEW c \in Clients, NEW m \in wire, ReadDefinition(c, m)
  PROVE  ReaderInv'
<1>1. /\ m.type = "data_acked" /\ m.dst = c
      /\ parsed' = IF IsNew(c, m) THEN [parsed EXCEPT ![c] = Append(parsed[c], m.item)]
                                  ELSE parsed
      /\ parser' = IF IsNew(c, m) THEN [parser EXCEPT ![c] = Read(parser[c], m.item)]
                                  ELSE parser
  BY DEF ReadDefinition, ReceiveDefinition
<1>2. CASE IsNew(c, m)
  <2> DEFINE n == Len(parsed[c])
  <2>1. /\ c = target_ /\ m.sequence \in 0 .. seq_ /\ m.sequence < Len(definitions_)
        /\ m.item = definitions_[m.sequence + 1]
    BY <1>1 DEF TransferInv, SentInv
  <2>2. /\ parsed \in [Clients -> Seq(QueueItem)] /\ parsed[c] \in Seq(QueueItem)
        /\ n \in Nat
        /\ sequence_keeper[c] = 0 .. n - 1 /\ n \in {seq_, seq_ + 1}
    BY <2>1, LenProperties DEF TransferInv, ParsedInv
  <2>3. m.sequence = n /\ n + 1 \in 1 .. Len(definitions_)
    BY <1>2, <2>1, <2>2, TransferTypes DEF IsNew
  <2>4. m.item \in QueueItem /\ m.item.id = n + 1
    BY <2>1, <2>3, QueueTypes DEF ControlInv, TypeInv, OrderInv
  <2>5. ReaderOf(Read(parser[c], m.item), n + 1)
    <3>1. ReaderOf(parser[c], n)
      BY DEF ReaderInv
    <3> QED
      BY <2>2, <2>4, <3>1, ReaderAdvance
  <2>6. Len(Append(parsed[c], m.item)) = n + 1
    BY <2>2, <2>4, AppendProperties
  <2>7. \A e \in Clients :
          /\ parsed'[e] = IF e = c THEN Append(parsed[c], m.item) ELSE parsed[e]
          /\ parser'[e] = IF e = c THEN Read(parser[c], m.item) ELSE parser[e]
    BY <1>1, <1>2, <2>2 DEF ReaderInv
  <2> HIDE DEF n
  <2>8. DOMAIN parser' = Clients
    BY <1>1, <1>2 DEF ReaderInv
  <2> QED
    BY <2>5, <2>6, <2>7, <2>8 DEF ReaderInv
<1>3. CASE ~ IsNew(c, m)
  BY <1>1, <1>3 DEF ReaderInv
<1> QED
  BY <1>2, <1>3

(* Every step keeps ReaderInv.                                             *)
LEMMA ReaderNext ==
  ASSUME "log" \notin Kinds, ControlInv, TransferInv, ItemInv, ReaderInv,
         [NextClient]_allVars
  PROVE  ReaderInv'
<1>1. CASE UNCHANGED <<parsed, parser>>
  BY <1>1 DEF ReaderInv
<1>2. ASSUME NEW c \in Clients, ClientControl(c), UNCHANGED parser
      PROVE  UNCHANGED <<parsed, parser>>
  BY <1>2 DEF ClientControl, CommandStart, CommandStop, ResetStopAck, ReceiveCommandAck,
              clientVars
<1>3. UNCHANGED <<clientVars, parser>> \/ UNCHANGED allVars =>
        UNCHANGED <<parsed, parser>>
  BY DEF clientVars, allVars, vars
<1> QED
  BY <1>1, <1>2, <1>3, ReaderData, ReaderDefinition DEF NextClient

(* The parser of the repository's client accepts all it is given, whatever *)
(* the network does to the messages and whatever discard_loop takes away:  *)
(* assert(0) behind check_ulog_valid is never reached. This is so for one  *)
(* dispatcher thread, clients that do not restart, no more definitions     *)
(* than sequence numbers, and an application that stores no log messages.  *)
(* With log messages it is false (run stream_log_first): discard_loop may  *)
(* take away the data that has to come before them.                        *)
THEOREM ClientParser ==
  ASSUME OneDispatcher, ~ Restarts, "log" \notin Kinds
  PROVE  SpecClient /\ []FewDefinitions => []ClientParserValid
<1>1. InitClient => ReaderInv
  <2> SUFFICES ASSUME InitClient PROVE ReaderInv
    OBVIOUS
  <2>1. \A c \in Clients : parsed[c] = <<>> /\ parser[c] = NewParser
    BY DEF InitClient, Init
  <2>2. Len(<<>>) = 0
    BY EmptySeq
  <2>3. \A c \in Clients : ReaderOf(parser[c], Len(parsed[c]))
    BY <2>1, <2>2 DEF ReaderOf
  <2> QED
    BY <2>3 DEF ReaderInv, InitClient
<1>2. ControlInv /\ TransferInv /\ ItemInv /\ ReaderInv
      /\ [NextClient]_allVars => ReaderInv'
  BY ReaderNext
<1>3. SpecClient /\ []FewDefinitions => []ControlInv /\ []TransferInv /\ []ItemInv
  BY ClientIsSystem, ControlInvariant, TransferInvariant, ItemInvariant, PTL
<1>4. ControlInv /\ TransferInv /\ ReaderInv => ClientParserValid
  <2> SUFFICES ASSUME ControlInv, TransferInv, ReaderInv, NEW c \in Clients
               PROVE  ~ Broken(parser[c])
    BY DEF ClientParserValid
  <2>1. Len(parsed[c]) \in Nat
    BY LenProperties DEF TransferInv, ParsedInv
  <2>2. ReaderOf(parser[c], Len(parsed[c]))
    BY DEF ReaderInv
  <2>3. CASE Len(parsed[c]) = 0
    BY <2>2, <2>3 DEF ReaderOf, Broken, NewParser
  <2>4. CASE Len(parsed[c]) = 1
    BY <2>2, <2>4 DEF ReaderOf, Broken, NewParser, To
  <2>5. CASE Len(parsed[c]) >= 2
    BY <2>2, <2>5 DEF ReaderOf, Broken, Healthy
  <2>6. \A n \in Nat : n = 0 \/ n = 1 \/ n >= 2
    OBVIOUS
  <2> QED
    BY <2>1, <2>3, <2>4, <2>5, <2>6
<1> QED
  BY <1>1, <1>2, <1>3, <1>4, PTL DEF SpecClient

=============================================================================
