# A TLA+ model of mutelemetry

mutelemetry is a C++ library that serializes an application's telemetry as
[ULog](https://docs.px4.io) messages and gives every message to two consumers:
a file logger and a network streamer. This directory models the facade the
application calls, the two consumers, the client at the other end of the
network and the parser it feeds, and checks them with TLC. Every safety property
that the passing runs check, and both refinements, are also proved with TLAPS
for all values of the constants, some of them under conditions that section 4
names; liveness is model-checked only.

Paths below are relative to the repository (`src/` here is its root).

## 1. Inventory

### Components

| component | source | state | operations |
|---|---|---|---|
| File logger | `src/mutelemetry_logger.cc`, `include/mutelemetry/mutelemetry_logger.h` | pool of 8 `DataBuffer`s, stack of free ones, current one, file, `running_`, `data_queue_` | `init`, `start`, periodic `main_loop`, `start_io_worker`, destructor (`stop`, `release`) |
| Network streamer | `src/mutelemetry_network.cc`, `…_network.h` | `state_`, `definitions_`, `seq_`, `sync_timeout_`, target address, `discarding_`, `running_`, counters | `sync_loop`, `discard_loop`, periodic `main_loop`, handlers of COMMAND_LONG and LOGGING_ACK |
| Stream client | `tests/mutelemetry_client.cc` | sequence numbers seen, `is_start_ack`, `is_stop_ack`, a parser | `connect`, `test_stop_start`, handlers of COMMAND_ACK, LOGGING_DATA, LOGGING_DATA_ACKED |
| Facade `MuTelemetry` | `src/mutelemetry.cc`, `include/mutelemetry/mutelemetry.h` | the two queues, identifier tables | `init`, `register_*`, `store_*`, `to_io` |
| ULog parser | `src/mutelemetry_parse.cc` | parser state, formats, subscriptions | `parse` and its message handlers |
| ULog checks | `src/mutelemetry_tools.cc` | none | `check_ulog_valid`, `check_ulog_data_begin` |
| Test program | `tests/mutelemetry_test.cc` | load generator | |
| muroute, muqueue, glog, MAVLink | not in the repository | `ConcQueue`, scheduler (`post_function`, `add_periodic`), router | |

### How they interact

`MuTelemetry::to_io` puts one shared pointer into `log_queue_` and one into
`net_queue_`. From then on logger and streamer share nothing, so they are
modelled separately. The scheduler runs `main_loop` of either periodically and
`sync_loop` and `discard_loop` once each, all on pool threads; the router calls
the two protocol handlers from its own threads. Inside the streamer these
threads meet in the atomic `state_`, which is changed only by
`compare_exchange_strong` (`set_state`), and in the queue.

### What is hard

* *Logger.* Buffers travel between `main_loop` and I/O jobs; a job gives its
  buffer back before it writes; a write may fail part-way and a flush may fail
  silently; all buffers may be in flight; messages that do not fill a buffer
  must still reach the disk; the destructor comes at any time.
* *Streamer.* Five activities share `state_`; the network loses, repeats and
  reorders; a resend timeout races a late acknowledgement; START and STOP come
  from several clients in any state; data must not overtake definitions.
* *Facade and parser.* Identifier tables under a mutex that is released early;
  an 8 bit identifier; a state machine that can be invalidated for good.

`PROJECT.json` lists every such hazard with its line and its properties.

### What makes each component correct

* *Logger:* each buffer has one owner and free ones are empty; no message is
  lost or repeated while the file is open; the file is a prefix of the accepted
  messages; what was accepted becomes durable; the destructor is complete.
* *Streamer and client:* definitions arrive in order and once; no data before
  them; `seq_` never runs ahead of the client; the stream has one owner; no
  assertion of the code fails; the transfer ends; `connect()` returns.
* *Facade and parser:* an identifier belongs to one name; a log the facade
  writes is a log the parser accepts, with every datum under its own type and
  instance.

## 2. Modules

| module | models | state and actions |
|---|---|---|
| `Logger` | the file logger | the members of `MutelemetryLogger` under their own names; `loop_pc` is the position in `main_loop`, a record in `jobs` is one `start_io_worker` call (copy, clear, lock, push, write, flush) |
| `FifoLog` | what the logger promises | number accepted, numbers in the file, durable length |
| `LoggerProofs` | proofs about `Logger`: types, buffer pool | |
| `LoggerMessageProofs` | the same, continued: no message is lost or written twice | |
| `LoggerFifoProofs` | the same, continued: order in the file, flushing, `FifoLog` | |
| `Streamer` | the network streamer | the members of `MutelemetryStreamer`; `sync_pc`, `disc_pc`, `main_pc` and `handler` are positions in the loops and handlers, `sync_st`, `main_st` their local copies of `state_` |
| `StreamSystem` | streamer and clients, composed over `wire` | adds the client's variables, a restart of the client; properties and fairness |
| `StreamClient` | `StreamSystem` with a `Parser` in every client | gives items of the stream their ULog contents, adds the handler of LOGGING_DATA and the parser's share of LOGGING_DATA_ACKED |
| `DefTransfer` | what the streamer promises its client | a stop-and-wait transfer followed by streaming |
| `StreamProofs` | proofs about `StreamSystem`: types, control, assertions, target | |
| `TransferProofs` | the same, continued: order of definitions and data, `DefTransfer` | |
| `StreamClientProofs` | carries these theorems over to `StreamClient`; the client's parser | |
| `MCStreamTarget` | symmetry of the clients for one run | |
| `Parser` | the ULog parser and `check_ulog_valid` | a record with the members of `MutelemetryParser`, and one operator per `parse_*` function from a state and a message to a state |
| `Telemetry` | the facade, its application, and a parser behind each queue | the members of `MuTelemetry`; `thread` is the position of an application thread in a call and the message it builds |
| `ParserProofs` | lemmas about the operators of `Parser` | |
| `TelemetryProofs` | proofs about `Telemetry`: types, identifiers, the log, what arrives | |
| `MCTelemetry` | nesting of the types, keys and symmetry, for the runs | |

A message is its position in the order of `to_io` plus what the code looks at:
its size for the logger; for the streamer whether it starts the data section
(`check_ulog_data_begin`) and whether it fits the 249 byte MAVLink field.
Mutant operators (introduced by "Mutant:") stand before the definitions they
vary; they are used only to show that a property can fail.

### Abstractions and assumptions

* A step is the work between two accesses of a thread to shared state. The
  mutexes of `DataBuffer` and of the file make `data`, `clear`, `add` and
  `write` atomic. `idx_mutex_` is a variable because `main_loop` uses
  `try_lock` on it, so that a job inside its critical section is visible.
* Inline I/O (the default) and posted I/O (`USE_POST_FUNCTION_ON_IO`) are one
  model with the constant `AsyncIO`.
* `main_loop` does not overlap itself, and the destructor runs when no
  `main_loop` and no job is executing. Both depend on the external scheduler.
* `compare_exchange_weak` may fail spuriously. In `main_loop` it cannot fail
  otherwise, because nothing else changes `curr_idx_`.
* The file is an `ofstream`: a failed write leaves a prefix and sets badbit, a
  failed flush sets badbit, and closing may or may not save what is buffered.
* Assertions are recorded in `failed` (streamer) or stated as invariants
  (logger) and execution continues, as in a build with `NDEBUG`. Dereferencing
  a null `data_queue_` ends the program (`life = "crashed"`).
* A message on the wire stays there: it may be received any number of times, in
  any order, or never. `LossySend` makes sending itself lossy, which is what
  liveness has to cope with. A client address is one value, although the code
  stores it in two bytes.
* The text of a format is the set of types its fields refer to. A key is its
  type, the place of its blank and its length, which goes into a byte
  (`key_len_`); the parser sees the word it looks for or `NoKey`. Values,
  timestamps and field names are left out. Dereferencing a null format, reading
  past the words of a key and the exception of `formats_.at` are recorded in
  `fault`. `FieldTypes` is the smallest set of types that contains those of a
  format and, for each, those its own fields refer to. `TelemetryAssumption`
  keeps `NoFormat`, `NoKey` and `Nobody` apart from real names.
* The application of `Telemetry` calls everything from every thread in any
  order. `misused` remembers the first call that breaks the order which
  `tests/mutelemetry_test.cc` keeps: a format registered once data is being
  stored, data of a type whose formats are not registered or while one is, a
  log message before any data has been stored, a key over 255 characters or
  without the word the parser needs, a parameter whose type is not one the
  parser knows (`ParamTypes`). Nothing in the API enforces this order.
  After such a call the threads finish what they do and stop. Any value, data
  or message may be too large and refused.
* The application of `StreamClient` keeps to that order; it has one type, whose
  format follows header and flags.
* In `StreamClient` what the handlers of a client's parser got is not kept: a
  message on the wire can be received any number of times. The clients of
  `StreamClient` do not restart; those of `StreamSystem` may.
* `send_ulog` posts the actual sending to the pool; since the wire reorders
  anyway, sending is part of the step that calls it.
* `multi_id_[msg_id]` outside the mutex while another thread inserts is a data
  race. Its outcomes in the model are a correct lookup and one that misses the
  entry, whereupon `operator[]` adds an empty one; a crash is left out.
* Sequence numbers are taken modulo `SeqMod`, instance identifiers modulo
  `MultiIdMod` and type identifiers modulo `MsgIdMod`; runs use either the real
  value or one that they reach exactly.

## 3. Runs

| run | question | result |
|---|---|---|
| `logger_pool` | posted I/O, failing disk: who owns which buffer and message | `TypeOK`, `PoolPartition`, `FreeBuffersEmpty`, `NoLossNoDup` hold |
| `logger_file` | inline I/O, failing disk: is the file a gapless prefix, and does everything reach the disk until it fails | implements `FifoLog`; `UnflushedPending`, `ReleasedComplete`, `EventuallyDurable` hold |
| `logger_write_error` | does `main_loop` always have a message to dequeue | violated, see findings |
| `stream_transfer` | lossy, repeating, reordering network, one client with its parser, as many definitions as sequence numbers | `TypeOK`, `DefinitionsInOrder`, `DataAfterDefinitions`, `OnlyKnownAssertsFail`, `ClientParserValid` hold; implements `DefTransfer` |
| `stream_target` | two clients with START and STOP at any time | `AcceptedOnlyTarget`, `TargetIsFinal` hold |
| `stream_progress` | does the transfer end, whatever is lost and however often the client restarts, and the queue become empty | `EventuallyStreaming` holds |
| `stream_connect` | are clients that ask for confirmation answered, the refused one and one that restarts too | `ConnectReturns` holds |
| `stream_no_reply` | is the repository's client answered | violated, see findings |
| `stream_timeout_race` | do the assertions about `state_` hold when an acknowledgement meets the timeout | violated, see findings |
| `stream_log_first` | the same with log messages behind the data | `ClientParserValid` violated, see findings |
| `telemetry_valid` | threads register and store in any order: does the parser behind each queue follow, and what breaks it | `TypeOK`, `LogIsValid`, `EveryMessageDelivered`, `IdsConsistent` hold |
| `telemetry_instances` | is data of two instances kept apart | violated, see findings |

The logger runs do not check for deadlock: a logger that is down, disabled or
crashed really stops. Nor do the facade's: its application makes a bounded
number of calls. The streamer never stops, since a client may always send.

### Bounds

* `NBuffers` 3: two jobs can hold buffers at once and the stack can be empty,
  full and in between; `LoggerAssumption` asks for at least 2.
* `MaxDataSize` 2 or 3 with sizes 1 and 2: a buffer can be filled exactly,
  overshot, and left with room. The code's 4096 only scales this.
* `MaxItems` 3 (pool) and 5 (file): enough to go through every buffer and use
  one again.
* Streamer: 3 to 5 messages, of which the first two are the header and flags
  that the facade stores itself, and in `StreamClient` the third a format; so
  there are transfers of two to four definitions, data that meets the client's
  parser before and after other data, and data and definitions that do not
  fit. `SeqMod` 4 in `stream_transfer` is the number of definitions that can be
  sent, so the last sequence number is used; with 3, definition 3 would be taken for
  definition 0. `stream_connect` needs no messages.
* `TimeoutTicks` 1 or 2 for the code's 20: with 2 an acknowledgement can fall
  before, between and after the sleeps.
* Facade: three stores by two threads, two types, three instances, one
  registration besides the two formats. Two stores at once and one that meets
  their result are enough for every interleaving of `get_multi_id`, and for a
  log message of one thread among data of another. `MultiIdMod` 2 is reached
  by two instances and exceeded by the third, `MsgIdMod` 2 is reached by two
  types. Keys have lengths on both sides of the limits 250, 255 and 256.
  Threads and instances are symmetric.
* One dispatcher thread. Two clients where ownership of the stream matters.

For the safety properties these bounds matter only for finding mistakes early:
section 4 proves them without bounds on buffers, messages, clients, threads,
types or keys.

### Fairness

* *Logger.* Weak fairness of `main_loop`, of the jobs and of time: the
  scheduler calls `main_loop` every 100 ms and pool threads run what is posted.
  Strong fairness of the two swaps: `compare_exchange_weak` may fail
  spuriously, but not at every attempt for ever.
* *Streamer.* Weak fairness for loops and for a handler that has begun. Strong
  fairness, for the code repeats them until they succeed, for sending a
  definition, receiving it, and receiving its acknowledgement or START or the
  reply to START. This is the assumption that the network does not lose every
  copy, and that the acknowledgement does not fall into the instant between
  the last sleep and the resend every time. Each question gets only what it
  needs: `TransferSpec` assumes nothing of replies to START, `ConnectSpec`
  nothing of the loops and the definitions.
* `PromptHandlers`: no 50 ms tick of the timeout passes while a handler, which
  takes microseconds, is half-way. Only the liveness runs assume it.

### Findings

1. *A failed write crashes the logger* (`logger_write_error`). `release(true)`
   sets `data_queue_` to null but `running_` stays true, and `main_loop` goes on
   to use it, against its `assert(dp != nullptr)`.
2. *`connect()` of the client never returns* (`stream_no_reply`). It asks for no
   confirmation, the streamer replies only `if (confirm)`, and the client loops
   `while (!is_start_ack)`.
3. *Timeout race* (`stream_timeout_race`). Acknowledgement handler and timeout
   both leave `ACK_WAIT` by compare-exchange and the loser runs `assert(0)`.
   `stream_transfer` shows that without assertions the outcome is harmless, and
   that no other assertion fails while definitions fit.
4. *A log message first* (`stream_log_first`). With `rt`, the default, the data
   that is stored while the definitions are sent is discarded; a log message
   may then be the first thing to be streamed, though the application stored
   data before it. The parser accepts no `L` among the definitions and stays
   invalid; the client asserts. A lost or overtaken first datum does the same.
5. *Instances are merged* (`telemetry_instances`). Subscriptions are keyed by
   `msg_id`, which instances share, and only the first is kept.

Four more weaknesses are stated inside properties that hold. *A large
definition:* one over 249 bytes reaches the `assert(0)` of `sync_loop`, and
without assertions is retried for ever; `OnlyKnownAssertsFail` says that this
and the timeout race are all. *Identifier race:* `get_multi_id` uses `multi_id_`
after releasing its mutex, and an instance may get an identifier that is taken;
`IdsConsistent` says that this, and more than 256 instances of a type, are the
only ways (`raced` remembers it). *Order of calls:* `LogIsValid` says that the log
can be invalidated only by the application (`misused`); each condition in
`misused` is needed, and one of them, a key of more than 255 characters, is an
input that `register_param` means to refuse but whose length wraps around.
*Double delivery:* `EveryMessageDelivered` says that the data handler is called
exactly twice for each datum, for `check_ulog_valid` parses it twice.

A client that restarts is answered (`stream_connect`) and does not stall the
transfer (`stream_progress`), for the client acknowledges whatever it gets; but
the streamer has no way to send it the definitions again: it asserts at the
first message.

## 4. Proofs

Each `*Proofs` module has the inductive invariant first, then lemmas, one per
group of actions that treat the state alike, with one step per conjunct, then
the lemma for `Next`, then the theorems, which combine these by temporal
logic. What is proved holds under the named assumptions on the constants
(`LoggerAssumption`, `StreamerAssumption`, `ClientAssumption`,
`TelemetryAssumption`), which say little more than that numbers are numbers and
placeholders are not names, and under the conditions below.

| theorem | states | condition |
|---|---|---|
| `PoolPartitioned`, `FreeAreEmpty`, `TypeCorrect` | `PoolPartition`, `FreeBuffersEmpty`, `TypeOK` | |
| `NothingLost` | `NoLossNoDup` | |
| `UnflushedIsPending`, `ReleaseWritesAll` | `UnflushedPending`, `ReleasedComplete` | these speak of inline I/O only |
| `ImplementsFifo` | `ImplementsFifoLog` | inline I/O |
| `StreamTypeCorrect` | `TypeOK` of `StreamSystem` | |
| `OnlyKnownAsserts`, `AcceptedIsTarget`, `TargetFinal` | `OnlyKnownAssertsFail`, `AcceptedOnlyTarget`, `TargetIsFinal` | one dispatcher thread |
| `DefinitionsArriveInOrder`, `DataComesAfterDefinitions`, `ImplementsTransfer` | `DefinitionsInOrder`, `DataAfterDefinitions`, `ImplementsDefTransfer` | and no restarts, few definitions |
| `ClientIsSystem`, `ClientTransfer` | `StreamClient` implements `StreamSystem`; the three above for it | as above |
| `ClientParser` | `ClientParserValid` | as above, and no log messages |
| `TelemetryTypeCorrect`, `LogStaysValid` | `TypeOK` of `Telemetry`, `LogIsValid` | |
| `IdentifiersConsistent`, `EveryDelivered` | `IdsConsistent`, `EveryMessageDelivered` | few types |

### The conditions

* *Inline I/O* (`~ AsyncIO`) is the default of the build. Posted jobs may
  write in any order, so the file need not be a prefix; that nothing is lost
  or written twice is proved for both.
* *One dispatcher thread* (`OneDispatcher`). The router decides it. With two,
  both may take the first START and write the target (a hazard that
  `PROJECT.json` lists).
* *No restarts* (`~ Restarts`). A client that restarts is not sent the header
  again, and its parser asserts.
* *Few definitions* (`[]FewDefinitions`). There are at most `SeqMod` of them,
  in the code 65536. The client would take number `SeqMod` for the first one,
  sent again. It is a condition on the run and not on the constants, because
  how many messages become definitions depends on when the first data is
  stored; `MaxItems` at most `SeqMod` implies it.
* *Few types* (`FewTypes`). There are at most `MsgIdMod` types, in the code
  65536; with more, two share a `msg_id_`. For the instances of a type, of which
  there can be only 256, `IdsConsistent` has the condition inside.
* *No log messages* (`"log" \notin Kinds`), without which `ClientParserValid`
  is false: finding 4.

### The logger

*Pool.* `PoolPartition` is not inductive. That a pushed buffer is empty depends
on the job having cleared it and on nobody having written to it since
(`Cleared`, with the partition itself). That a buffer stays below twice its
limit depends on a buffer that is not full having room for one message
(`Room`), and on `main_loop` adding only to such a buffer and only when there
is a message, which its program counter has to remember across the steps of
jobs (`Control`). `PoolInv` is the conjunction.

*Messages.* `NoLossNoDup` counts; the invariant `MessageInv` speaks of lists
instead: no list that holds messages (queue, current buffer, one per job,
file) has one twice (`DistinctInv`), no two share one (`DisjointInv`), and
together they are all (`CompleteInv`), as long as the file is open. The proof
first shows that every action is one of seven *effects* on these lists
(`Quiet`, `Stored`, `Taken`, `Begun`, `Advanced`, `Written`, `Closed`), where
`PoolInv` is needed, and then that the effects keep the invariant, where
buffers and program counters no longer occur. `DistinctCount` turns the result
into the count.

*File.* `FileInv` needs that there is at most one job and that nothing is put
into the current buffer meanwhile (`InlineInv`); then file, job or current
buffer, and queue hold the numbers from 1 to `produced` consecutively
(`OrderInv`). `FlushInv` says where the next flush will come from when the file
has unflushed messages: the swap of a full buffer does not flush, but
`main_loop` then goes on to add the message it has in hand. `has_data()` looks
at `data_size_`, so that size and content agree is part of it (`SizeInv`). For
`FifoLog`, each effect is mapped to one of its actions or to a stutter.

### The streamer and its clients

*Types.* Because `sync_timeout_` is compared with `==`, its bound depends on no
position of `sync_loop` stepping over the timeout (`SyncInv`). `OrderInv` says
that the definitions are the first messages in the order of `to_io`.

*Control.* What a handler has loaded from `state_` may be stale at its
compare-exchange. `StateInv` says what each position of `sync_loop` implies for
`state_`, and `CasInv` in which states nobody else acts (`INIT`, `RUNNING`,
`STOPPED`) and in which the timeout may (`ACK_WAIT`); `TargetInv` and
`AcceptedInv` tie the target to them. `ControlInv` contains
`OnlyKnownAssertsFail` itself: the timeout race and the definition that does
not fit are the two cases in which the argument does not go through.

*Transfer.* The target has parsed `seq_` definitions or one more, and one more
for sure once `sync_loop` has seen the acknowledgement (`ParsedInv`); what is
on the wire is a definition up to `seq_`, or an acknowledgement of one that has
been parsed (`SentInv`). Old copies stay on the wire, so that this must hold of
all messages ever sent; sequence numbers modulo `SeqMod` are where
`FewDefinitions` is needed. `DefTransfer` follows from the same invariant
(`TransferInv`).

*Client's parser.* `ClientIsSystem` shows that `StreamClient` does what
`StreamSystem` does, which carries the theorems over. `ReaderInv` says in
which state a parser is that has got `n` definitions, `ItemInv` that the third
message, the format, is a definition and what `main_loop` streams comes after
it.

### The parser and the facade

`ParserProofs` states facts about `parse_*` once for both users. A parser is
`Healthy` if it is past the header, in one of the two states that accept, and
its formats are those of the application; it stays healthy for a format in
`DEFINITION`, for data whose formats are complete, and so on. The rest is
about what the handlers get: `DataDelivered` (a datum is filed twice under one
series), `OtherDelivered`, `BrokenStays`.

*Types and identifiers.* `TypeInv` includes what `multi_id_mutex_` is for
(`MutexInv`): a thread that inserts a table of instances holds it, and there is
no table for its type, so none is erased. `CountInv` says that a table gives
its names the numbers 0, 1, 2 and so on; it has to speak of all tables, not
only those some message refers to. `StampInv` says that the identifiers in
every message, in the threads and in the queues, are those of the tables, for
`multi_id_` as long as no lookup has raced with an insertion.

*The log.* That a parser has met no error says nothing about the next message.
`LogInv` says, as long as the application has kept the order, that the parser
behind each queue is healthy and knows all formats whose registration has
returned (`Following`), that every message on its way is one such a parser
takes (`Expected`), and that a format on its way to the network has reached
the log (`HalfRegistered`).

*Delivery.* Each store has its own number, and a message is in a queue or on
its way there, not both (`NumberInv`). `DeliveredInv` says, of a parser that has
refused nothing, that `EveryMessageDelivered` holds of it, and that a
subscription of a `msg_id_` has the name of the type with that identifier
(`SubscribedNames`). This is where `FewTypes` is needed: the parser keeps only
the first subscription of a `msg_id_`, and files data of a later one by it.

### Only model-checked

`EventuallyDurable`, `EventuallyStreaming` and `ConnectReturns`: liveness under
fairness is out of the prover's reach. The properties that are violated (section 3,
findings) are shown so by TLC.


## 5. Not modelled

* `main_loop2` of the logger: compiled, never started (`#if 1` in `start`).
* `CHECK_PARSE_VALIDITY_*`: switched off in the source. `Telemetry` puts the
  same check behind both queues.
* Two dispatcher threads in the router, and `main_loop` overlapping itself:
  decided by libraries outside the repository.
* How soon a STOP takes effect: `main_loop` reads `state_` once and drains the
  queue with it, which the model does too, but nothing promises a bound.
* The parser's `S`, `O` and `R` messages are translated, but nothing in the
  repository writes them.
* Formatting of ULog records, MAVLink packing, glog output: data without
  control.
* Decoding of field values in the parser (`parse_data_intl`): only which
  formats it visits is modelled.
* The test program's data types and their serialization.

## 6. Plan

Built so far, in this order: `Logger` with `FifoLog`, its proofs, `Streamer`
with `StreamSystem` and `DefTransfer`, `Parser`, `Telemetry`, `StreamClient`,
then the proofs about each of them. What is left:

1. Fewer conditions. The theorems of `TransferProofs` need `~ Restarts` only
   for a client that restarts after its first definition; for the others the
   same argument should do.
2. What several dispatcher threads can do: which of the properties of the
   control hold for any number of them, besides the types.
3. The order in which posted I/O writes: each job's messages are consecutive in
   the file, which `MessageInv` does not say.
4. Instances: without the race, each series of one type is fed by the
   instances of that type only, which `EveryMessageDelivered` says for types.
