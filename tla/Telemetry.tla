----------------------------- MODULE Telemetry -----------------------------
(***************************************************************************)
(* The facade (MuTelemetry, mutelemetry.{h,cc}) and an application whose   *)
(* threads call it in any order, at any time: register information,        *)
(* parameters and formats, store data and log messages.  misused becomes   *)
(* TRUE when the application departs from what the log needs: every format *)
(* registered before the first data, data before log messages, keys that   *)
(* have their words and fit.  tests/mutelemetry_test.cc never does.  A     *)
(* call on a disabled telemetry returns at once and changes nothing, so    *)
(* the application stops when init fails.                                  *)
(*                                                                         *)
(* Each of the two queues that to_io fills is read by a parser, as         *)
(* check_ulog_valid does for the client and, when switched on, for logger  *)
(* and streamer; it has read everything the queue got.                     *)
(***************************************************************************)
EXTENDS Parser, Sequences

CONSTANTS Threads,       \* application threads
          Types,         \* names of data types
          Others,        \* the types among the fields of a type
          Annotations,   \* names of instances
          ParamKeys,     \* keys of parameters
          InfoKeys,      \* keys of information
          MaxRegister,   \* bound: information and parameters registered
          MaxStores,     \* bound: store_data and store_message calls
          MsgIdMod,      \* values of uint16_t
          MultiIdMod,    \* values of uint8_t
          Nobody         \* no thread

(* A key is the text of key_: a type, a blank and a name.  space is the    *)
(* place of the blank, len the length of the text, value_len the length    *)
(* of the value that follows.  NoFormat and NoKey stand for what is not    *)
(* there, and are no names.                                                *)
ASSUME TelemetryAssumption ==
  /\ Others \in [Types -> SUBSET Types]
  /\ \A key \in ParamKeys \cup InfoKeys :
       {key.space, key.len, key.value_len} \subseteq Nat
  /\ MaxRegister \in Nat /\ MaxStores \in Nat
  /\ MsgIdMod \in Nat \ {0} /\ MultiIdMod \in Nat \ {0}
  /\ Nobody \notin Threads
  /\ NoFormat \notin Types
  /\ \A key \in ParamKeys \cup InfoKeys : NoKey \notin {key.type, key.name}

VARIABLES
  phase,            \* before init, after it, or disabled
  with_local_log_, with_network_,
  registrations,    \* calls of register_info, register_info_multi, register_param
  stores,           \* calls of store_data and store_message
  registered,       \* formats whose registration has returned
  misused,          \* history: the application has broken the rules
  msg_id_,          \* ID<uint16_t>
  multi_id_,        \* msg_id to ID<uint8_t>
  multi_id_mutex_,  \* the thread that holds it, or nobody
  thread,           \* what each thread does
  raced,            \* history: a lookup has missed its entry
  queued,           \* 'A' and 'L' messages put into each queue
  reader            \* the parser behind each queue

idVars == <<msg_id_, multi_id_, multi_id_mutex_, raced>>
configVars == <<phase, with_local_log_, with_network_>>
appVars == <<registrations, stores, registered, misused>>
ioVars == <<queued, reader>>
vars == <<configVars, appVars, idVars, thread, ioVars>>

Queues == {"log", "net"}

is_enabled == with_local_log_ \/ with_network_
Enabled(q) == IF q = "log" THEN with_local_log_ ELSE with_network_

NewID == [id_cntr_ |-> 0, ids_ |-> Nothing]
Idle == [pc |-> "idle", msg |-> [type |-> "none"]]

Init ==
  /\ phase = "boot"
  /\ with_local_log_ = FALSE
  /\ with_network_ = FALSE
  /\ registrations = 0
  /\ stores = 0
  /\ registered = {}
  /\ misused = FALSE
  /\ msg_id_ = NewID
  /\ multi_id_ = Nothing
  /\ multi_id_mutex_ = Nobody
  /\ raced = FALSE
  /\ thread = [t \in Threads |-> Idle]
  /\ queued = [q \in Queues |-> {}]
  /\ reader = [q \in Queues |-> NewParser]

-----------------------------------------------------------------------------
(* init(): the configuration asks for log and network or not, and opening  *)
(* the file or the protocol may fail.  create_header_and_flags puts the    *)
(* first two messages into the queues.                                     *)
init ==
  /\ phase = "boot"
  /\ with_local_log_' \in BOOLEAN
  /\ with_network_' \in BOOLEAN
  /\ phase' = IF is_enabled' THEN "run" ELSE "disabled"
  /\ reader' = [q \in Queues |->
       IF Enabled(q)'
         THEN check_ulog_valid(check_ulog_valid(NewParser, ULogFileHeader),
                               ULogMessageB(FALSE))
         ELSE NewParser]
  /\ UNCHANGED <<appVars, idVars, thread, queued>>

(* to_io() puts the message into log_queue_, then into net_queue_.         *)
EnqueueTo(q, m) ==
  /\ reader' = IF Enabled(q) THEN [reader EXCEPT ![q] = check_ulog_valid(@, m)]
                             ELSE reader
  /\ queued' = IF Enabled(q) /\ m.type \in {"A", "L"}
                 THEN [queued EXCEPT ![q] = @ \cup {m}] ELSE queued

LogQueue(t) ==
  /\ thread[t].pc = "log"
  /\ EnqueueTo("log", thread[t].msg)
  /\ thread' = [thread EXCEPT ![t].pc = "net"]
  /\ UNCHANGED <<configVars, appVars, idVars>>

NetQueue(t) ==
  /\ thread[t].pc = "net"
  /\ EnqueueTo("net", thread[t].msg)
  /\ thread' = [thread EXCEPT ![t] = Idle]
  /\ registered' = registered \cup
       (IF thread[t].msg.type = "F" THEN {thread[t].msg.name} ELSE {})
  /\ UNCHANGED <<configVars, registrations, stores, misused, idVars>>

ToIO(m) == [pc |-> "log", msg |-> m]

(* Bound: an application that has broken the rules makes no further calls; *)
(* those under way end.                                                    *)
MayCall(t) == phase = "run" /\ thread[t].pc = "idle" /\ ~ misused

-----------------------------------------------------------------------------
(* The length of a key goes into a byte.                                   *)
KeyLenMod == 256
KeySize == 255

key_len_(key) == key.len % KeyLenMod

(* What goes behind the key has to end before the end of the field.        *)
ValueFits(key) == key.value_len < KeySize - key_len_(key)

(* Common to all: bad is a key the log cannot take.                        *)
Register(t, key, m, bad) ==
  /\ MayCall(t)
  /\ registrations < MaxRegister /\ registrations' = registrations + 1
  /\ misused' = bad
  /\ thread' = IF ValueFits(key) THEN [thread EXCEPT ![t] = ToIO(m)] ELSE thread
  /\ UNCHANGED <<configVars, stores, registered, idVars, ioVars>>

TooLong(key) == key.len > KeySize

(* parse_param finds the type if the blank behind it is there, and takes   *)
(* two of the types an application may have written.                       *)
register_param(t, key) ==
  Register(t, key,
           ULogMessageP(IF key_len_(key) > key.space THEN key.type ELSE NoKey),
           TooLong(key) \/ key.len <= key.space \/ key.type \notin ParamTypes)

(* parse_info finds the name if it has a character at least.               *)
register_info(t, key) ==
  Register(t, key,
           ULogMessageI(IF key_len_(key) > key.space + 1 THEN key.name ELSE NoKey),
           TooLong(key) \/ key.len <= key.space + 1)

(* parse_multi does not look at the key.                                   *)
register_info_multi(t, key) == Register(t, key, ULogMessageM, FALSE)

(* Formats under way to the queues.                                        *)
Registering == {thread[t].msg.name : t \in {u \in Threads : thread[u].msg.type = "F"}}

(* The application registers a format once, and before it stores data.     *)
register_data_format(t, name) ==
  /\ MayCall(t)
  /\ name \notin registered \cup Registering
  /\ misused' = (DOMAIN msg_id_.ids_ # {})
  /\ thread' = [thread EXCEPT ![t] = ToIO(ULogMessageF(name, Others[name]))]
  /\ UNCHANGED <<configVars, registrations, stores, registered, idVars, ioVars>>

-----------------------------------------------------------------------------
(* Mutant: the counter stays where it is.                                  *)
get_id_same(id, name, mod) ==
  IF name \in DOMAIN id.ids_ THEN id
  ELSE [id EXCEPT !.ids_ = Put(id.ids_, name, id.id_cntr_)]

(* ID::get_id, under its mutex: the identifier of a name is new the first  *)
(* time.  The result is the table; it maps the name to its identifier.     *)
get_id(id, name, mod) ==
  IF name \in DOMAIN id.ids_ THEN id
  ELSE [id_cntr_ |-> (id.id_cntr_ + 1) % mod, ids_ |-> Put(id.ids_, name, id.id_cntr_)]

(* store_data, up to get_msg_id.  The application has registered the type, *)
(* the types of its fields and so on, and is not registering another one.  *)
store_data(t, name, annotation) ==
  /\ MayCall(t)
  /\ stores < MaxStores /\ stores' = stores + 1
  /\ misused' = (~ FieldTypes(Others, name) \subseteq registered \/ Registering # {})
  /\ msg_id_' = get_id(msg_id_, name, MsgIdMod)
  /\ thread' = [thread EXCEPT ![t] =
       [pc  |-> "multi_id",
        msg |-> ULogMessageA(name, msg_id_'.ids_[name], 0,
                  [number |-> stores, name |-> name, annotation |-> annotation])]]
  /\ UNCHANGED <<configVars, registrations, registered, multi_id_, multi_id_mutex_,
                 raced, ioVars>>

(* Mutant: the table is searched without the mutex.                        *)
FindMultiIdUnlocked(t) ==
  /\ thread[t].pc = "multi_id"
  /\ IF thread[t].msg.msg_id_ \in DOMAIN multi_id_
       THEN thread' = [thread EXCEPT ![t].pc = "lookup"]
       ELSE thread' = [thread EXCEPT ![t].pc = "insert"]
  /\ UNCHANGED <<configVars, appVars, idVars, ioVars>>

(* get_multi_id: the mutex is taken, and kept if msg_id is new.            *)
FindMultiId(t) ==
  /\ thread[t].pc = "multi_id"
  /\ multi_id_mutex_ = Nobody
  /\ IF thread[t].msg.msg_id_ \in DOMAIN multi_id_
       THEN /\ thread' = [thread EXCEPT ![t].pc = "lookup"]
            /\ UNCHANGED multi_id_mutex_
       ELSE /\ thread' = [thread EXCEPT ![t].pc = "insert"]
            /\ multi_id_mutex_' = t
  /\ UNCHANGED <<configVars, appVars, msg_id_, multi_id_, raced, ioVars>>

InsertMultiId(t) ==
  /\ thread[t].pc = "insert"
  /\ multi_id_' = Put(multi_id_, thread[t].msg.msg_id_, NewID)
  /\ multi_id_mutex_' = Nobody
  /\ thread' = [thread EXCEPT ![t].pc = "lookup"]
  /\ UNCHANGED <<configVars, appVars, msg_id_, raced, ioVars>>

(* The table is used after the mutex is released.  While another thread    *)
(* inserts, that is a data race: the lookup may miss the entry, and        *)
(* operator[] then adds an empty one.                                      *)
LookupMultiId(t) ==
  LET m == thread[t].msg
      annotation == m.data.datum.annotation IN
  /\ thread[t].pc = "lookup"
  /\ \E missed \in {FALSE, multi_id_mutex_ # Nobody} :
       LET id == IF missed THEN NewID ELSE multi_id_[m.msg_id_]
           new == get_id(id, annotation, MultiIdMod) IN
         /\ multi_id_' = [multi_id_ EXCEPT ![m.msg_id_] = new]
         /\ raced' = (raced \/ missed)
         /\ thread' = [thread EXCEPT ![t].pc = "size",
                                     ![t].msg.multi_id_ = new.ids_[annotation]]
  /\ UNCHANGED <<configVars, appVars, msg_id_, multi_id_mutex_, ioVars>>

(* Data that is too large for a message is refused.                        *)
TestSize(t) ==
  /\ thread[t].pc = "size"
  /\ \/ thread' = [thread EXCEPT ![t].pc = "log"]
     \/ thread' = [thread EXCEPT ![t] = Idle]
  /\ UNCHANGED <<configVars, appVars, idVars, ioVars>>

(* Some store_data has returned: its data is in the queues.                *)
DataStored == \A q \in Queues : Enabled(q) => \E m \in queued[q] : m.type = "A"

(* store_message refuses what does not fit.                                *)
store_message(t) ==
  /\ MayCall(t)
  /\ stores < MaxStores /\ stores' = stores + 1
  /\ \/ /\ thread' = [thread EXCEPT ![t] = ToIO(ULogMessageL(stores))]
        /\ misused' = ~ DataStored
     \/ UNCHANGED <<thread, misused>>
  /\ UNCHANGED <<configVars, registrations, registered, idVars, ioVars>>

ThreadStep(t) ==
  \/ \E key \in ParamKeys : register_param(t, key)
  \/ \E key \in InfoKeys : register_info(t, key) \/ register_info_multi(t, key)
  \/ \E name \in Types : register_data_format(t, name)
  \/ \E name \in Types, annotation \in Annotations : store_data(t, name, annotation)
  \/ FindMultiId(t) \/ InsertMultiId(t) \/ LookupMultiId(t) \/ TestSize(t)
  \/ store_message(t)
  \/ LogQueue(t) \/ NetQueue(t)

Next == init \/ \E t \in Threads : ThreadStep(t)

Spec == Init /\ [][Next]_vars

-----------------------------------------------------------------------------
IsID(id, Names, mod) ==
  /\ id.id_cntr_ \in 0 .. mod - 1
  /\ DOMAIN id.ids_ \subseteq Names
  /\ \A name \in DOMAIN id.ids_ : id.ids_[name] \in 0 .. mod - 1

(* Types, and the discipline of multi_id_mutex_ in get_multi_id: who holds *)
(* it is about to insert, and whoever looks up has an entry to find.       *)
TypeOK ==
  /\ phase \in {"boot", "disabled", "run"}
  /\ {with_local_log_, with_network_, misused, raced} \subseteq BOOLEAN
  /\ registrations \in 0 .. MaxRegister /\ stores \in 0 .. MaxStores
  /\ registered \subseteq Types
  /\ IsID(msg_id_, Types, MsgIdMod)
  /\ \A i \in DOMAIN multi_id_ : IsID(multi_id_[i], Annotations, MultiIdMod)
  /\ multi_id_mutex_ \in Threads \cup {Nobody}
  /\ \A t \in Threads :
       /\ thread[t].pc \in {"idle", "multi_id", "insert", "lookup", "size", "log", "net"}
       /\ thread[t].msg.type \in ULogMessageType \cup {"none"}
       /\ thread[t].pc = "insert" <=> multi_id_mutex_ = t
       /\ thread[t].pc = "lookup" => thread[t].msg.msg_id_ \in DOMAIN multi_id_
  /\ \A q \in Queues :
       /\ reader[q].state_ \in ParseState
       /\ \A m \in queued[q] : m.type \in {"A", "L"}

(* Whatever threads do at the same time, in neither queue does a message   *)
(* overtake what it depends on (to_io takes no lock over the two): as long *)
(* as the application has kept to its order of calls, parse() is not       *)
(* INVALID and no format is missing when data is decoded, so that no       *)
(* assert(0) behind check_ulog_valid fails.                                *)
LogIsValid == \A q \in Queues : Broken(reader[q]) => misused

(* The handlers of a valid log get all that store_data and store_message   *)
(* put into the queue and nothing else: a log message once, a datum twice, *)
(* for check_ulog_valid parses it twice, both times in the same series and *)
(* under the name of its own type: identifiers that get_id gives to        *)
(* concurrent threads lead back to the right subscription.                 *)
EveryMessageDelivered ==
  \A q \in Queues :
    LET data == {m \in queued[q] : m.type = "A"}
        logs == {m.message_ : m \in {n \in queued[q] : n.type = "L"}}
        got  == reader[q].delivered IN
      ~ Broken(reader[q]) =>
        /\ reader[q].message_logs_ = SetToBag(logs)
        /\ \A d \in DOMAIN got : got[d] = 2 /\ \E m \in data : m.data.datum = d.datum
        /\ \A m \in data : \E d \in DOMAIN got :
             /\ d.datum = m.data.datum /\ d.series[1] = m.name
             /\ \A e \in DOMAIN got : e.datum = d.datum => e = d

(* store_data stamps messages of the same type with the same msg_id and    *)
(* messages of the same type and annotation with the same multi_id, and    *)
(* different ones with different identifiers, whichever threads store      *)
(* them, up to the last value of uint8_t (get_msg_id, get_multi_id).  A    *)
(* multi_id can go wrong only through a lookup that missed its entry       *)
(* because get_multi_id had given the mutex up, never through two threads  *)
(* that are the first to store a type.                                     *)
IdsConsistent ==
  \A q \in Queues : \A m, n \in {a \in queued[q] : a.type = "A"} :
    LET a == m.data.datum.annotation
        b == n.data.datum.annotation IN
    /\ m.name = n.name <=> m.msg_id_ = n.msg_id_
    /\ m.name = n.name /\ ~ raced =>
         /\ a = b => m.multi_id_ = n.multi_id_
         /\ a # b /\ m.multi_id_ = n.multi_id_ =>
              Cardinality(DOMAIN multi_id_[m.msg_id_].ids_) > MultiIdMod

(* The annotation of store_data names an instance of a type, and the       *)
(* parser keeps a series per instance (SeriesName): data in one series     *)
(* comes from one instance.                                                *)
InstancesSeparate ==
  \A q \in Queues : \A d, e \in BagToSet(reader[q].delivered) :
    d.series = e.series => d.datum.annotation = e.datum.annotation

=============================================================================
