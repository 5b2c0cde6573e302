-------------------------- MODULE TelemetryProofs ---------------------------
(***************************************************************************)
(* Proofs about the facade muTelemetry: its types, the identifiers it      *)
(* gives to types of data and to their instances, and the log it makes,    *)
(* for every number of threads, registrations and stores, every set of     *)
(* types with any nesting of their formats, all keys, and any modulus. The *)
(* application may do what tests/mutelemetry_test.cc does (misused is      *)
(* FALSE) or anything else; the properties say what holds of which.        *)
(***************************************************************************)
EXTENDS Telemetry, ParserProofs, FiniteSetTheorems, TLAPS

-----------------------------------------------------------------------------
(***************************************************************************)
(* Types. The mutex belongs to them: without it a step inside store_data   *)
(* would be undefined.                                                     *)
(***************************************************************************)
(* Where a thread is between two steps of a call.                          *)
ThreadPc == {"idle", "multi_id", "insert", "lookup", "size", "log", "net"}

(* What is found in a key as its type or its name.                         *)
Words == {NoKey} \cup {key.type : key \in ParamKeys} \cup {key.name : key \in InfoKeys}

(* Data that has been stored.                                              *)
Datum == [number : Nat, name : Types, annotation : Annotations]

(* A message 'A' with the message 'D' behind it in the same buffer.        *)
DataMessage ==
  [type : {"A"}, name : Types, msg_id_ : Nat, multi_id_ : Nat,
   data : [type : {"D"}, msg_id_ : Nat, datum : Datum]]

(* The messages a thread can hold.                                         *)
Messages ==
  DataMessage
    \cup [type : {"F"}, name : Types, others : SUBSET Types]
    \cup [type : {"P", "I"}, key : Words]
    \cup [type : {"L"}, message_ : Nat]
    \cup [type : {"M", "none"}]

(* The application and its counters.                                       *)
AppInv ==
  /\ phase \in {"boot", "disabled", "run"}
  /\ with_local_log_ \in BOOLEAN /\ with_network_ \in BOOLEAN
  /\ misused \in BOOLEAN /\ raced \in BOOLEAN
  /\ registrations \in 0 .. MaxRegister /\ stores \in 0 .. MaxStores
  /\ registered \subseteq Types

(* The tables of identifiers.                                              *)
IdInv ==
  /\ IsID(msg_id_, Types, MsgIdMod)
  /\ \A i \in DOMAIN multi_id_ : IsID(multi_id_[i], Annotations, MultiIdMod)

(* Inside store_data a thread holds a data message; on its way to the      *)
(* queues it holds some message.                                           *)
ThreadInv ==
  /\ thread \in [Threads -> [pc : ThreadPc, msg : Messages]]
  /\ \A t \in Threads :
       thread[t].pc \in {"multi_id", "insert", "lookup", "size"} =>
         thread[t].msg \in DataMessage
  /\ \A t \in Threads : thread[t].pc \in {"log", "net"} => thread[t].msg.type # "none"

(* multi_id_mutex_ is held exactly by the thread that inserts a table, and *)
(* only for a msg_id_ that has none; the thread that goes on to the lookup *)
(* has one in the map. This is what the check under the lock is for: no    *)
(* thread erases the table of another one.                                 *)
MutexInv ==
  /\ multi_id_mutex_ \in Threads \cup {Nobody}
  /\ \A t \in Threads :
       /\ thread[t].pc = "insert" <=> multi_id_mutex_ = t
       /\ thread[t].pc = "insert" => thread[t].msg.msg_id_ \notin DOMAIN multi_id_
       /\ thread[t].pc = "lookup" => thread[t].msg.msg_id_ \in DOMAIN multi_id_

(* The queues have readers, and carry data messages and log messages.      *)
QueueInv ==
  /\ DOMAIN reader = Queues /\ DOMAIN queued = Queues
  /\ \A q \in Queues :
       /\ IsParser(reader[q])
       /\ queued[q] \subseteq DataMessage \cup [type : {"L"}, message_ : Nat]

(* The inductive type invariant.                                           *)
TypeInv == AppInv /\ IdInv /\ ThreadInv /\ MutexInv /\ QueueInv

-----------------------------------------------------------------------------
(***************************************************************************)
(* The identifiers: how they are counted, and that messages keep them.     *)
(***************************************************************************)
(* A table of identifiers gives the numbers 0, 1, 2 and so on: until the   *)
(* counter wraps it is the number of names, and no two names have the same *)
(* number while there are at most mod of them.                             *)
Counted(id, mod) ==
  /\ IsFiniteSet(DOMAIN id.ids_)
  /\ Cardinality(DOMAIN id.ids_) < mod => id.id_cntr_ = Cardinality(DOMAIN id.ids_)
  /\ Cardinality(DOMAIN id.ids_) <= mod =>
       \A a, b \in DOMAIN id.ids_ :
         /\ id.ids_[a] < Cardinality(DOMAIN id.ids_)
         /\ id.ids_[a] = id.ids_[b] => a = b

(* This holds for the table of types and for each table of instances. It   *)
(* has to speak of all tables, those that no message refers to included: a *)
(* later store takes its number from them.                                 *)
CountInv ==
  /\ Counted(msg_id_, MsgIdMod)
  /\ \A i \in DOMAIN multi_id_ : Counted(multi_id_[i], MultiIdMod)

(* The msg_id_ of a message is the one its type has in the table.          *)
Stamped(m) ==
  m.name \in DOMAIN msg_id_.ids_ /\ msg_id_.ids_[m.name] = m.msg_id_

(* The multi_id_ of a message is the one its annotation has in the table   *)
(* of its type.                                                            *)
Numbered(m) ==
  /\ m.msg_id_ \in DOMAIN multi_id_
  /\ m.data.datum.annotation \in DOMAIN multi_id_[m.msg_id_].ids_
  /\ multi_id_[m.msg_id_].ids_[m.data.datum.annotation] = m.multi_id_

(* The messages that have got their identifiers, those in the threads and  *)
(* those in the queues. A lookup while another thread inserts (raced) may  *)
(* lose a table, and with it what the instances refer to.                  *)
StampInv ==
  /\ \A t \in Threads : thread[t].msg \in DataMessage =>
       /\ Stamped(thread[t].msg)
       /\ thread[t].pc \in {"size", "log", "net"} /\ ~ raced => Numbered(thread[t].msg)
  /\ \A q \in Queues : \A m \in queued[q] : m.type = "A" =>
       Stamped(m) /\ (~ raced => Numbered(m))

-----------------------------------------------------------------------------
(***************************************************************************)
(* Types of the steps.                                                     *)
(***************************************************************************)
(* get_id returns a table that has the name and all the names from before, *)
(* with the identifiers they had.                                          *)
LEMMA GetId ==
  ASSUME NEW id, NEW Names, NEW mod \in Nat \ {0}, NEW name \in Names,
         IsID(id, Names, mod)
  PROVE  /\ IsID(get_id(id, name, mod), Names, mod)
         /\ name \in DOMAIN get_id(id, name, mod).ids_
         /\ DOMAIN get_id(id, name, mod).ids_ = DOMAIN id.ids_ \cup {name}
         /\ \A a \in DOMAIN id.ids_ : get_id(id, name, mod).ids_[a] = id.ids_[a]
         /\ get_id(id, name, mod).ids_[name] \in Nat
<1>1. id.id_cntr_ \in 0 .. mod - 1 /\ (id.id_cntr_ + 1) % mod \in 0 .. mod - 1
  BY DEF IsID
<1>2. CASE name \in DOMAIN id.ids_
  BY <1>2 DEF get_id, IsID
<1>3. CASE name \notin DOMAIN id.ids_
  <2> DEFINE new == Put(id.ids_, name, id.id_cntr_)
  <2>1. get_id(id, name, mod) = [id_cntr_ |-> (id.id_cntr_ + 1) % mod, ids_ |-> new]
    BY <1>3 DEF get_id
  <2>2. /\ get_id(id, name, mod).id_cntr_ = (id.id_cntr_ + 1) % mod
        /\ get_id(id, name, mod).ids_ = new
    BY <2>1
  <2>3. /\ DOMAIN new = DOMAIN id.ids_ \cup {name}
        /\ new[name] = id.id_cntr_
        /\ \A a \in DOMAIN id.ids_ : new[a] = id.ids_[a]
    BY <1>3 DEF Put
  <2>4. DOMAIN id.ids_ \subseteq Names
        /\ \A a \in DOMAIN id.ids_ : id.ids_[a] \in 0 .. mod - 1
    BY DEF IsID
  <2> HIDE DEF new
  <2>5. \A a \in DOMAIN new : new[a] \in 0 .. mod - 1
    BY <1>1, <2>3, <2>4
  <2>6. IsID(get_id(id, name, mod), Names, mod)
    BY <1>1, <2>2, <2>3, <2>4, <2>5 DEF IsID
  <2>7. id.id_cntr_ \in Nat
    BY <1>1
  <2> QED
    BY <2>2, <2>3, <2>6, <2>7
<1> QED
  BY <1>2, <1>3

(* The initial state has the types.                                        *)
LEMMA TypeInit == Init => TypeInv
<1> SUFFICES ASSUME Init PROVE TypeInv
  OBVIOUS
<1>1. AppInv
  <2>1. MaxRegister \in Nat /\ MaxStores \in Nat
    BY TelemetryAssumption, Zenon
  <2>2. 0 \in 0 .. MaxRegister /\ 0 \in 0 .. MaxStores
    BY <2>1
  <2> QED
    BY <2>2 DEF Init, AppInv
<1>2. IdInv
  BY TelemetryAssumption DEF Init, IdInv, IsID, NewID, Nothing
<1>3. ThreadInv
  BY DEF Init, ThreadInv, ThreadPc, Messages, Idle
<1>4. MutexInv
  BY TelemetryAssumption DEF Init, MutexInv, Idle
<1>5. QueueInv
  BY NewIsParser DEF Init, QueueInv
<1> QED
  BY <1>1, <1>2, <1>3, <1>4, <1>5 DEF TypeInv

(* A thread that goes on keeps its message.                                *)
LEMMA PcChange ==
  ASSUME ThreadInv, NEW t \in Threads, NEW pc
  PROVE  [thread EXCEPT ![t].pc = pc]
           = [thread EXCEPT ![t] = [pc |-> pc, msg |-> thread[t].msg]]
<1>1. thread[t] \in [pc : ThreadPc, msg : Messages]
  BY DEF ThreadInv
<1>2. [thread[t] EXCEPT !.pc = pc] = [pc |-> pc, msg |-> thread[t].msg]
  BY <1>1
<1> QED
  BY <1>2, Zenon

(* A thread that goes on without insertion, with the mutex and the tables' *)
(* domain untouched, disturbs no other thread.                             *)
LEMMA ThreadMove ==
  ASSUME ThreadInv, MutexInv, NEW t \in Threads,
         NEW pc \in ThreadPc \ {"insert"}, NEW msg \in Messages,
         thread' = [thread EXCEPT ![t] = [pc |-> pc, msg |-> msg]],
         thread[t].pc # "insert",
         pc \in {"multi_id", "lookup", "size"} => msg \in DataMessage,
         pc = "lookup" => msg.msg_id_ \in DOMAIN multi_id_,
         pc \in {"log", "net"} => msg.type # "none",
         DOMAIN multi_id_' = DOMAIN multi_id_, multi_id_mutex_' = multi_id_mutex_
  PROVE  ThreadInv' /\ MutexInv'
<1>1. /\ thread' \in [Threads -> [pc : ThreadPc, msg : Messages]]
      /\ thread'[t].pc = pc /\ thread'[t].msg = msg
      /\ \A u \in Threads : u # t => thread'[u] = thread[u]
  BY DEF ThreadInv
<1>2. ThreadInv'
  BY <1>1 DEF ThreadInv
<1>3. MutexInv'
  BY <1>1 DEF MutexInv
<1> QED
  BY <1>2, <1>3

(* init keeps the types.                                                   *)
LEMMA TypeBoot ==
  ASSUME TypeInv, init
  PROVE  TypeInv'
<1>1. AppInv'
  BY DEF TypeInv, AppInv, init, appVars, idVars
<1>2. IdInv' /\ ThreadInv' /\ MutexInv'
  BY DEF TypeInv, IdInv, ThreadInv, MutexInv, init, idVars
<1>3. QueueInv'
  <2>1. IsParser(NewParser) /\
        IsParser(check_ulog_valid(check_ulog_valid(NewParser, ULogFileHeader),
                                  ULogMessageB(FALSE)))
    BY NewIsParser, CheckType
  <2> QED
    BY <2>1 DEF TypeInv, QueueInv, init
<1> QED
  BY <1>1, <1>2, <1>3 DEF TypeInv

(* So does a call that goes straight to the queues.                        *)
LEMMA TypeCall ==
  ASSUME TypeInv, NEW t \in Threads, NEW m \in Messages, m.type # "none",
         thread[t].pc = "idle",
         thread' = [thread EXCEPT ![t] = ToIO(m)] \/ thread' = thread,
         UNCHANGED <<idVars, ioVars>>, AppInv'
  PROVE  TypeInv'
<1>1. IdInv' /\ QueueInv'
  BY DEF TypeInv, IdInv, QueueInv, idVars, ioVars
<1>2. CASE thread' = thread
  BY <1>1, <1>2 DEF TypeInv, ThreadInv, MutexInv, idVars
<1>3. CASE thread' = [thread EXCEPT ![t] = ToIO(m)]
  <2>1. "log" \in ThreadPc \ {"insert"}
    BY DEF ThreadPc
  <2>2. ThreadInv' /\ MutexInv'
    BY <1>3, <2>1, ThreadMove DEF TypeInv, ToIO, idVars
  <2> QED
    BY <1>1, <2>2 DEF TypeInv
<1> QED
  BY <1>2, <1>3

(* The counters are numbers within their bounds.                           *)
LEMMA Bounds ==
  ASSUME AppInv
  PROVE  /\ stores \in Nat /\ registrations \in Nat
         /\ stores < MaxStores => stores + 1 \in 0 .. MaxStores
         /\ registrations < MaxRegister => registrations + 1 \in 0 .. MaxRegister
<1>1. MaxRegister \in Nat /\ MaxStores \in Nat
  BY TelemetryAssumption, Zenon
<1> QED
  BY <1>1 DEF AppInv

(* Each register function makes a message or returns early.                *)
LEMMA TypeRegister ==
  ASSUME TypeInv, NEW t \in Threads, NEW key, NEW m \in Messages, NEW bad \in BOOLEAN,
         m.type # "none", Register(t, key, m, bad)
  PROVE  TypeInv'
<1>1. AppInv'
  BY Bounds DEF TypeInv, AppInv, Register, configVars, idVars
<1>2. thread[t].pc = "idle"
  BY DEF Register, MayCall
<1> QED
  BY <1>1, <1>2, TypeCall DEF Register

(* The functions that register parameters and information.                 *)
LEMMA TypeRegistration ==
  ASSUME TypeInv, NEW t \in Threads,
         \/ \E key \in ParamKeys : register_param(t, key)
         \/ \E key \in InfoKeys : register_info(t, key) \/ register_info_multi(t, key)
  PROVE  TypeInv'
<1>1. ASSUME NEW key \in ParamKeys, register_param(t, key)
      PROVE  TypeInv'
  <2> DEFINE m == ULogMessageP(IF key_len_(key) > key.space THEN key.type ELSE NoKey)
  <2>1. m \in Messages /\ m.type # "none"
    BY DEF Messages, Words, ULogMessageP
  <2>2. (TooLong(key) \/ key.len <= key.space \/ key.type \notin ParamTypes) \in BOOLEAN
    OBVIOUS
  <2> QED
    BY <1>1, <2>1, <2>2, TypeRegister DEF register_param
<1>2. ASSUME NEW key \in InfoKeys, register_info(t, key)
      PROVE  TypeInv'
  <2> DEFINE m == ULogMessageI(IF key_len_(key) > key.space + 1 THEN key.name ELSE NoKey)
  <2>1. m \in Messages /\ m.type # "none"
    BY DEF Messages, Words, ULogMessageI
  <2>2. (TooLong(key) \/ key.len <= key.space + 1) \in BOOLEAN
    OBVIOUS
  <2> QED
    BY <1>2, <2>1, <2>2, TypeRegister DEF register_info
<1>3. ASSUME NEW key \in InfoKeys, register_info_multi(t, key)
      PROVE  TypeInv'
  <2>1. ULogMessageM \in Messages /\ ULogMessageM.type # "none"
    BY DEF Messages, ULogMessageM
  <2> QED
    BY <1>3, <2>1, TypeRegister DEF register_info_multi
<1> QED
  BY <1>1, <1>2, <1>3

(* register_data_format.                                                   *)
LEMMA TypeFormat ==
  ASSUME TypeInv, NEW t \in Threads, NEW name \in Types, register_data_format(t, name)
  PROVE  TypeInv'
<1>1. ULogMessageF(name, Others[name]) \in Messages
      /\ ULogMessageF(name, Others[name]).type # "none"
  <2>1. Others[name] \in SUBSET Types
    BY TelemetryAssumption
  <2> QED
    BY <2>1 DEF Messages, ULogMessageF
<1>2. AppInv'
  BY DEF TypeInv, AppInv, register_data_format, configVars, idVars
<1>3. thread[t].pc = "idle"
  BY DEF register_data_format, MayCall
<1> QED
  BY <1>1, <1>2, <1>3, TypeCall DEF register_data_format

(* store_message.                                                          *)
LEMMA TypeMessage ==
  ASSUME TypeInv, NEW t \in Threads, store_message(t)
  PROVE  TypeInv'
<1>1. ULogMessageL(stores) \in Messages /\ ULogMessageL(stores).type # "none"
  BY Bounds DEF TypeInv, Messages, ULogMessageL
<1>2. AppInv'
  BY Bounds DEF TypeInv, AppInv, store_message, configVars, idVars
<1>3. thread[t].pc = "idle"
  BY DEF store_message, MayCall
<1> QED
  BY <1>1, <1>2, <1>3, TypeCall DEF store_message

(* store_data as far as get_id of the type.                                *)
LEMMA TypeData ==
  ASSUME TypeInv, NEW t \in Threads, NEW name \in Types, NEW annotation \in Annotations,
         store_data(t, name, annotation)
  PROVE  TypeInv'
<1> DEFINE d == [number |-> stores, name |-> name, annotation |-> annotation]
           m == ULogMessageA(name, msg_id_'.ids_[name], 0, d)
<1>1. AppInv'
  BY Bounds DEF TypeInv, AppInv, store_data, configVars, ioVars
<1>2. MsgIdMod \in Nat \ {0}
  BY TelemetryAssumption
<1>3. msg_id_' = get_id(msg_id_, name, MsgIdMod)
  BY DEF store_data
<1>4. IsID(msg_id_, Types, MsgIdMod)
  BY DEF TypeInv, IdInv
<1>5. IsID(msg_id_', Types, MsgIdMod) /\ msg_id_'.ids_[name] \in Nat
  BY <1>2, <1>3, <1>4, GetId
<1>6. IdInv'
  BY <1>5 DEF TypeInv, IdInv, store_data
<1>7. m \in DataMessage /\ m \in Messages
  BY <1>5, Bounds DEF TypeInv, Messages, DataMessage, Datum, ULogMessageA, ULogMessageD
<1>8. thread[t].pc = "idle"
      /\ thread' = [thread EXCEPT ![t] = [pc |-> "multi_id", msg |-> m]]
  BY DEF store_data, MayCall
<1>9. "multi_id" \in ThreadPc \ {"insert"}
  BY DEF ThreadPc
<1>10. multi_id_' = multi_id_ /\ multi_id_mutex_' = multi_id_mutex_
  BY DEF store_data
<1>11. ThreadInv /\ MutexInv
  BY DEF TypeInv
<1> HIDE DEF m
<1>12. ThreadInv' /\ MutexInv'
  BY <1>7, <1>8, <1>9, <1>10, <1>11, ThreadMove
<1>13. QueueInv'
  BY DEF TypeInv, QueueInv, store_data, ioVars
<1> QED
  BY <1>1, <1>6, <1>12, <1>13 DEF TypeInv

(* The look for the table of the instances, with the lock taken when it is *)
(* not there.                                                              *)
LEMMA TypeFind ==
  ASSUME TypeInv, NEW t \in Threads, FindMultiId(t)
  PROVE  TypeInv'
<1>1. AppInv' /\ IdInv' /\ QueueInv'
  BY DEF TypeInv, AppInv, IdInv, QueueInv, FindMultiId, configVars, appVars, ioVars
<1>2. /\ thread[t] \in [pc : ThreadPc, msg : Messages] /\ thread[t].msg \in DataMessage
      /\ thread[t].pc = "multi_id" /\ multi_id_mutex_ = Nobody
      /\ ThreadInv /\ MutexInv
  BY DEF TypeInv, ThreadInv, FindMultiId
<1>3. CASE thread[t].msg.msg_id_ \in DOMAIN multi_id_
  <2>1. thread' = [thread EXCEPT ![t] = [pc |-> "lookup", msg |-> thread[t].msg]]
    BY <1>2, <1>3, PcChange DEF FindMultiId
  <2>2. "lookup" \in ThreadPc \ {"insert"}
    BY DEF ThreadPc
  <2>3. multi_id_' = multi_id_ /\ multi_id_mutex_' = multi_id_mutex_
    BY <1>3 DEF FindMultiId
  <2>4. ThreadInv' /\ MutexInv'
    BY <1>2, <1>3, <2>1, <2>2, <2>3, ThreadMove
  <2> QED
    BY <1>1, <2>4 DEF TypeInv
<1>4. CASE thread[t].msg.msg_id_ \notin DOMAIN multi_id_
  <2>1. thread' = [thread EXCEPT ![t] = [pc |-> "insert", msg |-> thread[t].msg]]
    BY <1>2, <1>4, PcChange DEF FindMultiId
  <2>2. "insert" \in ThreadPc
    BY DEF ThreadPc
  <2>3. /\ thread' \in [Threads -> [pc : ThreadPc, msg : Messages]]
        /\ thread'[t].pc = "insert" /\ thread'[t].msg = thread[t].msg
        /\ \A u \in Threads : u # t => thread'[u] = thread[u]
    BY <1>2, <2>1, <2>2 DEF ThreadInv
  <2>4. multi_id_mutex_' = t /\ multi_id_' = multi_id_
    BY <1>4 DEF FindMultiId
  <2>5. ThreadInv'
    BY <1>2, <2>3 DEF ThreadInv
  <2>6. MutexInv'
    BY <1>2, <1>4, <2>3, <2>4, TelemetryAssumption DEF MutexInv
  <2> QED
    BY <1>1, <2>5, <2>6 DEF TypeInv
<1> QED
  BY <1>3, <1>4

(* A new table.                                                            *)
LEMMA NewIdType == ASSUME NEW Names, NEW mod \in Nat \ {0} PROVE IsID(NewID, Names, mod)
  BY DEF IsID, NewID, Nothing

(* The insertion under the lock: the table is new, and the thread the only *)
(* one there.                                                              *)
LEMMA TypeInsert ==
  ASSUME TypeInv, NEW t \in Threads, InsertMultiId(t)
  PROVE  TypeInv'
<1> DEFINE i == thread[t].msg.msg_id_
<1>1. AppInv' /\ QueueInv'
  BY DEF TypeInv, AppInv, QueueInv, InsertMultiId, configVars, appVars, ioVars
<1>2. /\ thread[t] \in [pc : ThreadPc, msg : Messages] /\ thread[t].msg \in DataMessage
      /\ thread[t].pc = "insert" /\ multi_id_mutex_ = t
      /\ ThreadInv /\ MutexInv
  BY DEF TypeInv, ThreadInv, MutexInv, InsertMultiId
<1>3. /\ DOMAIN multi_id_' = DOMAIN multi_id_ \cup {i}
      /\ \A j \in DOMAIN multi_id_' :
           multi_id_'[j] = NewID \/ (j \in DOMAIN multi_id_
           /\ multi_id_'[j] = multi_id_[j])
  BY DEF InsertMultiId, Put
<1>4. IdInv'
  <2>1. IsID(NewID, Annotations, MultiIdMod)
    BY NewIdType, TelemetryAssumption
  <2>2. msg_id_' = msg_id_
    BY DEF InsertMultiId
  <2> QED
    BY <1>3, <2>1, <2>2 DEF TypeInv, IdInv
<1>5. thread' = [thread EXCEPT ![t] = [pc |-> "lookup", msg |-> thread[t].msg]]
  BY <1>2, PcChange DEF InsertMultiId
<1>6. "lookup" \in ThreadPc
  BY DEF ThreadPc
<1>7. /\ thread' \in [Threads -> [pc : ThreadPc, msg : Messages]]
      /\ thread'[t].pc = "lookup" /\ thread'[t].msg = thread[t].msg
      /\ \A u \in Threads : u # t => thread'[u] = thread[u]
  BY <1>2, <1>5, <1>6 DEF ThreadInv
<1>8. multi_id_mutex_' = Nobody
  BY DEF InsertMultiId
<1>9. ThreadInv'
  BY <1>2, <1>7 DEF ThreadInv
<1>10. MutexInv'
  <2>1. Nobody \notin Threads
    BY TelemetryAssumption
  <2> SUFFICES ASSUME NEW u \in Threads
               PROVE  /\ thread'[u].pc = "insert" <=> multi_id_mutex_' = u
                      /\ thread'[u].pc = "insert" =>
                           thread'[u].msg.msg_id_ \notin DOMAIN multi_id_'
                      /\ thread'[u].pc = "lookup" =>
                           thread'[u].msg.msg_id_ \in DOMAIN multi_id_'
    BY <1>8 DEF MutexInv
  <2>2. CASE u = t
    BY <1>3, <1>7, <1>8, <2>1, <2>2
  <2>3. CASE u # t
    BY <1>2, <1>3, <1>7, <1>8, <2>1, <2>3 DEF MutexInv
  <2> QED
    BY <2>2, <2>3
<1> QED
  BY <1>1, <1>4, <1>9, <1>10 DEF TypeInv

(* The check of the size.                                                  *)
LEMMA TypeSize ==
  ASSUME TypeInv, NEW t \in Threads, TestSize(t)
  PROVE  TypeInv'
<1>1. AppInv' /\ IdInv' /\ QueueInv'
  BY DEF TypeInv, AppInv, IdInv, QueueInv, TestSize, configVars, appVars, ioVars, idVars
<1>2. /\ ThreadInv /\ MutexInv /\ thread[t].msg \in Messages /\ thread[t].pc # "insert"
      /\ thread[t].msg.type # "none"
  BY DEF TypeInv, ThreadInv, TestSize, DataMessage
<1>3. multi_id_' = multi_id_ /\ multi_id_mutex_' = multi_id_mutex_
  BY DEF TestSize, idVars
<1>4. {"log", "idle"} \subseteq ThreadPc \ {"insert"} /\ [type |-> "none"] \in Messages
  BY DEF ThreadPc, Messages
<1>5. CASE thread' = [thread EXCEPT ![t].pc = "log"]
  <2>1. thread' = [thread EXCEPT ![t] = [pc |-> "log", msg |-> thread[t].msg]]
    BY <1>2, <1>5, PcChange
  <2>2. ThreadInv' /\ MutexInv'
    BY <1>2, <1>3, <1>4, <2>1, ThreadMove
  <2> QED
    BY <1>1, <2>2 DEF TypeInv
<1>6. CASE thread' = [thread EXCEPT ![t] = Idle]
  <2>1. ThreadInv' /\ MutexInv'
    BY <1>2, <1>3, <1>4, <1>6, ThreadMove DEF Idle
  <2> QED
    BY <1>1, <2>1 DEF TypeInv
<1> QED
  BY <1>5, <1>6 DEF TestSize

(* The table that a lookup finds: when another thread is inserting, it may *)
(* miss it and work on a new one.                                          *)
UsedTable(t, missed) == IF missed THEN NewID ELSE multi_id_[thread[t].msg.msg_id_]

(* The table after the lookup.                                             *)
GivenTable(t, missed) ==
  get_id(UsedTable(t, missed), thread[t].msg.data.datum.annotation, MultiIdMod)

(* The message with the number of its instance.                            *)
GivenMessage(t, missed) ==
  [thread[t].msg EXCEPT !.multi_id_ =
     GivenTable(t, missed).ids_[thread[t].msg.data.datum.annotation]]

(* What LookupMultiId does, with the IF resolved: either the lookup is     *)
(* right or it missed the table while the mutex was held.                  *)
LEMMA LookupEffect ==
  ASSUME TypeInv, NEW t \in Threads, LookupMultiId(t)
  PROVE  /\ thread[t].pc = "lookup" /\ thread[t].msg \in DataMessage
         /\ thread[t].msg.msg_id_ \in DOMAIN multi_id_
         /\ \E missed \in {FALSE, multi_id_mutex_ # Nobody} :
              /\ IsID(UsedTable(t, missed), Annotations, MultiIdMod)
              /\ IsID(GivenTable(t, missed), Annotations, MultiIdMod)
              /\ multi_id_' =
                   [multi_id_ EXCEPT ![thread[t].msg.msg_id_] = GivenTable(t, missed)]
              /\ raced' = (raced \/ missed)
              /\ GivenMessage(t, missed) \in DataMessage
              /\ thread' = [thread EXCEPT ![t] =
                             [pc |-> "size", msg |-> GivenMessage(t, missed)]]
<1> DEFINE m == thread[t].msg
           i == m.msg_id_
           annotation == m.data.datum.annotation
<1>1. PICK missed \in {FALSE, multi_id_mutex_ # Nobody} :
        /\ multi_id_' = [multi_id_ EXCEPT ![i] = GivenTable(t, missed)]
        /\ raced' = (raced \/ missed)
        /\ thread' = [thread EXCEPT ![t].pc = "size",
                        ![t].msg.multi_id_ = GivenTable(t, missed).ids_[annotation]]
  BY DEF LookupMultiId, GivenTable, UsedTable
<1> DEFINE new == GivenTable(t, missed)
           v == new.ids_[annotation]
<1>2. thread[t].pc = "lookup"
  BY DEF LookupMultiId
<1>3. thread[t] \in [pc : ThreadPc, msg : Messages] /\ m \in DataMessage
  BY <1>2 DEF TypeInv, ThreadInv
<1>4. i \in DOMAIN multi_id_
  BY <1>2 DEF TypeInv, MutexInv
<1>5. annotation \in Annotations
  BY <1>3 DEF DataMessage, Datum
<1>6. MultiIdMod \in Nat \ {0}
  BY TelemetryAssumption
<1>7. IsID(UsedTable(t, missed), Annotations, MultiIdMod)
  BY <1>4, <1>6, NewIdType DEF TypeInv, IdInv, UsedTable
<1>8. IsID(new, Annotations, MultiIdMod) /\ v \in Nat
  BY <1>5, <1>6, <1>7, GetId DEF GivenTable
<1>9. GivenMessage(t, missed) \in DataMessage
  BY <1>3, <1>8 DEF DataMessage, GivenMessage
<1>10. thread' = [thread EXCEPT ![t] = [pc |-> "size", msg |-> GivenMessage(t, missed)]]
  <2> DEFINE given == [m EXCEPT !.multi_id_ = v]
             r == [thread[t] EXCEPT !.pc = "size", !.msg = given]
  <2>1. [thread[t] EXCEPT !.pc = "size", !.msg.multi_id_ = v] = r
    OBVIOUS
  <2> HIDE DEF given
  <2>2. r = [pc |-> "size", msg |-> given]
    <3> DEFINE q == [thread[t] EXCEPT !.pc = "size"]
    <3>1. q \in [pc : {"size"}, msg : Messages]
      BY <1>3
    <3>2. r = [q EXCEPT !.msg = given]
      OBVIOUS
    <3> HIDE DEF q
    <3> QED
      BY <3>1, <3>2
  <2>3. thread' = [thread EXCEPT ![t] = r]
    BY <1>1, <2>1
  <2> QED
    BY <2>2, <2>3 DEF GivenMessage, given
<1> QED
  BY <1>1, <1>2, <1>3, <1>4, <1>7, <1>8, <1>9, <1>10

(* The lookup of the instance.                                             *)
LEMMA TypeLookup ==
  ASSUME TypeInv, NEW t \in Threads, LookupMultiId(t)
  PROVE  TypeInv'
<1> DEFINE i == thread[t].msg.msg_id_
<1>1. PICK missed \in {FALSE, multi_id_mutex_ # Nobody} :
        /\ IsID(GivenTable(t, missed), Annotations, MultiIdMod)
        /\ multi_id_' = [multi_id_ EXCEPT ![i] = GivenTable(t, missed)]
        /\ raced' = (raced \/ missed)
        /\ GivenMessage(t, missed) \in DataMessage
        /\ thread' =
          [thread EXCEPT ![t] = [pc |-> "size", msg |-> GivenMessage(t, missed)]]
  BY LookupEffect
<1>2. thread[t].pc = "lookup" /\ i \in DOMAIN multi_id_
  BY LookupEffect
<1>3. AppInv' /\ QueueInv'
  <2>1. raced' \in BOOLEAN
    BY <1>1
  <2> QED
    BY <2>1 DEF TypeInv, AppInv, QueueInv, LookupMultiId, configVars, appVars, ioVars
<1>4. DOMAIN multi_id_' = DOMAIN multi_id_
  BY <1>1
<1>5. IdInv'
  <2>1. msg_id_' = msg_id_
    BY DEF LookupMultiId
  <2>2. ASSUME NEW j \in DOMAIN multi_id_
        PROVE  IsID(multi_id_'[j], Annotations, MultiIdMod)
    BY <1>1 DEF TypeInv, IdInv
  <2> QED
    BY <1>4, <2>1, <2>2 DEF TypeInv, IdInv
<1>6. "size" \in ThreadPc \ {"insert"} /\ GivenMessage(t, missed) \in Messages
  BY <1>1 DEF ThreadPc, Messages
<1>7. multi_id_mutex_' = multi_id_mutex_ /\ ThreadInv /\ MutexInv
  BY DEF LookupMultiId, TypeInv
<1>8. ThreadInv' /\ MutexInv'
  BY <1>1, <1>2, <1>4, <1>6, <1>7, ThreadMove
<1> QED
  BY <1>3, <1>5, <1>8 DEF TypeInv

(* A queue takes a message and gives its reader the messages before it.    *)
LEMMA TypeEnqueue ==
  ASSUME TypeInv, NEW t \in Threads, NEW q \in Queues, EnqueueTo(q, thread[t].msg)
  PROVE  QueueInv'
<1> DEFINE m == thread[t].msg
<1>1. m \in Messages
  BY DEF TypeInv, ThreadInv
<1>2. m.type \in {"A", "L"} => m \in DataMessage \cup [type : {"L"}, message_ : Nat]
  BY <1>1 DEF Messages
<1>3. QueueInv /\ IsParser(check_ulog_valid(reader[q], m))
  BY CheckType DEF TypeInv, QueueInv
<1>4. DOMAIN reader' = Queues /\ \A p \in Queues : IsParser(reader'[p])
  BY <1>3 DEF EnqueueTo, QueueInv
<1>5. /\ DOMAIN queued' = Queues
      /\ \A p \in Queues :
           queued'[p] \subseteq DataMessage \cup [type : {"L"}, message_ : Nat]
  <2>1. CASE queued' = queued
    BY <1>3, <2>1 DEF QueueInv
  <2>2. CASE m.type \in {"A", "L"} /\ queued' = [queued EXCEPT ![q] = @ \cup {m}]
    <3> DEFINE S == DataMessage \cup [type : {"L"}, message_ : Nat]
    <3>1. m \in S
      BY <1>2, <2>2
    <3>2. DOMAIN queued = Queues /\ \A p \in Queues : queued[p] \subseteq S
      BY <1>3 DEF QueueInv
    <3> HIDE DEF S, m
    <3>3. \A p \in Queues : queued'[p] = IF p = q THEN queued[p] \cup {m} ELSE queued[p]
      BY <2>2, <3>2
    <3> QED
      BY <2>2, <3>1, <3>2, <3>3 DEF S
  <2> QED
    BY <2>1, <2>2 DEF EnqueueTo
<1> QED
  BY <1>4, <1>5 DEF QueueInv

(* The step to the queue of the logger.                                    *)
LEMMA TypeLogQueue ==
  ASSUME TypeInv, NEW t \in Threads, LogQueue(t)
  PROVE  TypeInv'
<1>1. AppInv' /\ IdInv'
  BY DEF TypeInv, AppInv, IdInv, LogQueue, configVars, appVars, idVars
<1>2. QueueInv'
  BY TypeEnqueue DEF LogQueue, Queues
<1>3. /\ ThreadInv /\ MutexInv /\ thread[t].msg \in Messages /\ thread[t].pc = "log"
      /\ thread[t].msg.type # "none"
      /\ multi_id_' = multi_id_ /\ multi_id_mutex_' = multi_id_mutex_
  BY DEF TypeInv, ThreadInv, LogQueue, idVars
<1>4. thread' = [thread EXCEPT ![t] = [pc |-> "net", msg |-> thread[t].msg]]
  BY <1>3, PcChange DEF LogQueue
<1>5. "net" \in ThreadPc \ {"insert"}
  BY DEF ThreadPc
<1>6. ThreadInv' /\ MutexInv'
  BY <1>3, <1>4, <1>5, ThreadMove
<1> QED
  BY <1>1, <1>2, <1>6 DEF TypeInv

(* The step to the queue of the network.                                   *)
LEMMA TypeNetQueue ==
  ASSUME TypeInv, NEW t \in Threads, NetQueue(t)
  PROVE  TypeInv'
<1>1. /\ ThreadInv /\ MutexInv /\ thread[t].msg \in Messages /\ thread[t].pc = "net"
      /\ multi_id_' = multi_id_ /\ multi_id_mutex_' = multi_id_mutex_
  BY DEF TypeInv, ThreadInv, NetQueue, idVars
<1>2. AppInv'
  <2>1. thread[t].msg.type = "F" => thread[t].msg.name \in Types
    BY <1>1 DEF Messages, DataMessage
  <2>2. registered' \subseteq Types
    BY <2>1 DEF NetQueue, TypeInv, AppInv
  <2> QED
    BY <2>2 DEF TypeInv, AppInv, NetQueue, configVars, idVars
<1>3. IdInv'
  BY DEF TypeInv, IdInv, NetQueue, idVars
<1>4. QueueInv'
  BY TypeEnqueue DEF NetQueue, Queues
<1>5. "idle" \in ThreadPc \ {"insert"} /\ [type |-> "none"] \in Messages
  BY DEF ThreadPc, Messages
<1>6. thread' = [thread EXCEPT ![t] = [pc |-> "idle", msg |-> [type |-> "none"]]]
  BY DEF NetQueue, Idle
<1>7. ThreadInv' /\ MutexInv'
  BY <1>1, <1>5, <1>6, ThreadMove
<1> QED
  BY <1>2, <1>3, <1>4, <1>7 DEF TypeInv

(* Every step keeps the types.                                             *)
LEMMA TypeNext ==
  ASSUME TypeInv, [Next]_vars
  PROVE  TypeInv'
<1>1. CASE init
  BY <1>1, TypeBoot
<1>2. ASSUME NEW t \in Threads, ThreadStep(t)
      PROVE  TypeInv'
  BY <1>2, TypeRegistration, TypeFormat, TypeData, TypeFind, TypeInsert, TypeLookup,
     TypeSize,
     TypeMessage, TypeLogQueue, TypeNetQueue DEF ThreadStep
<1>3. CASE UNCHANGED vars
  BY <1>3 DEF vars, configVars, appVars, idVars, ioVars, TypeInv, AppInv, IdInv,
     ThreadInv,
              MutexInv, QueueInv
<1> QED
  BY <1>1, <1>2, <1>3 DEF Next

(* TypeInv holds in every reachable state.                                 *)
LEMMA TypeInvariant == Spec => []TypeInv
  BY TypeInit, TypeNext, PTL DEF Spec

(* All variables of the facade have their types, for every application:    *)
(* the identifiers fit their integers, and a reader never gets anything    *)
(* but a parser.                                                           *)
THEOREM TelemetryTypeCorrect == Spec => []TypeOK
<1>1. TypeInv => TypeOK
  <2> SUFFICES ASSUME TypeInv PROVE TypeOK
    OBVIOUS
  <2>1. \A t \in Threads :
          /\ thread[t].pc \in ThreadPc
          /\ thread[t].msg.type \in ULogMessageType \cup {"none"}
    <3> SUFFICES ASSUME NEW t \in Threads
                 PROVE  /\ thread[t].pc \in ThreadPc
                        /\ thread[t].msg.type \in ULogMessageType \cup {"none"}
      OBVIOUS
    <3>1. thread[t].pc \in ThreadPc /\ thread[t].msg \in Messages
      BY DEF TypeInv, ThreadInv
    <3> QED
      BY <3>1 DEF Messages, DataMessage, ULogMessageType
  <2>2. \A q \in Queues : /\ reader[q].state_ \in ParseState
                          /\ \A m \in queued[q] : m.type \in {"A", "L"}
    BY DEF TypeInv, QueueInv, IsParser, DataMessage
  <2>3. AppInv /\ IdInv /\ MutexInv
    BY DEF TypeInv
  <2>4. {with_local_log_, with_network_, misused, raced} \subseteq BOOLEAN
    BY <2>3 DEF AppInv
  <2> QED
    BY <2>1, <2>2, <2>3, <2>4 DEF TypeOK, AppInv, IdInv, MutexInv, ThreadPc
<1> QED
  BY <1>1, TypeInvariant, PTL

-----------------------------------------------------------------------------
(***************************************************************************)
(* The numbering of the tables.                                            *)
(***************************************************************************)
(* get_id keeps the numbering: a new name gets the next number, and the    *)
(* counter wraps only with the table full.                                 *)
LEMMA CountStep ==
  ASSUME NEW id, NEW Names, NEW mod \in Nat \ {0}, NEW name \in Names,
         IsID(id, Names, mod), Counted(id, mod)
  PROVE  Counted(get_id(id, name, mod), mod)
<1> DEFINE D == DOMAIN id.ids_
           n == Cardinality(D)
<1>1. CASE name \in D
  BY <1>1 DEF get_id
<1>2. CASE name \notin D
  <2> DEFINE new == Put(id.ids_, name, id.id_cntr_)
             E == DOMAIN new
  <2>1. get_id(id, name, mod) = [id_cntr_ |-> (id.id_cntr_ + 1) % mod, ids_ |-> new]
    BY <1>2 DEF get_id
  <2>2. /\ get_id(id, name, mod).id_cntr_ = (id.id_cntr_ + 1) % mod
        /\ get_id(id, name, mod).ids_ = new
    BY <2>1
  <2>3. /\ E = D \cup {name} /\ new[name] = id.id_cntr_
        /\ \A a \in D : new[a] = id.ids_[a]
    BY <1>2 DEF Put
  <2>4. IsFiniteSet(D) /\ n \in Nat
    BY FS_CardinalityType DEF Counted
  <2>5. IsFiniteSet(E) /\ Cardinality(E) = n + 1
    BY <1>2, <2>3, <2>4, FS_AddElement
  <2>6. /\ n < mod => id.id_cntr_ = n
        /\ n < mod => \A a, b \in D : /\ id.ids_[a] < n
                                      /\ id.ids_[a] = id.ids_[b] => a = b
        /\ \A a \in D : id.ids_[a] \in Nat
    <3>1. \A a \in D : id.ids_[a] \in 0 .. mod - 1
      BY DEF IsID
    <3>2. n < mod => n <= mod
      BY <2>4
    <3> QED
      BY <3>1, <3>2 DEF Counted
  <2> HIDE DEF n, new, D, E
  <2>7. n + 1 < mod => (id.id_cntr_ + 1) % mod = n + 1
    BY <2>4, <2>6
  <2>8. ASSUME n + 1 <= mod, NEW a \in E, NEW b \in E
        PROVE  new[a] < n + 1 /\ (new[a] = new[b] => a = b)
    <3>1. n < mod /\ id.id_cntr_ = n
      BY <2>4, <2>6, <2>8
    <3>2. \A c \in D : new[c] \in Nat /\ new[c] < n
      BY <2>3, <2>6, <3>1
    <3>3. \A c, d \in D : new[c] = new[d] => c = d
      BY <2>3, <2>6, <3>1
    <3> QED
      BY <2>3, <2>4, <3>1, <3>2, <3>3
  <2> QED
    BY <2>2, <2>5, <2>7, <2>8 DEF Counted, E
<1> QED
  BY <1>1, <1>2

(* A new table is numbered.                                                *)
LEMMA CountNew == ASSUME NEW mod \in Nat \ {0} PROVE Counted(NewID, mod)
  BY FS_EmptySet DEF Counted, NewID, Nothing

(* The initial tables are numbered.                                        *)
LEMMA CountInit == Init => CountInv
<1>1. MsgIdMod \in Nat \ {0} /\ MultiIdMod \in Nat \ {0}
  BY TelemetryAssumption
<1> QED
  BY <1>1, CountNew DEF Init, CountInv, Nothing

(* Every step keeps the numbering of all tables.                           *)
LEMMA CountNext ==
  ASSUME TypeInv, CountInv, [Next]_vars
  PROVE  CountInv'
<1>1. MsgIdMod \in Nat \ {0} /\ MultiIdMod \in Nat \ {0}
  BY TelemetryAssumption
<1>2. CASE UNCHANGED <<msg_id_, multi_id_>>
  BY <1>2 DEF CountInv
<1>3. ASSUME NEW t \in Threads, NEW name \in Types, NEW annotation \in Annotations,
             store_data(t, name, annotation)
      PROVE  CountInv'
  <2>1. msg_id_' = get_id(msg_id_, name, MsgIdMod) /\ multi_id_' = multi_id_
    BY <1>3 DEF store_data
  <2>2. IsID(msg_id_, Types, MsgIdMod) /\ Counted(msg_id_, MsgIdMod)
    BY DEF TypeInv, IdInv, CountInv
  <2>3. Counted(msg_id_', MsgIdMod)
    BY <1>1, <2>1, <2>2, CountStep
  <2> QED
    BY <2>1, <2>3 DEF CountInv
<1>4. ASSUME NEW t \in Threads, InsertMultiId(t)
      PROVE  CountInv'
  <2>1. msg_id_' = msg_id_
    BY <1>4 DEF InsertMultiId
  <2>2. \A j \in DOMAIN multi_id_' :
          multi_id_'[j] = NewID \/ (j \in DOMAIN multi_id_
          /\ multi_id_'[j] = multi_id_[j])
    BY <1>4 DEF InsertMultiId, Put
  <2>3. Counted(NewID, MultiIdMod)
    BY <1>1, CountNew
  <2> QED
    BY <2>1, <2>2, <2>3 DEF CountInv
<1>5. ASSUME NEW t \in Threads, LookupMultiId(t)
      PROVE  CountInv'
  <2> DEFINE i == thread[t].msg.msg_id_
  <2>1. PICK missed \in {FALSE, multi_id_mutex_ # Nobody} :
          /\ IsID(UsedTable(t, missed), Annotations, MultiIdMod)
          /\ multi_id_' = [multi_id_ EXCEPT ![i] = GivenTable(t, missed)]
    BY <1>5, LookupEffect
  <2>2. i \in DOMAIN multi_id_ /\ thread[t].msg.data.datum.annotation \in Annotations
    BY <1>5, LookupEffect DEF DataMessage, Datum
  <2>3. Counted(UsedTable(t, missed), MultiIdMod)
    BY <1>1, <2>2, CountNew DEF CountInv, UsedTable
  <2>4. Counted(GivenTable(t, missed), MultiIdMod)
    BY <1>1, <2>1, <2>2, <2>3, CountStep DEF GivenTable
  <2>5. msg_id_' = msg_id_
    BY <1>5 DEF LookupMultiId
  <2>6. ASSUME NEW j \in DOMAIN multi_id_
        PROVE  Counted(multi_id_'[j], MultiIdMod)
    BY <2>1, <2>4 DEF CountInv
  <2> QED
    BY <2>1, <2>5, <2>6 DEF CountInv
<1>6. ASSUME NEW t \in Threads, ThreadStep(t)
      PROVE  \/ UNCHANGED <<msg_id_, multi_id_>>
             \/ \E name \in Types, annotation \in Annotations :
                  store_data(t, name, annotation)
             \/ InsertMultiId(t) \/ LookupMultiId(t)
  BY <1>6 DEF ThreadStep, register_param, register_info, register_info_multi, Register,
              register_data_format, FindMultiId, TestSize, store_message, LogQueue,
              NetQueue, idVars
<1> QED
  BY <1>2, <1>3, <1>4, <1>5, <1>6 DEF Next, init, vars, idVars

-----------------------------------------------------------------------------
(***************************************************************************)
(* The identifiers of messages.                                            *)
(***************************************************************************)
(* A table g has what the table f has.                                     *)
Extends(g, f) == DOMAIN f \subseteq DOMAIN g /\ \A a \in DOMAIN f : g[a] = f[a]

(* get_id never takes away or changes an identifier.                       *)
LEMMA GetIdExtends ==
  ASSUME NEW id, NEW Names, NEW mod \in Nat \ {0}, NEW name \in Names,
         IsID(id, Names, mod)
  PROVE  Extends(get_id(id, name, mod).ids_, id.ids_)
<1> DEFINE new == get_id(id, name, mod).ids_
<1>1. DOMAIN new = DOMAIN id.ids_ \cup {name}
      /\ \A a \in DOMAIN id.ids_ : new[a] = id.ids_[a]
  BY GetId
<1> HIDE DEF new
<1>2. Extends(new, id.ids_)
  BY <1>1 DEF Extends
<1> QED
  BY <1>2 DEF new

(* What a step keeps of the identifiers: those of types always, those of   *)
(* instances unless a lookup has raced with an insertion.                  *)
Kept ==
  /\ Extends(msg_id_'.ids_, msg_id_.ids_)
  /\ ~ raced' =>
       /\ ~ raced
       /\ \A i \in DOMAIN multi_id_ :
            i \in DOMAIN multi_id_' /\ Extends(multi_id_'[i].ids_, multi_id_[i].ids_)

(* Every step keeps them.                                                  *)
LEMMA KeptNext ==
  ASSUME TypeInv, [Next]_vars
  PROVE  Kept
<1>1. MsgIdMod \in Nat \ {0} /\ MultiIdMod \in Nat \ {0}
  BY TelemetryAssumption
<1>2. CASE UNCHANGED <<msg_id_, multi_id_, raced>>
  BY <1>2 DEF Kept, Extends
<1>3. ASSUME NEW t \in Threads, NEW name \in Types, NEW annotation \in Annotations,
             store_data(t, name, annotation)
      PROVE  Kept
  <2>1. msg_id_' = get_id(msg_id_, name, MsgIdMod) /\ multi_id_' = multi_id_
        /\ raced' = raced
    BY <1>3 DEF store_data
  <2>2. IsID(msg_id_, Types, MsgIdMod)
    BY DEF TypeInv, IdInv
  <2>3. Extends(msg_id_'.ids_, msg_id_.ids_)
    BY <1>1, <2>1, <2>2, GetIdExtends
  <2> QED
    BY <2>1, <2>3 DEF Kept, Extends
<1>4. ASSUME NEW t \in Threads, InsertMultiId(t)
      PROVE  Kept
  <2>1. msg_id_' = msg_id_ /\ raced' = raced
    BY <1>4 DEF InsertMultiId
  <2>2. thread[t].msg.msg_id_ \notin DOMAIN multi_id_
    BY <1>4 DEF TypeInv, MutexInv, InsertMultiId
  <2>3. \A i \in DOMAIN multi_id_ : i \in DOMAIN multi_id_'
        /\ multi_id_'[i] = multi_id_[i]
    BY <1>4, <2>2 DEF InsertMultiId, Put
  <2> QED
    BY <2>1, <2>3 DEF Kept, Extends
<1>5. ASSUME NEW t \in Threads, LookupMultiId(t)
      PROVE  Kept
  <2> DEFINE i == thread[t].msg.msg_id_
             annotation == thread[t].msg.data.datum.annotation
  <2>1. PICK missed \in {FALSE, multi_id_mutex_ # Nobody} :
          /\ IsID(UsedTable(t, missed), Annotations, MultiIdMod)
          /\ multi_id_' = [multi_id_ EXCEPT ![i] = GivenTable(t, missed)]
          /\ raced' = (raced \/ missed)
    BY <1>5, LookupEffect
  <2>2. i \in DOMAIN multi_id_ /\ annotation \in Annotations
    BY <1>5, LookupEffect DEF DataMessage, Datum
  <2>3. msg_id_' = msg_id_
    BY <1>5 DEF LookupMultiId
  <2>4. ASSUME ~ raced'
        PROVE  ~ raced /\ Extends(GivenTable(t, missed).ids_, multi_id_[i].ids_)
    <3>1. ~ raced /\ ~ missed
      BY <2>1, <2>4
    <3>2. UsedTable(t, missed) = multi_id_[i]
      BY <3>1 DEF UsedTable
    <3>3. GivenTable(t, missed) = get_id(multi_id_[i], annotation, MultiIdMod)
      BY <3>2 DEF GivenTable
    <3>4. IsID(multi_id_[i], Annotations, MultiIdMod)
      BY <2>1, <3>2
    <3> QED
      BY <1>1, <2>2, <3>1, <3>3, <3>4, GetIdExtends
  <2>5. ASSUME ~ raced', NEW j \in DOMAIN multi_id_
        PROVE  j \in DOMAIN multi_id_' /\ Extends(multi_id_'[j].ids_, multi_id_[j].ids_)
    <3>1. CASE j = i
      BY <2>1, <2>4, <2>5, <3>1
    <3>2. CASE j # i
      BY <2>1, <3>2 DEF Extends
    <3> QED
      BY <3>1, <3>2
  <2> QED
    BY <2>3, <2>4, <2>5 DEF Kept, Extends
<1>6. ASSUME NEW t \in Threads, ThreadStep(t)
      PROVE  \/ UNCHANGED <<msg_id_, multi_id_, raced>>
             \/ \E name \in Types, annotation \in Annotations :
                  store_data(t, name, annotation)
             \/ InsertMultiId(t) \/ LookupMultiId(t)
  BY <1>6 DEF ThreadStep, register_param, register_info, register_info_multi, Register,
              register_data_format, FindMultiId, TestSize, store_message, LogQueue,
              NetQueue, idVars
<1> QED
  BY <1>2, <1>3, <1>4, <1>5, <1>6 DEF Next, init, vars, idVars

(* So a message keeps being stamped and numbered.                          *)
LEMMA StampKept ==
  ASSUME Kept, NEW m
  PROVE  /\ Stamped(m) => Stamped(m)'
         /\ Numbered(m) /\ ~ raced' => Numbered(m)'
  BY DEF Kept, Extends, Stamped, Numbered

(* The message that store_data makes is stamped.                           *)
LEMMA StampData ==
  ASSUME TypeInv, NEW t \in Threads, NEW name \in Types, NEW annotation \in Annotations,
         store_data(t, name, annotation)
  PROVE  /\ thread'[t].pc = "multi_id"
         /\ thread'[t].msg.name \in DOMAIN msg_id_'.ids_
         /\ msg_id_'.ids_[thread'[t].msg.name] = thread'[t].msg.msg_id_
         /\ \A u \in Threads : u # t => thread'[u] = thread[u]
<1> DEFINE d == [number |-> stores, name |-> name, annotation |-> annotation]
           m == ULogMessageA(name, msg_id_'.ids_[name], 0, d)
<1>1. thread' = [thread EXCEPT ![t] = [pc |-> "multi_id", msg |-> m]]
  BY DEF store_data
<1>2. msg_id_' = get_id(msg_id_, name, MsgIdMod) /\ MsgIdMod \in Nat \ {0}
  BY TelemetryAssumption DEF store_data
<1>3. name \in DOMAIN msg_id_'.ids_
  BY <1>2, GetId DEF TypeInv, IdInv
<1>4. m.name = name /\ m.msg_id_ = msg_id_'.ids_[name]
  BY DEF ULogMessageA
<1> HIDE DEF m
<1> QED
  BY <1>1, <1>3, <1>4 DEF TypeInv, ThreadInv

(* The message that comes out of a lookup is numbered.                     *)
LEMMA StampLookup ==
  ASSUME TypeInv, NEW t \in Threads, LookupMultiId(t)
  PROVE  /\ thread[t].msg \in DataMessage
         /\ thread'[t].msg.name = thread[t].msg.name
         /\ thread'[t].msg.msg_id_ = thread[t].msg.msg_id_
         /\ thread'[t].msg.msg_id_ \in DOMAIN multi_id_'
         /\ thread'[t].msg.data.datum.annotation
              \in DOMAIN multi_id_'[thread'[t].msg.msg_id_].ids_
         /\ multi_id_'[thread'[t].msg.msg_id_].ids_[thread'[t].msg.data.datum.annotation]
              = thread'[t].msg.multi_id_
         /\ \A u \in Threads : u # t => thread'[u] = thread[u]
<1> DEFINE m == thread[t].msg
           i == m.msg_id_
           annotation == m.data.datum.annotation
<1>1. PICK missed \in {FALSE, multi_id_mutex_ # Nobody} :
        /\ IsID(UsedTable(t, missed), Annotations, MultiIdMod)
        /\ multi_id_' = [multi_id_ EXCEPT ![i] = GivenTable(t, missed)]
        /\ thread' =
          [thread EXCEPT ![t] = [pc |-> "size", msg |-> GivenMessage(t, missed)]]
  BY LookupEffect
<1>2. i \in DOMAIN multi_id_ /\ m \in DataMessage /\ annotation \in Annotations
  BY LookupEffect DEF DataMessage, Datum
<1>3. multi_id_'[i] = GivenTable(t, missed) /\ i \in DOMAIN multi_id_'
  BY <1>1, <1>2
<1>4. annotation \in DOMAIN GivenTable(t, missed).ids_
  BY <1>1, <1>2, GetId, TelemetryAssumption DEF GivenTable
<1>5. LET new == GivenMessage(t, missed) IN
        /\ new.name = m.name /\ new.msg_id_ = i /\ new.data = m.data
        /\ new.multi_id_ = GivenTable(t, missed).ids_[annotation]
  BY <1>2 DEF GivenMessage, DataMessage
<1>6. /\ thread'[t].msg = GivenMessage(t, missed)
      /\ \A u \in Threads : u # t => thread'[u] = thread[u]
  BY <1>1 DEF TypeInv, ThreadInv
<1> HIDE DEF m, i, annotation
<1> QED
  BY <1>2, <1>3, <1>4, <1>5, <1>6 DEF m, i, annotation

(* Where a thread is once its message has all identifiers.                 *)
Given == {"size", "log", "net"}

(* The step leaves the data message of a thread as it was.                 *)
Settled(u) ==
  thread'[u].msg \in DataMessage =>
    /\ thread'[u].msg = thread[u].msg
    /\ thread'[u].pc \in Given => thread[u].pc \in Given

(* A call that makes another kind of message.                              *)
LEMMA SettledCall ==
  ASSUME TypeInv, NEW t \in Threads, NEW m, m.type # "A",
         thread' = [thread EXCEPT ![t] = ToIO(m)] \/ thread' = thread, NEW u \in Threads
  PROVE  Settled(u)
<1>1. thread'[u] = thread[u] \/ thread'[u].msg = m
  BY DEF TypeInv, ThreadInv, ToIO
<1>2. m \notin DataMessage
  BY DEF DataMessage
<1> QED
  BY <1>1, <1>2 DEF Settled

(* A step that keeps the message.                                          *)
LEMMA SettledMove ==
  ASSUME TypeInv, NEW t \in Threads, NEW pc, pc \in Given => thread[t].pc \in Given,
         thread' = [thread EXCEPT ![t].pc = pc], NEW u \in Threads
  PROVE  Settled(u)
<1>1. thread' = [thread EXCEPT ![t] = [pc |-> pc, msg |-> thread[t].msg]]
  BY PcChange DEF TypeInv
<1>2. /\ thread'[t].pc = pc /\ thread'[t].msg = thread[t].msg
      /\ u # t => thread'[u] = thread[u]
  BY <1>1 DEF TypeInv, ThreadInv
<1> QED
  BY <1>2 DEF Settled

(* The end of a call.                                                      *)
LEMMA SettledIdle ==
  ASSUME TypeInv, NEW t \in Threads, thread' = [thread EXCEPT ![t] = Idle],
         NEW u \in Threads
  PROVE  Settled(u)
<1>1. thread'[u] = thread[u] \/ thread'[u].msg = [type |-> "none"]
  BY DEF TypeInv, ThreadInv, Idle
<1>2. [type |-> "none"] \notin DataMessage
  BY DEF DataMessage
<1> QED
  BY <1>1, <1>2 DEF Settled

(* All steps but store_data and the lookup leave the data messages as they *)
(* are.                                                                    *)
LEMMA SettledStep ==
  ASSUME TypeInv, NEW t \in Threads, ThreadStep(t),
         ~ LookupMultiId(t),
         ~ \E name \in Types, annotation \in Annotations :
             store_data(t, name, annotation),
         NEW u \in Threads
  PROVE  Settled(u)
<1>1. ASSUME NEW key, register_param(t, key)
      PROVE  Settled(u)
  <2> DEFINE m == ULogMessageP(IF key_len_(key) > key.space THEN key.type ELSE NoKey)
  <2>1. m.type # "A"
    BY DEF ULogMessageP
  <2>2. thread' = [thread EXCEPT ![t] = ToIO(m)] \/ thread' = thread
    BY <1>1 DEF register_param, Register
  <2> HIDE DEF m
  <2> QED
    BY <2>1, <2>2, SettledCall
<1>2. ASSUME NEW key, register_info(t, key)
      PROVE  Settled(u)
  <2> DEFINE m == ULogMessageI(IF key_len_(key) > key.space + 1 THEN key.name ELSE NoKey)
  <2>1. m.type # "A"
    BY DEF ULogMessageI
  <2>2. thread' = [thread EXCEPT ![t] = ToIO(m)] \/ thread' = thread
    BY <1>2 DEF register_info, Register
  <2> HIDE DEF m
  <2> QED
    BY <2>1, <2>2, SettledCall
<1>3. ASSUME NEW key, register_info_multi(t, key)
      PROVE  Settled(u)
  <2>1. ULogMessageM.type # "A"
    BY DEF ULogMessageM
  <2>2. thread' = [thread EXCEPT ![t] = ToIO(ULogMessageM)] \/ thread' = thread
    BY <1>3 DEF register_info_multi, Register
  <2> QED
    BY <2>1, <2>2, SettledCall
<1>4. ASSUME NEW name, register_data_format(t, name)
      PROVE  Settled(u)
  <2>1. ULogMessageF(name, Others[name]).type # "A"
    BY DEF ULogMessageF
  <2>2. thread' = [thread EXCEPT ![t] = ToIO(ULogMessageF(name, Others[name]))]
    BY <1>4 DEF register_data_format
  <2> QED
    BY <2>1, <2>2, SettledCall
<1>5. CASE store_message(t)
  <2>1. ULogMessageL(stores).type # "A"
    BY DEF ULogMessageL
  <2>2. thread' = [thread EXCEPT ![t] = ToIO(ULogMessageL(stores))] \/ thread' = thread
    BY <1>5 DEF store_message
  <2> QED
    BY <2>1, <2>2, SettledCall
<1>6. CASE FindMultiId(t) \/ InsertMultiId(t)
  <2>1. \E pc \in {"lookup", "insert"} : thread' = [thread EXCEPT ![t].pc = pc]
    BY <1>6 DEF FindMultiId, InsertMultiId
  <2> QED
    BY <2>1, SettledMove DEF Given
<1>7. CASE TestSize(t)
  <2>1. "size" \in Given
    BY DEF Given
  <2> QED
    BY <1>7, <2>1, SettledMove, SettledIdle DEF TestSize
<1>8. CASE LogQueue(t)
  <2>1. thread[t].pc \in Given /\ thread' = [thread EXCEPT ![t].pc = "net"]
    BY <1>8 DEF LogQueue, Given
  <2> QED
    BY <2>1, SettledMove
<1>9. CASE NetQueue(t)
  BY <1>9, SettledIdle DEF NetQueue
<1> QED
  BY <1>1, <1>2, <1>3, <1>4, <1>5, <1>6, <1>7, <1>8, <1>9 DEF ThreadStep

(* A message in a queue was there before the step or is the one of a       *)
(* thread that had all its identifiers.                                    *)
LEMMA QueueStep ==
  ASSUME TypeInv, [Next]_vars, NEW q \in Queues, NEW m \in queued'[q]
  PROVE  m \in queued[q] \/ \E t \in Threads : thread[t].pc \in Given /\ m = thread[t].msg
<1>1. CASE queued' = queued
  BY <1>1
<1>2. ASSUME NEW t \in Threads, NEW p \in Queues, thread[t].pc \in Given,
             EnqueueTo(p, thread[t].msg)
      PROVE  m \in queued[q] \/ m = thread[t].msg
  BY <1>2 DEF TypeInv, QueueInv, EnqueueTo
<1>3. ASSUME NEW t \in Threads, ThreadStep(t)
      PROVE  \/ queued' = queued
             \/ \E p \in Queues : thread[t].pc \in Given /\ EnqueueTo(p, thread[t].msg)
  BY <1>3 DEF ThreadStep, register_param, register_info, register_info_multi, Register,
              register_data_format, store_data, FindMultiId, InsertMultiId, LookupMultiId,
              TestSize, store_message, LogQueue, NetQueue, ioVars, Given, Queues
<1> QED
  BY <1>1, <1>2, <1>3 DEF Next, init, vars, ioVars

(* Initially there are no messages.                                        *)
LEMMA StampInit == Init => StampInv
<1>1. [type |-> "none"] \notin DataMessage
  BY DEF DataMessage
<1> QED
  BY <1>1 DEF Init, StampInv, Idle

(* Every step keeps the messages stamped and numbered.                     *)
LEMMA StampNext ==
  ASSUME TypeInv, StampInv, [Next]_vars
  PROVE  StampInv'
<1>1. Kept
  BY KeptNext
<1>2. ASSUME NEW u \in Threads, Settled(u), thread'[u].msg \in DataMessage
      PROVE  /\ Stamped(thread[u].msg)'
             /\ thread'[u].pc \in Given /\ ~ raced' => Numbered(thread[u].msg)'
  <2>1. PICK m : m = thread[u].msg
    OBVIOUS
  <2>2. thread'[u].msg = m /\ m \in DataMessage
        /\ (thread'[u].pc \in Given => thread[u].pc \in Given)
    BY <1>2, <2>1 DEF Settled
  <2>3. Stamped(m) /\ (thread[u].pc \in Given /\ ~ raced => Numbered(m))
    BY <2>1, <2>2 DEF StampInv, Given
  <2>4. Stamped(m)' /\ (Numbered(m) /\ ~ raced' => Numbered(m)')
    BY <1>1, <2>3, StampKept
  <2>5. ~ raced' => ~ raced
    BY <1>1 DEF Kept
  <2> QED
    BY <2>2, <2>3, <2>4, <2>5 DEF Stamped, Numbered
<1>3. ASSUME NEW u \in Threads, thread'[u].msg \in DataMessage
      PROVE  /\ Stamped(thread[u].msg)'
             /\ thread'[u].pc \in Given /\ ~ raced' => Numbered(thread[u].msg)'
  <2>1. ASSUME NEW t \in Threads, ThreadStep(t)
        PROVE  /\ Stamped(thread[u].msg)'
               /\ thread'[u].pc \in Given /\ ~ raced' => Numbered(thread[u].msg)'
    <3>1. ASSUME NEW name \in Types, NEW annotation \in Annotations,
                 store_data(t, name, annotation)
          PROVE  /\ Stamped(thread[u].msg)'
                 /\ thread'[u].pc \in Given /\ ~ raced' => Numbered(thread[u].msg)'
      <4>1. CASE u = t
        BY <3>1, <4>1, StampData DEF Given, Stamped
      <4>2. CASE u # t
        BY <1>2, <1>3, <3>1, <4>2, StampData DEF Settled
      <4> QED
        BY <4>1, <4>2
    <3>2. CASE LookupMultiId(t)
      <4>1. CASE u = t
        <5>1. Numbered(thread[u].msg)'
          BY <3>2, <4>1, StampLookup DEF Numbered
        <5>2. Stamped(thread[u].msg)'
          <6>1. thread[u].msg \in DataMessage /\ msg_id_' = msg_id_
            BY <3>2, <4>1, StampLookup DEF LookupMultiId
          <6>2. Stamped(thread[u].msg)
            BY <6>1 DEF StampInv
          <6>3. /\ thread'[u].msg.name = thread[u].msg.name
                /\ thread'[u].msg.msg_id_ = thread[u].msg.msg_id_
            BY <3>2, <4>1, StampLookup
          <6> QED
            BY <6>1, <6>2, <6>3 DEF Stamped
        <5> QED
          BY <5>1, <5>2
      <4>2. CASE u # t
        BY <1>2, <1>3, <3>2, <4>2, StampLookup DEF Settled
      <4> QED
        BY <4>1, <4>2
    <3>3. CASE /\ ~ LookupMultiId(t)
               /\ ~ \E name \in Types, annotation \in Annotations :
                      store_data(t, name, annotation)
      BY <1>2, <1>3, <2>1, <3>3, SettledStep
    <3> QED
      BY <3>1, <3>2, <3>3
  <2>2. CASE thread' = thread
    BY <1>2, <1>3, <2>2 DEF Settled
  <2> QED
    BY <2>1, <2>2 DEF Next, init, vars
<1>4. ASSUME NEW q \in Queues, NEW m \in queued'[q], m.type = "A"
      PROVE  Stamped(m)' /\ (~ raced' => Numbered(m)')
  <2>1. Stamped(m) /\ (~ raced => Numbered(m))
    <3>1. CASE m \in queued[q]
      BY <1>4, <3>1 DEF StampInv
    <3>2. ASSUME NEW t \in Threads, thread[t].pc \in Given, m = thread[t].msg
          PROVE  Stamped(m) /\ (~ raced => Numbered(m))
      <4>1. m \in Messages
        BY <3>2 DEF TypeInv, ThreadInv
      <4>2. m \in DataMessage
        BY <1>4, <4>1 DEF Messages
      <4> QED
        BY <3>2, <4>2 DEF StampInv, Given, Stamped, Numbered
    <3> QED
      BY <3>1, <3>2, QueueStep
  <2>2. ~ raced' => ~ raced
    BY <1>1 DEF Kept
  <2> QED
    BY <1>1, <2>1, <2>2, StampKept
<1> QED
  BY <1>3, <1>4 DEF StampInv, Given

(* The inductive invariant of the identifiers.                             *)
LEMMA IdentifierInvariant == Spec => [](TypeInv /\ CountInv /\ StampInv)
<1>1. Init => CountInv /\ StampInv
  BY CountInit, StampInit
<1>2. TypeInv /\ CountInv /\ StampInv /\ [Next]_vars => CountInv' /\ StampInv'
  BY CountNext, StampNext
<1> QED
  BY <1>1, <1>2, TypeInvariant, PTL DEF Spec

-----------------------------------------------------------------------------
(***************************************************************************)
(* The identifiers in the queues.                                          *)
(***************************************************************************)
(* The application has no more types of data than there are identifiers.   *)
(* The msg_id_ has 16 bits and get_id does not check for the wrap: with    *)
(* more types, two of them would share one.                                *)
FewTypes == IsFiniteSet(Types) /\ Cardinality(Types) <= MsgIdMod

(* Then no two of the types in the table have the same identifier.         *)
LEMMA TypesApart ==
  ASSUME TypeInv, CountInv, FewTypes
  PROVE  \A x, y \in DOMAIN msg_id_.ids_ : msg_id_.ids_[x] = msg_id_.ids_[y] => x = y
<1>1. DOMAIN msg_id_.ids_ \in SUBSET Types
  BY DEF TypeInv, IdInv, IsID
<1>2. Cardinality(DOMAIN msg_id_.ids_) <= Cardinality(Types)
  BY <1>1, FS_Subset DEF FewTypes
<1>3. /\ Cardinality(DOMAIN msg_id_.ids_) \in Nat /\ Cardinality(Types) \in Nat
      /\ MsgIdMod \in Nat
  BY FS_CardinalityType, TelemetryAssumption DEF CountInv, Counted, FewTypes
<1>4. Cardinality(DOMAIN msg_id_.ids_) <= MsgIdMod
  BY <1>2, <1>3 DEF FewTypes
<1> QED
  BY <1>4 DEF CountInv, Counted

(* In each queue the messages of one type have one msg_id_ and those of    *)
(* different types different ones, whatever the interleaving of the        *)
(* threads. Instances of a type are told apart in the same way unless a    *)
(* lookup raced with the insertion of a table, or more annotations were    *)
(* used than a multi_id_ can count. A reader of the log relies on nothing  *)
(* else to put a datum into its series.                                    *)
THEOREM IdentifiersConsistent ==
  ASSUME FewTypes
  PROVE  Spec => []IdsConsistent
<1>1. TypeInv /\ CountInv /\ StampInv => IdsConsistent
  <2> SUFFICES ASSUME TypeInv, CountInv, StampInv, NEW q \in Queues,
                      NEW m \in queued[q], NEW n \in queued[q], m.type = "A", n.type = "A"
               PROVE  LET a == m.data.datum.annotation
                          b == n.data.datum.annotation IN
                      /\ m.name = n.name <=> m.msg_id_ = n.msg_id_
                      /\ m.name = n.name /\ ~ raced =>
                           /\ a = b => m.multi_id_ = n.multi_id_
                           /\ a # b /\ m.multi_id_ = n.multi_id_ =>
                                Cardinality(DOMAIN multi_id_[m.msg_id_].ids_) > MultiIdMod
    BY DEF IdsConsistent
  <2> DEFINE a == m.data.datum.annotation
             b == n.data.datum.annotation
  <2>1. Stamped(m) /\ Stamped(n) /\ (~ raced => Numbered(m) /\ Numbered(n))
    BY DEF StampInv
  <2>2. m.name = n.name <=> m.msg_id_ = n.msg_id_
    BY <2>1, TypesApart DEF Stamped
  <2>3. ASSUME m.name = n.name, ~ raced
        PROVE  /\ a = b => m.multi_id_ = n.multi_id_
               /\ a # b /\ m.multi_id_ = n.multi_id_ =>
                    Cardinality(DOMAIN multi_id_[m.msg_id_].ids_) > MultiIdMod
    <3> DEFINE id == multi_id_[m.msg_id_]
    <3>1. /\ m.msg_id_ \in DOMAIN multi_id_
          /\ a \in DOMAIN id.ids_ /\ id.ids_[a] = m.multi_id_
          /\ b \in DOMAIN id.ids_ /\ id.ids_[b] = n.multi_id_
      BY <2>1, <2>2, <2>3 DEF Numbered
    <3>2. Counted(id, MultiIdMod) /\ MultiIdMod \in Nat
      BY <3>1, TelemetryAssumption DEF CountInv
    <3>3. Cardinality(DOMAIN id.ids_) \in Nat
      BY <3>2, FS_CardinalityType DEF Counted
    <3>4. Cardinality(DOMAIN id.ids_) <= MultiIdMod =>
            \A x, y \in DOMAIN id.ids_ : id.ids_[x] = id.ids_[y] => x = y
      BY <3>2 DEF Counted
    <3> HIDE DEF id, a, b
    <3>5. a # b /\ m.multi_id_ = n.multi_id_ => Cardinality(DOMAIN id.ids_) > MultiIdMod
      BY <3>1, <3>2, <3>3, <3>4
    <3> QED
      BY <3>1, <3>5 DEF id
  <2> QED
    BY <2>2, <2>3
<1> QED
  BY <1>1, IdentifierInvariant, PTL

-----------------------------------------------------------------------------
(***************************************************************************)
(* The log. What follows holds of the parser that reads each queue, which  *)
(* is the one of the repository (Parser).                                  *)
(***************************************************************************)
(* The reader of a queue is healthy, knows all formats whose registration  *)
(* has returned, and has seen data if the queue has carried data. As long  *)
(* as no data has been stored it still takes formats.                      *)
Following(q) ==
  /\ Healthy(reader[q], Others)
  /\ registered \subseteq DOMAIN reader[q].formats_
  /\ DOMAIN msg_id_.ids_ = {} => reader[q].state_ = "DEFINITION"
  /\ (\E m \in queued[q] : m.type = "A") => reader[q].state_ = "DEFINITION_OR_DATA"

(* A message on its way is one that a healthy reader takes: a format       *)
(* before all data, data with its formats registered, a log message after  *)
(* data, a parameter of a known type, an info with a key.                  *)
Expected(m) ==
  /\ m.type = "F" => m.others = Others[m.name] /\ DOMAIN msg_id_.ids_ = {}
  /\ m.type = "A" => FieldTypes(Others, m.name) \subseteq registered
  /\ m.type = "L" => DataStored
  /\ m.type = "P" => m.key \in ParamTypes
  /\ m.type = "I" => m.key # NoKey

(* A format that is on its way to the network has reached the log. (It is  *)
(* registered when it has reached both.)                                   *)
HalfRegistered(t) ==
  thread[t].pc = "net" /\ thread[t].msg.type = "F" /\ with_local_log_ =>
    thread[t].msg.name \in DOMAIN reader["log"].formats_

(* Before init returns, nothing has been registered, sent or stored, and   *)
(* nothing is ever read from a queue that is not in use.                   *)
BootInv ==
  /\ phase = "boot" =>
       /\ ~ with_local_log_ /\ ~ with_network_ /\ registered = {}
       /\ queued = [q \in Queues |-> {}]
       /\ \A t \in Threads : thread[t] = Idle
  /\ \A q \in Queues : ~ Enabled(q) => reader[q] = NewParser

(* The inductive invariant of the log. LogIsValid itself is not inductive: *)
(* that a reader has met no error says nothing about the next message. It  *)
(* needs the readers healthy, the messages in the threads expected, and    *)
(* what registered and the table of types tell about both.                 *)
LogInv ==
  /\ BootInv
  /\ ~ misused =>
       /\ \A q \in Queues : Enabled(q) => Following(q)
       /\ \A t \in Threads : Expected(thread[t].msg) /\ HalfRegistered(t)

-----------------------------------------------------------------------------
(***************************************************************************)
(* The steps keep the log valid.                                           *)
(***************************************************************************)
(* The initial state satisfies it.                                         *)
LEMMA LogInit == Init => LogInv
<1> SUFFICES ASSUME Init PROVE LogInv
  OBVIOUS
<1>1. BootInv
  BY DEF Init, BootInv
<1>2. \A q \in Queues : ~ Enabled(q)
  BY DEF Init, Enabled
<1>3. \A t \in Threads : Expected(thread[t].msg) /\ HalfRegistered(t)
  BY DEF Init, Expected, HalfRegistered, Idle
<1> QED
  BY <1>1, <1>2, <1>3 DEF LogInv

(* init gives each reader in use header and flags.                         *)
LEMMA LogBoot ==
  ASSUME TypeInv, LogInv, init
  PROVE  LogInv'
<1>1. /\ phase' # "boot" /\ registered' = {} /\ queued' = [q \in Queues |-> {}]
      /\ thread' = thread /\ \A t \in Threads : thread[t] = Idle
  BY DEF init, LogInv, BootInv, appVars
<1>2. \A q \in Queues : ~ Enabled(q)' => reader'[q] = NewParser
  BY DEF init
<1>3. ASSUME NEW q \in Queues, Enabled(q)'
      PROVE  Following(q)'
  <2>1. Healthy(reader'[q], Others) /\ reader'[q].state_ = "DEFINITION"
    BY <1>3, HealthyStart DEF init
  <2> QED
    BY <1>1, <2>1 DEF Following
<1>4. \A t \in Threads : thread'[t].pc # "net" /\ thread'[t].msg.type = "none"
  BY <1>1 DEF Idle
<1>5. \A t \in Threads : Expected(thread[t].msg)' /\ HalfRegistered(t)'
  BY <1>4 DEF Expected, HalfRegistered
<1> QED
  BY <1>1, <1>2, <1>3, <1>5 DEF LogInv, BootInv

(* A call whose message is expected.                                       *)
LEMMA LogCall ==
  ASSUME TypeInv, LogInv, NEW t \in Threads, MayCall(t), NEW m,
         thread' = [thread EXCEPT ![t] = ToIO(m)] \/ thread' = thread,
         ~ misused' /\ thread' # thread => Expected(m),
         UNCHANGED <<configVars, registered, idVars, ioVars>>
  PROVE  LogInv'
<1>1. /\ phase' = phase /\ with_local_log_' = with_local_log_
      /\ with_network_' = with_network_
      /\ registered' = registered /\ msg_id_' = msg_id_ /\ queued' = queued
      /\ reader' = reader
  BY DEF configVars, idVars, ioVars
<1>2. BootInv'
  BY <1>1 DEF LogInv, BootInv, MayCall, Enabled
<1>3. ~ misused /\ \A q \in Queues : Enabled(q) => Following(q)
  BY DEF MayCall, LogInv
<1>4. \A q \in Queues : Enabled(q)' => Following(q)'
  BY <1>1, <1>3 DEF Enabled, Following
<1>5. ASSUME ~ misused', NEW u \in Threads
      PROVE  Expected(thread[u].msg)' /\ HalfRegistered(u)'
  <2>1. CASE thread'[u] = thread[u]
    <3>1. Expected(thread[u].msg) /\ HalfRegistered(u)
      BY <1>3 DEF LogInv
    <3> QED
      BY <1>1, <2>1, <3>1 DEF Expected, HalfRegistered, DataStored, Enabled
  <2>2. CASE thread'[u] # thread[u]
    <3>1. thread'[u].pc = "log" /\ thread'[u].msg = m /\ thread' # thread
      BY <2>2 DEF TypeInv, ThreadInv, ToIO
    <3>2. Expected(m)
      BY <1>5, <3>1
    <3> QED
      BY <1>1, <3>1, <3>2 DEF Expected, HalfRegistered, DataStored, Enabled
  <2> QED
    BY <2>1, <2>2
<1> QED
  BY <1>2, <1>4, <1>5 DEF LogInv

(* Registration of parameters and information.                             *)
LEMMA LogRegistration ==
  ASSUME TypeInv, LogInv, NEW t \in Threads,
         \/ \E key \in ParamKeys : register_param(t, key)
         \/ \E key \in InfoKeys : register_info(t, key) \/ register_info_multi(t, key)
  PROVE  LogInv'
<1>1. ASSUME NEW key \in ParamKeys, register_param(t, key)
      PROVE  LogInv'
  <2> DEFINE m == ULogMessageP(IF key_len_(key) > key.space THEN key.type ELSE NoKey)
  <2>1. key.len \in Nat /\ key.space \in Nat
    BY TelemetryAssumption
  <2>2. ASSUME ~ misused'
        PROVE  Expected(m)
    <3>1. key.len <= KeySize /\ key.len > key.space /\ key.type \in ParamTypes
      <4>1. misused' =
             (TooLong(key) \/ key.len <= key.space \/ key.type \notin ParamTypes)
        BY <1>1, Zenon DEF register_param, Register
      <4>2. ~ TooLong(key) /\ ~ key.len <= key.space /\ key.type \in ParamTypes
        BY <2>2, <4>1, Zenon
      <4> QED
        BY <2>1, <4>2 DEF TooLong, KeySize
    <3>2. key_len_(key) = key.len
      BY <2>1, <3>1 DEF key_len_, KeyLenMod, KeySize
    <3>3. m.type = "P" /\ m.key \in ParamTypes
      BY <3>1, <3>2 DEF ULogMessageP
    <3> QED
      BY <3>3 DEF Expected
  <2> HIDE DEF m
  <2>3. thread' = [thread EXCEPT ![t] = ToIO(m)] \/ thread' = thread
    BY <1>1 DEF register_param, Register, m
  <2>4. MayCall(t) /\ UNCHANGED <<configVars, registered, idVars, ioVars>>
    BY <1>1 DEF register_param, Register
  <2> QED
    BY <2>2, <2>3, <2>4, LogCall
<1>2. ASSUME NEW key \in InfoKeys, register_info(t, key)
      PROVE  LogInv'
  <2> DEFINE m == ULogMessageI(IF key_len_(key) > key.space + 1 THEN key.name ELSE NoKey)
  <2>1. key.len \in Nat /\ key.space \in Nat /\ key.name # NoKey
    BY TelemetryAssumption
  <2>2. ASSUME ~ misused'
        PROVE  Expected(m)
    <3>1. key.len <= KeySize /\ key.len > key.space + 1
      <4>1. misused' = (TooLong(key) \/ key.len <= key.space + 1)
        BY <1>2, Zenon DEF register_info, Register
      <4>2. ~ TooLong(key) /\ ~ key.len <= key.space + 1
        BY <2>2, <4>1, Zenon
      <4> QED
        BY <2>1, <4>2 DEF TooLong, KeySize
    <3>2. key_len_(key) = key.len
      BY <2>1, <3>1 DEF key_len_, KeyLenMod, KeySize
    <3>3. m.type = "I" /\ m.key # NoKey
      BY <2>1, <3>1, <3>2 DEF ULogMessageI
    <3> QED
      BY <3>3 DEF Expected
  <2> HIDE DEF m
  <2>3. thread' = [thread EXCEPT ![t] = ToIO(m)] \/ thread' = thread
    BY <1>2 DEF register_info, Register, m
  <2>4. MayCall(t) /\ UNCHANGED <<configVars, registered, idVars, ioVars>>
    BY <1>2 DEF register_info, Register
  <2> QED
    BY <2>2, <2>3, <2>4, LogCall
<1>3. ASSUME NEW key \in InfoKeys, register_info_multi(t, key)
      PROVE  LogInv'
  <2>1. Expected(ULogMessageM)
    BY DEF Expected, ULogMessageM
  <2>2. thread' = [thread EXCEPT ![t] = ToIO(ULogMessageM)] \/ thread' = thread
    BY <1>3 DEF register_info_multi, Register
  <2>3. MayCall(t) /\ UNCHANGED <<configVars, registered, idVars, ioVars>>
    BY <1>3 DEF register_info_multi, Register
  <2> QED
    BY <2>1, <2>2, <2>3, LogCall
<1> QED
  BY <1>1, <1>2, <1>3

(* Registration of a format, before any data.                              *)
LEMMA LogFormat ==
  ASSUME TypeInv, LogInv, NEW t \in Threads, NEW name \in Types,
         register_data_format(t, name)
  PROVE  LogInv'
<1> DEFINE m == ULogMessageF(name, Others[name])
<1>1. ~ misused' => Expected(m)
  BY DEF register_data_format, Expected, ULogMessageF
<1>2. /\ MayCall(t) /\ UNCHANGED <<configVars, registered, idVars, ioVars>>
      /\ thread' = [thread EXCEPT ![t] = ToIO(m)]
  BY DEF register_data_format
<1> HIDE DEF m
<1> QED
  BY <1>1, <1>2, LogCall

(* store_message, after the first data.                                    *)
LEMMA LogMessage ==
  ASSUME TypeInv, LogInv, NEW t \in Threads, store_message(t)
  PROVE  LogInv'
<1> DEFINE m == ULogMessageL(stores)
<1>1. ~ misused' /\ thread' # thread => Expected(m)
  BY DEF store_message, Expected, ULogMessageL
<1>2. /\ MayCall(t) /\ UNCHANGED <<configVars, registered, idVars, ioVars>>
      /\ thread' = [thread EXCEPT ![t] = ToIO(m)] \/ thread' = thread
  BY DEF store_message
<1> HIDE DEF m
<1> QED
  BY <1>1, <1>2, LogCall

(* store_data: its type is registered with the types of all fields.        *)
LEMMA LogData ==
  ASSUME TypeInv, LogInv, NEW t \in Threads, NEW name \in Types,
         NEW annotation \in Annotations,
         store_data(t, name, annotation)
  PROVE  LogInv'
<1> DEFINE d == [number |-> stores, name |-> name, annotation |-> annotation]
           m == ULogMessageA(name, msg_id_'.ids_[name], 0, d)
<1>1. /\ phase' = phase /\ with_local_log_' = with_local_log_
      /\ with_network_' = with_network_
      /\ registered' = registered /\ queued' = queued /\ reader' = reader
      /\ MayCall(t)
  BY DEF store_data, configVars, ioVars
<1>2. BootInv'
  BY <1>1 DEF LogInv, BootInv, MayCall, Enabled
<1>3. ~ misused /\ \A q \in Queues : Enabled(q) => Following(q)
  BY <1>1 DEF MayCall, LogInv
<1>4. DOMAIN msg_id_'.ids_ # {}
  <2>1. msg_id_' = get_id(msg_id_, name, MsgIdMod) /\ MsgIdMod \in Nat \ {0}
    BY TelemetryAssumption DEF store_data
  <2>2. IsID(msg_id_, Types, MsgIdMod)
    BY DEF TypeInv, IdInv
  <2>3. name \in DOMAIN msg_id_'.ids_
    BY <2>1, <2>2, GetId
  <2> QED
    BY <2>3
<1>5. \A q \in Queues : Enabled(q)' => Following(q)'
  BY <1>1, <1>3, <1>4 DEF Enabled, Following
<1>6. thread' = [thread EXCEPT ![t] = [pc |-> "multi_id", msg |-> m]]
  BY DEF store_data
<1>7. m.type = "A" /\ m.name = name
  BY DEF ULogMessageA
<1> HIDE DEF m
<1>8. /\ thread'[t].pc = "multi_id" /\ thread'[t].msg = m
      /\ \A u \in Threads : u # t => thread'[u] = thread[u]
  BY <1>6 DEF TypeInv, ThreadInv
<1>9. ASSUME ~ misused'
      PROVE  FieldTypes(Others, name) \subseteq registered /\ Registering = {}
  <2>1. misused' = (~ FieldTypes(Others, name) \subseteq registered \/ Registering # {})
    BY DEF store_data
  <2> QED
    BY <1>9, <2>1, Zenon
<1>10. ASSUME ~ misused', NEW u \in Threads
       PROVE  Expected(thread[u].msg)' /\ HalfRegistered(u)'
  <2>1. CASE u = t
    BY <1>1, <1>7, <1>8, <1>9, <1>10, <2>1 DEF Expected, HalfRegistered
  <2>2. CASE u # t
    <3>1. Expected(thread[u].msg) /\ HalfRegistered(u)
      BY <1>3 DEF LogInv
    <3>2. thread[u].msg.type # "F"
      BY <1>9, <1>10 DEF Registering
    <3> QED
      BY <1>1, <1>8, <2>2, <3>1, <3>2 DEF Expected, HalfRegistered, DataStored, Enabled
  <2> QED
    BY <2>1, <2>2
<1> QED
  BY <1>2, <1>5, <1>10 DEF LogInv

(* The steps inside store_data leave the log alone.                        *)
LEMMA LogStoring ==
  ASSUME TypeInv, LogInv, NEW t \in Threads,
         FindMultiId(t) \/ InsertMultiId(t) \/ LookupMultiId(t) \/ TestSize(t)
  PROVE  LogInv'
<1>1. /\ phase' = phase /\ with_local_log_' = with_local_log_
      /\ with_network_' = with_network_
      /\ registered' = registered /\ queued' = queued /\ reader' = reader
      /\ misused' = misused /\ msg_id_' = msg_id_
  BY DEF FindMultiId, InsertMultiId, LookupMultiId, TestSize, configVars, appVars,
     idVars, ioVars
<1>2. thread[t].pc \in {"multi_id", "insert", "lookup", "size"}
      /\ thread[t].msg \in DataMessage
  BY DEF FindMultiId, InsertMultiId, LookupMultiId, TestSize, TypeInv, ThreadInv
<1>3. BootInv'
  <2>1. phase # "boot"
    BY <1>2 DEF LogInv, BootInv, Idle
  <2> QED
    BY <1>1, <2>1 DEF LogInv, BootInv, Enabled
<1>4. /\ \A u \in Threads : u # t => thread'[u] = thread[u]
      /\ \/ thread'[t].msg.type = "A" /\ thread'[t].msg.name = thread[t].msg.name
         \/ thread'[t].msg.type = "none"
  <2>1. CASE LookupMultiId(t)
    <3>1. PICK missed \in {FALSE, multi_id_mutex_ # Nobody} :
            /\ GivenMessage(t, missed) \in DataMessage
            /\ thread' =
              [thread EXCEPT ![t] = [pc |-> "size", msg |-> GivenMessage(t, missed)]]
      BY <2>1, LookupEffect
    <3>2. /\ \A u \in Threads : u # t => thread'[u] = thread[u]
          /\ thread'[t].msg = GivenMessage(t, missed)
      BY <3>1 DEF TypeInv, ThreadInv
    <3> QED
      BY <2>1, <3>1, <3>2, StampLookup DEF DataMessage
  <2>2. ASSUME NEW pc, thread' = [thread EXCEPT ![t].pc = pc]
        PROVE  /\ \A u \in Threads : u # t => thread'[u] = thread[u]
               /\ thread'[t].msg = thread[t].msg
    <3>1. thread' = [thread EXCEPT ![t] = [pc |-> pc, msg |-> thread[t].msg]]
      BY <2>2, PcChange DEF TypeInv
    <3> QED
      BY <3>1 DEF TypeInv, ThreadInv
  <2>3. ASSUME thread' = [thread EXCEPT ![t] = Idle]
        PROVE  /\ \A u \in Threads : u # t => thread'[u] = thread[u]
               /\ thread'[t].msg.type = "none"
    BY <2>3 DEF TypeInv, ThreadInv, Idle
  <2>4. \/ \E pc : thread' = [thread EXCEPT ![t].pc = pc]
        \/ thread' = [thread EXCEPT ![t] = Idle]
        \/ LookupMultiId(t)
    BY DEF FindMultiId, InsertMultiId, TestSize
  <2>5. thread[t].msg.type = "A"
    BY <1>2 DEF DataMessage
  <2> QED
    BY <2>1, <2>2, <2>3, <2>4, <2>5
<1>5. ASSUME ~ misused', NEW u \in Threads
      PROVE  Expected(thread[u].msg)' /\ HalfRegistered(u)'
  <2>1. Expected(thread[u].msg) /\ HalfRegistered(u)
    BY <1>1, <1>5 DEF LogInv
  <2>2. CASE u # t
    BY <1>1, <1>4, <2>1, <2>2 DEF Expected, HalfRegistered, DataStored, Enabled
  <2>3. CASE u = t
    <3>1. thread[t].msg.type = "A"
      BY <1>2 DEF DataMessage
    <3>2. FieldTypes(Others, thread[t].msg.name) \subseteq registered
      BY <2>1, <2>3, <3>1 DEF Expected
    <3> QED
      BY <1>1, <1>4, <2>3, <3>2 DEF Expected, HalfRegistered
  <2> QED
    BY <2>2, <2>3
<1>6. ASSUME ~ misused', NEW q \in Queues, Enabled(q)'
      PROVE  Following(q)'
  BY <1>1, <1>6 DEF LogInv, Following, Enabled
<1> QED
  BY <1>3, <1>5, <1>6 DEF LogInv

(* The reader of a queue takes an expected message.                        *)
LEMMA LogEnqueue ==
  ASSUME TypeInv, StampInv, LogInv, ~ misused, NEW t \in Threads,
         thread[t].pc \in {"log", "net"},
         NEW q \in Queues, Enabled(q), EnqueueTo(q, thread[t].msg)
  PROVE  /\ Healthy(reader'[q], Others)
         /\ DOMAIN reader[q].formats_ \subseteq DOMAIN reader'[q].formats_
         /\ DOMAIN msg_id_.ids_ = {} => reader'[q].state_ = "DEFINITION"
         /\ (\E m \in queued'[q] : m.type = "A") =>
              reader'[q].state_ = "DEFINITION_OR_DATA"
         /\ thread[t].msg.type = "F" =>
              thread[t].msg.name \in DOMAIN reader'[q].formats_
<1> DEFINE m == thread[t].msg
           p == reader[q]
           r == check_ulog_valid(p, m)
<1>1. Following(q) /\ Expected(m)
  BY DEF LogInv
<1>2. m \in Messages /\ m.type # "none"
  BY DEF TypeInv, ThreadInv
<1>3. reader'[q] = r
  BY DEF EnqueueTo, TypeInv, QueueInv
<1>4. \A n \in queued'[q] : n \in queued[q] \/ n = m
  BY DEF EnqueueTo, TypeInv, QueueInv
<1>5. Healthy(p, Others) /\ registered \subseteq DOMAIN p.formats_
  BY <1>1 DEF Following
<1>6. CASE m.type = "A"
  <2>1. m \in DataMessage
    BY <1>2, <1>6 DEF Messages
  <2>2. m.data.type = "D" /\ m.name \in Types
    BY <2>1 DEF DataMessage
  <2>3. Decodable(p, Others, m.name)
    BY <1>1, <1>5, <1>6, <2>2, TelemetryAssumption DEF Expected, Decodable
  <2>4. Healthy(r, Others) /\ r.state_ = "DEFINITION_OR_DATA" /\ r.formats_ = p.formats_
    BY <1>5, <1>6, <2>2, <2>3, HealthyData
  <2>5. DOMAIN msg_id_.ids_ # {}
    BY <2>1 DEF StampInv, Stamped
  <2> QED
    BY <1>3, <1>6, <2>4, <2>5
<1>7. CASE m.type = "L"
  <2>1. PICK n \in queued[q] : n.type = "A"
    BY <1>1, <1>7 DEF Expected, DataStored
  <2>2. p.state_ = "DEFINITION_OR_DATA"
    BY <1>1, <2>1 DEF Following
  <2>3. DOMAIN msg_id_.ids_ # {}
    BY <1>1, <2>2 DEF Following
  <2>4. Healthy(r, Others) /\ r.state_ = "DEFINITION_OR_DATA" /\ r.formats_ = p.formats_
    BY <1>5, <1>7, <2>2, HealthyLogged
  <2> QED
    BY <1>3, <1>7, <2>3, <2>4
<1>8. CASE m.type = "F"
  <2>1. m.name \in DOMAIN Others /\ m.others = Others[m.name]
    BY <1>1, <1>2, <1>8, TelemetryAssumption DEF Expected, Messages, DataMessage
  <2>2. p.state_ = "DEFINITION"
    BY <1>1, <1>8 DEF Expected, Following
  <2>3. /\ Healthy(r, Others) /\ r.state_ = "DEFINITION"
        /\ DOMAIN r.formats_ = DOMAIN p.formats_ \cup {m.name}
    BY <1>5, <1>8, <2>1, <2>2, HealthyFormat
  <2>4. \A n \in queued'[q] : n.type # "A"
    BY <1>1, <1>4, <1>8, <2>2 DEF Following
  <2> QED
    BY <1>3, <2>3, <2>4
<1>9. CASE m.type \in {"I", "P", "M"}
  <2>1. \/ m.type = "I" /\ m.key # NoKey
        \/ m.type = "P" /\ m.key \in ParamTypes
        \/ m.type = "M"
    BY <1>1, <1>9 DEF Expected
  <2>2. Healthy(r, Others) /\ r.state_ = p.state_ /\ r.formats_ = p.formats_
    BY <1>5, <2>1, HealthyKeyed
  <2>3. (\E n \in queued'[q] : n.type = "A") => \E n \in queued[q] : n.type = "A"
    BY <1>4, <1>9
  <2> QED
    BY <1>1, <1>3, <1>9, <2>2, <2>3 DEF Following
<1>10. m.type \in {"A", "L", "F", "I", "P", "M"}
  BY <1>2 DEF Messages, DataMessage
<1> QED
  BY <1>6, <1>7, <1>8, <1>9, <1>10

(* The steps to the queues. A format is registered with the last of them.  *)
LEMMA LogMove ==
  ASSUME TypeInv, StampInv, LogInv, NEW t \in Threads, LogQueue(t) \/ NetQueue(t)
  PROVE  LogInv'
<1> DEFINE q == IF thread[t].pc = "log" THEN "log" ELSE "net"
           m == thread[t].msg
<1>1. /\ thread[t].pc \in {"log", "net"} /\ q \in Queues /\ EnqueueTo(q, m)
      /\ phase' = phase /\ with_local_log_' = with_local_log_
      /\ with_network_' = with_network_
      /\ misused' = misused /\ msg_id_' = msg_id_
  BY DEF LogQueue, NetQueue, Queues, configVars, appVars, idVars
<1>2. \A p \in Queues : p # q \/ ~ Enabled(p) => reader'[p] = reader[p]
  BY <1>1 DEF EnqueueTo, TypeInv, QueueInv
<1>3. \A p \in Queues : /\ p # q => queued'[p] = queued[p]
                        /\ queued[p] \subseteq queued'[p]
  BY <1>1 DEF EnqueueTo, TypeInv, QueueInv
<1>4. BootInv'
  <2>1. phase # "boot"
    BY <1>1 DEF LogInv, BootInv, Idle
  <2> QED
    BY <1>1, <1>2, <2>1 DEF LogInv, BootInv, Enabled
<1> SUFFICES ASSUME ~ misused PROVE LogInv'
  BY <1>1, <1>4 DEF LogInv
<1>5. \A p \in Queues : Enabled(p) => Following(p)
  BY DEF LogInv
<1>6. \A u \in Threads : Expected(thread[u].msg) /\ HalfRegistered(u)
  BY DEF LogInv
<1>7. ASSUME NEW p \in Queues, Enabled(p)
      PROVE  /\ Healthy(reader'[p], Others)
             /\ DOMAIN reader[p].formats_ \subseteq DOMAIN reader'[p].formats_
             /\ DOMAIN msg_id_.ids_ = {} => reader'[p].state_ = "DEFINITION"
             /\ (\E n \in queued'[p] : n.type = "A") =>
                  reader'[p].state_ = "DEFINITION_OR_DATA"
             /\ p = q /\ m.type = "F" => m.name \in DOMAIN reader'[p].formats_
  <2>1. CASE p = q
    BY <1>1, <1>7, <2>1, LogEnqueue
  <2>2. CASE p # q
    BY <1>2, <1>3, <1>5, <1>7, <2>2 DEF Following
  <2> QED
    BY <2>1, <2>2
<1>8. ASSUME NEW p \in Queues, Enabled(p)
      PROVE  registered' \subseteq DOMAIN reader'[p].formats_
  <2>1. registered \subseteq DOMAIN reader'[p].formats_
    BY <1>5, <1>7, <1>8 DEF Following
  <2>2. CASE LogQueue(t)
    BY <2>1, <2>2 DEF LogQueue, appVars
  <2>3. CASE NetQueue(t) /\ m.type = "F"
    <3>1. registered' = registered \cup {m.name} /\ thread[t].pc = "net" /\ q = "net"
      BY <2>3 DEF NetQueue
    <3>2. CASE p = "net"
      BY <1>7, <1>8, <2>1, <2>3, <3>1, <3>2
    <3>3. CASE p = "log"
      <4>1. m.name \in DOMAIN reader["log"].formats_
        BY <1>6, <1>8, <2>3, <3>1, <3>3 DEF HalfRegistered, Enabled
      <4> QED
        BY <1>7, <1>8, <2>1, <3>1, <3>3, <4>1
    <3> QED
      BY <3>2, <3>3 DEF Queues
  <2>4. CASE NetQueue(t) /\ m.type # "F"
    BY <2>1, <2>4 DEF NetQueue
  <2> QED
    BY <2>2, <2>3, <2>4
<1>9. \A p \in Queues : Enabled(p)' => Following(p)'
  BY <1>1, <1>7, <1>8 DEF Following, Enabled
<1>10. registered \subseteq registered'
  BY DEF LogQueue, NetQueue, appVars
<1>11. DataStored => DataStored'
  BY <1>1, <1>3 DEF DataStored, Enabled
<1>12. ASSUME NEW u \in Threads
       PROVE  Expected(thread[u].msg)' /\ HalfRegistered(u)'
  <2>1. \/ thread'[u] = thread[u]
        \/ u = t /\ LogQueue(t) /\ thread'[u].msg = thread[u].msg
        \/ thread'[u] = Idle
    <3>1. CASE LogQueue(t)
      <4>1. thread' = [thread EXCEPT ![t] = [pc |-> "net", msg |-> thread[t].msg]]
        BY <3>1, PcChange DEF LogQueue, TypeInv
      <4> QED
        BY <3>1, <4>1 DEF TypeInv, ThreadInv
    <3>2. CASE NetQueue(t)
      BY <3>2 DEF NetQueue, TypeInv, ThreadInv
    <3> QED
      BY <3>1, <3>2
  <2>2. CASE thread'[u] = Idle
    BY <2>2 DEF Expected, HalfRegistered, Idle
  <2>3. CASE thread'[u].msg = thread[u].msg
    <3>1. Expected(thread[u].msg)'
      BY <1>1, <1>6, <1>10, <1>11, <2>3 DEF Expected
    <3>2. CASE thread'[u] = thread[u]
      <4>1. with_local_log_ =>
             DOMAIN reader["log"].formats_ \subseteq DOMAIN reader'["log"].formats_
        BY <1>7 DEF Enabled, Queues
      <4>2. HalfRegistered(u)
        BY <1>6
      <4>3. HalfRegistered(u)'
        BY <1>1, <3>2, <4>1, <4>2 DEF HalfRegistered
      <4> QED
        BY <3>1, <4>3
    <3>3. CASE u = t /\ LogQueue(t)
      <4>1. q = "log"
        BY <3>3 DEF LogQueue
      <4>2. with_local_log_ /\ m.type = "F" => m.name \in DOMAIN reader'["log"].formats_
        BY <1>7, <4>1 DEF Enabled, Queues
      <4>3. HalfRegistered(u)'
        BY <1>1, <2>3, <3>3, <4>2 DEF HalfRegistered
      <4> QED
        BY <3>1, <4>3
    <3> QED
      BY <2>1, <2>2, <3>2, <3>3
  <2> QED
    BY <2>1, <2>2, <2>3
<1> QED
  BY <1>4, <1>9, <1>12 DEF LogInv

(* Every step keeps the invariant.                                         *)
LEMMA LogNext ==
  ASSUME TypeInv, StampInv, LogInv, [Next]_vars
  PROVE  LogInv'
<1>1. CASE init
  BY <1>1, LogBoot
<1>2. ASSUME NEW t \in Threads, ThreadStep(t)
      PROVE  LogInv'
  BY <1>2, LogRegistration, LogFormat, LogData, LogStoring, LogMessage, LogMove
     DEF ThreadStep
<1>3. CASE UNCHANGED vars
  BY <1>3 DEF vars, configVars, appVars, idVars, ioVars, LogInv, BootInv, Enabled,
     Following,
              Expected, HalfRegistered, DataStored
<1> QED
  BY <1>1, <1>2, <1>3 DEF Next

(* The log stays valid for an application that keeps the rules: the parser *)
(* of the repository takes every message of each queue, in the order in    *)
(* which any number of threads put them there. No message is refused, no   *)
(* exception thrown, whatever the types and the nesting of their formats.  *)
THEOREM LogStaysValid == Spec => []LogIsValid
<1>1. Init => LogInv
  BY LogInit
<1>2. TypeInv /\ CountInv /\ StampInv /\ LogInv /\ [Next]_vars => LogInv'
  BY LogNext
<1>3. LogInv => LogIsValid
  <2> SUFFICES ASSUME LogInv, ~ misused, NEW q \in Queues PROVE ~ Broken(reader[q])
    BY DEF LogIsValid
  <2>1. CASE Enabled(q)
    BY <2>1 DEF LogInv, Following, Healthy, Broken
  <2>2. CASE ~ Enabled(q)
    BY <2>2 DEF LogInv, BootInv, Broken, NewParser
  <2> QED
    BY <2>1, <2>2
<1> QED
  BY <1>1, <1>2, <1>3, IdentifierInvariant, PTL DEF Spec

-----------------------------------------------------------------------------
(***************************************************************************)
(* What reaches the handlers. Numbers first: each call of store_data and   *)
(* store_message has its own, so that a message can be told from all       *)
(* others.                                                                 *)
(***************************************************************************)
(* The messages that a queue keeps (queued).                               *)
Enters(m) == m.type \in {"A", "L"}

(* The number of the call that made it.                                    *)
NumberOf(m) == IF m.type = "A" THEN m.data.datum.number ELSE m.message_

(* The 'D' behind an 'A' has the msg_id_ of the 'A'.                       *)
Linked(m) == m.type = "A" => m.data.msg_id_ = m.msg_id_

(* The message of a thread is still to go into a queue.                    *)
Waiting(t, q) == Enters(thread[t].msg) /\ (q = "log" => thread[t].pc # "net")

(* The messages in the threads and in a queue have different numbers, all  *)
(* of them below stores; only a message on its way to the network is in    *)
(* the queue of the logger already.                                        *)
NumberInv ==
  /\ \A t \in Threads : Enters(thread[t].msg) =>
       NumberOf(thread[t].msg) \in Nat /\ NumberOf(thread[t].msg) < stores
       /\ Linked(thread[t].msg)
  /\ \A q \in Queues : \A m \in queued[q] : NumberOf(m) \in Nat /\ NumberOf(m) < stores
  /\ \A t, u \in Threads : t # u /\ Enters(thread[t].msg) /\ Enters(thread[u].msg) =>
       NumberOf(thread[t].msg) # NumberOf(thread[u].msg)
  /\ \A t \in Threads, q \in Queues : Waiting(t, q) =>
       \A m \in queued[q] : NumberOf(m) # NumberOf(thread[t].msg)

(* A step keeps the number of the thread's message, or makes a message     *)
(* with the next number.                                                   *)
Numbers(t) ==
  \/ /\ stores' = stores
     /\ Enters(thread'[t].msg) =>
          /\ Enters(thread[t].msg)
          /\ NumberOf(thread'[t].msg) = NumberOf(thread[t].msg)
          /\ Linked(thread[t].msg) => Linked(thread'[t].msg)
          /\ thread[t].pc = "net" => thread'[t].pc = "net"
  \/ /\ stores' = stores + 1 /\ UNCHANGED queued
     /\ Enters(thread'[t].msg) =>
          NumberOf(thread'[t].msg) = stores /\ Linked(thread'[t].msg)

(* A call that makes a message without a number.                           *)
LEMMA NumbersCall ==
  ASSUME TypeInv, NEW t \in Threads, NEW m, ~ Enters(m), stores' = stores,
         thread' = [thread EXCEPT ![t] = ToIO(m)] \/ thread' = thread
  PROVE  Numbers(t) /\ \A u \in Threads : u # t => thread'[u] = thread[u]
<1>1. thread'[t] = thread[t] \/ thread'[t].msg = m
  BY DEF TypeInv, ThreadInv, ToIO
<1>2. \A u \in Threads : u # t => thread'[u] = thread[u]
  BY DEF TypeInv, ThreadInv
<1> QED
  BY <1>1, <1>2 DEF Numbers

(* A step on the way.                                                      *)
LEMMA NumbersMove ==
  ASSUME TypeInv, NEW t \in Threads, NEW pc, thread[t].pc = "net" => pc = "net",
         stores' = stores,
         thread' = [thread EXCEPT ![t].pc = pc]
  PROVE  Numbers(t) /\ \A u \in Threads : u # t => thread'[u] = thread[u]
<1>1. thread' = [thread EXCEPT ![t] = [pc |-> pc, msg |-> thread[t].msg]]
  BY PcChange DEF TypeInv
<1>2. thread'[t].pc = pc /\ thread'[t].msg = thread[t].msg
  BY <1>1 DEF TypeInv, ThreadInv
<1>3. \A u \in Threads : u # t => thread'[u] = thread[u]
  BY <1>1
<1> QED
  BY <1>2, <1>3 DEF Numbers

(* The end of a call.                                                      *)
LEMMA NumbersIdle ==
  ASSUME TypeInv, NEW t \in Threads, stores' = stores,
         thread' = [thread EXCEPT ![t] = Idle]
  PROVE  Numbers(t) /\ \A u \in Threads : u # t => thread'[u] = thread[u]
<1>1. thread'[t].msg.type = "none"
  BY DEF TypeInv, ThreadInv, Idle
<1>2. \A u \in Threads : u # t => thread'[u] = thread[u]
  OBVIOUS
<1> QED
  BY <1>1, <1>2 DEF Numbers, Enters

(* store_data takes the next number.                                       *)
LEMMA NumbersData ==
  ASSUME TypeInv, NEW t \in Threads, NEW name \in Types, NEW annotation \in Annotations,
         store_data(t, name, annotation)
  PROVE  Numbers(t) /\ \A u \in Threads : u # t => thread'[u] = thread[u]
<1> DEFINE d == [number |-> stores, name |-> name, annotation |-> annotation]
           m == ULogMessageA(name, msg_id_'.ids_[name], 0, d)
<1>1. thread' = [thread EXCEPT ![t] = [pc |-> "multi_id", msg |-> m]]
  BY DEF store_data
<1>2. m.data.msg_id_ = m.msg_id_ /\ m.data.datum.number = stores /\ m.type = "A"
  BY DEF ULogMessageA, ULogMessageD
<1> HIDE DEF m
<1>3. thread'[t].msg = m /\ \A u \in Threads : u # t => thread'[u] = thread[u]
  BY <1>1 DEF TypeInv, ThreadInv
<1>4. stores' = stores + 1 /\ UNCHANGED queued
  BY DEF store_data, ioVars
<1> QED
  BY <1>2, <1>3, <1>4 DEF Numbers, Linked, NumberOf

(* So does store_message, for a message that is too long as well.          *)
LEMMA NumbersMessage ==
  ASSUME TypeInv, NEW t \in Threads, store_message(t)
  PROVE  \/ Numbers(t) /\ \A u \in Threads : u # t => thread'[u] = thread[u]
         \/ thread' = thread /\ queued' = queued /\ stores' = stores + 1
<1> DEFINE m == ULogMessageL(stores)
<1>1. CASE thread' = [thread EXCEPT ![t] = ToIO(m)]
  <2>1. m.type = "L" /\ m.message_ = stores
    BY DEF ULogMessageL
  <2> HIDE DEF m
  <2>2. thread'[t].msg = m /\ \A u \in Threads : u # t => thread'[u] = thread[u]
    BY <1>1 DEF TypeInv, ThreadInv, ToIO
  <2>3. stores' = stores + 1 /\ UNCHANGED queued
    BY DEF store_message, ioVars
  <2> QED
    BY <2>1, <2>2, <2>3 DEF Numbers, Linked, NumberOf
<1>2. CASE thread' = thread
  BY <1>2 DEF store_message, ioVars
<1> QED
  BY <1>1, <1>2 DEF store_message

(* The lookup fills in multi_id_ only.                                     *)
LEMMA NumbersLookup ==
  ASSUME TypeInv, NEW t \in Threads, LookupMultiId(t)
  PROVE  Numbers(t) /\ \A u \in Threads : u # t => thread'[u] = thread[u]
<1>1. PICK missed \in {FALSE, multi_id_mutex_ # Nobody} :
        thread' = [thread EXCEPT ![t] = [pc |-> "size", msg |-> GivenMessage(t, missed)]]
  BY LookupEffect
<1>2. thread[t].msg \in DataMessage /\ thread[t].pc = "lookup"
  BY LookupEffect
<1>3. LET new == GivenMessage(t, missed) IN
        /\ new.type = thread[t].msg.type /\ new.msg_id_ = thread[t].msg.msg_id_
        /\ new.data = thread[t].msg.data
  BY <1>2 DEF GivenMessage, DataMessage
<1>4. thread'[t].msg = GivenMessage(t, missed)
      /\ \A u \in Threads : u # t => thread'[u] = thread[u]
  BY <1>1 DEF TypeInv, ThreadInv
<1>5. thread[t].msg.type = "A" /\ stores' = stores
  BY <1>2 DEF DataMessage, LookupMultiId, appVars
<1> QED
  BY <1>2, <1>3, <1>4, <1>5 DEF Numbers, Enters, Linked, NumberOf

(* Every step of a thread is of one of these kinds, and leaves the other   *)
(* threads alone.                                                          *)
LEMMA NumbersStep ==
  ASSUME TypeInv, NEW t \in Threads, ThreadStep(t)
  PROVE  \/ Numbers(t) /\ \A u \in Threads : u # t => thread'[u] = thread[u]
         \/ thread' = thread /\ queued' = queued /\ stores' = stores + 1
<1> DEFINE Goal == Numbers(t) /\ \A u \in Threads : u # t => thread'[u] = thread[u]
<1>1. ASSUME NEW key, register_param(t, key)
      PROVE  Goal
  <2> DEFINE m == ULogMessageP(IF key_len_(key) > key.space THEN key.type ELSE NoKey)
  <2>1. ~ Enters(m)
    BY DEF ULogMessageP, Enters
  <2>2. (thread' = [thread EXCEPT ![t] = ToIO(m)] \/ thread' = thread) /\ stores' = stores
    BY <1>1 DEF register_param, Register
  <2> HIDE DEF m
  <2> QED
    BY <2>1, <2>2, NumbersCall
<1>2. ASSUME NEW key, register_info(t, key)
      PROVE  Goal
  <2> DEFINE m == ULogMessageI(IF key_len_(key) > key.space + 1 THEN key.name ELSE NoKey)
  <2>1. ~ Enters(m)
    BY DEF ULogMessageI, Enters
  <2>2. (thread' = [thread EXCEPT ![t] = ToIO(m)] \/ thread' = thread) /\ stores' = stores
    BY <1>2 DEF register_info, Register
  <2> HIDE DEF m
  <2> QED
    BY <2>1, <2>2, NumbersCall
<1>3. ASSUME NEW key, register_info_multi(t, key)
      PROVE  Goal
  <2>1. ~ Enters(ULogMessageM)
    BY DEF ULogMessageM, Enters
  <2>2. (thread' = [thread EXCEPT ![t] = ToIO(ULogMessageM)] \/ thread' = thread)
        /\ stores' = stores
    BY <1>3 DEF register_info_multi, Register
  <2> QED
    BY <2>1, <2>2, NumbersCall
<1>4. ASSUME NEW name, register_data_format(t, name)
      PROVE  Goal
  <2>1. ~ Enters(ULogMessageF(name, Others[name]))
    BY DEF ULogMessageF, Enters
  <2>2. thread' = [thread EXCEPT ![t] = ToIO(ULogMessageF(name, Others[name]))]
        /\ stores' = stores
    BY <1>4 DEF register_data_format
  <2> QED
    BY <2>1, <2>2, NumbersCall
<1>5. CASE FindMultiId(t) \/ InsertMultiId(t)
  <2>1. (\E pc \in {"lookup", "insert"} : thread' = [thread EXCEPT ![t].pc = pc])
        /\ stores' = stores /\ thread[t].pc # "net"
    BY <1>5 DEF FindMultiId, InsertMultiId, appVars
  <2> QED
    BY <2>1, NumbersMove
<1>6. CASE TestSize(t)
  <2>1. stores' = stores /\ thread[t].pc # "net"
    BY <1>6 DEF TestSize, appVars
  <2> QED
    BY <1>6, <2>1, NumbersMove, NumbersIdle DEF TestSize
<1>7. CASE LogQueue(t)
  <2>1. thread' = [thread EXCEPT ![t].pc = "net"] /\ stores' = stores
    BY <1>7 DEF LogQueue, appVars
  <2> QED
    BY <2>1, NumbersMove
<1>8. CASE NetQueue(t)
  <2>1. thread' = [thread EXCEPT ![t] = Idle] /\ stores' = stores
    BY <1>8 DEF NetQueue
  <2> QED
    BY <2>1, NumbersIdle
<1> QED
  BY <1>1, <1>2, <1>3, <1>4, <1>5, <1>6, <1>7, <1>8, NumbersData, NumbersMessage,
     NumbersLookup DEF ThreadStep

-----------------------------------------------------------------------------
(***************************************************************************)
(* A message arrives at the reader of a queue.                             *)
(***************************************************************************)
(* A thread puts its message into a queue and goes on to the next, or      *)
(* returns; the reader reads it.                                           *)
Arrives(t, q) ==
  /\ thread[t].pc \in {"log", "net"} /\ (q = "log" => thread[t].pc # "net")
  /\ q = "log" => thread'[t].pc = "net" /\ thread'[t].msg = thread[t].msg
  /\ q = "net" => thread'[t] = Idle
  /\ reader'[q] = check_ulog_valid(reader[q], thread[t].msg)
  /\ queued'[q] = queued[q] \cup (IF Enters(thread[t].msg) THEN {thread[t].msg} ELSE {})

(* Nothing else changes a queue or its reader.                             *)
LEMMA ArrivesStep ==
  ASSUME TypeInv, NEW t \in Threads, ThreadStep(t), NEW q \in Queues
  PROVE  \/ reader'[q] = reader[q] /\ queued'[q] = queued[q]
         \/ Arrives(t, q)
<1>1. CASE UNCHANGED ioVars
  BY <1>1 DEF ioVars
<1>2. ASSUME NEW p \in Queues, EnqueueTo(p, thread[t].msg)
      PROVE  \/ reader'[q] = reader[q] /\ queued'[q] = queued[q]
             \/ /\ q = p
                /\ reader'[q] = check_ulog_valid(reader[q], thread[t].msg)
                /\ queued'[q] = queued[q] \cup
                     (IF Enters(thread[t].msg) THEN {thread[t].msg} ELSE {})
  BY <1>2 DEF TypeInv, QueueInv, EnqueueTo, Enters
<1>3. CASE LogQueue(t)
  <2>1. thread[t].pc = "log" /\ EnqueueTo("log", thread[t].msg)
        /\ thread' = [thread EXCEPT ![t] = [pc |-> "net", msg |-> thread[t].msg]]
    BY <1>3, PcChange DEF LogQueue, TypeInv
  <2>2. thread'[t].pc = "net" /\ thread'[t].msg = thread[t].msg
    BY <2>1 DEF TypeInv, ThreadInv
  <2> QED
    BY <1>2, <2>1, <2>2 DEF Arrives, Queues
<1>4. CASE NetQueue(t)
  <2>1. thread[t].pc = "net" /\ EnqueueTo("net", thread[t].msg)
        /\ thread' = [thread EXCEPT ![t] = Idle]
    BY <1>4 DEF NetQueue
  <2>2. thread'[t] = Idle
    BY <2>1 DEF TypeInv, ThreadInv
  <2> QED
    BY <1>2, <2>1, <2>2 DEF Arrives, Queues
<1> QED
  BY <1>1, <1>3, <1>4
     DEF ThreadStep, register_param, register_info, register_info_multi, Register,
         register_data_format, store_data, FindMultiId, InsertMultiId, LookupMultiId,
         TestSize, store_message

(* Initially there are no messages.                                        *)
LEMMA NumberInit == Init => NumberInv
BY DEF Init, NumberInv, Idle, Enters, Waiting

(* A step of a thread keeps the numbers apart: a message enters a queue    *)
(* that was waiting for it, and its number is not in there.                *)
LEMMA NumberThread ==
  ASSUME TypeInv, NumberInv, NEW t \in Threads, ThreadStep(t)
  PROVE  NumberInv'
<1> DEFINE n(u) == NumberOf(thread[u].msg)
<1>0. stores \in Nat
  BY Bounds DEF TypeInv
<1>1. stores' \in Nat /\ stores <= stores'
  BY <1>0, NumbersStep DEF Numbers
<1>2. CASE thread' = thread /\ queued' = queued /\ stores' = stores + 1
  BY <1>0, <1>2 DEF NumberInv, Waiting
<1>3. CASE Numbers(t) /\ \A u \in Threads : u # t => thread'[u] = thread[u]
  <2>1. ASSUME NEW u \in Threads, Enters(thread'[u].msg)
        PROVE  /\ NumberOf(thread'[u].msg) \in Nat /\ NumberOf(thread'[u].msg) < stores'
               /\ Linked(thread'[u].msg)
    BY <1>0, <1>1, <1>3, <2>1 DEF NumberInv, Numbers
  <2>2. ASSUME NEW u \in Threads, NEW v \in Threads, u # v, Enters(thread'[u].msg),
               Enters(thread'[v].msg)
        PROVE  NumberOf(thread'[u].msg) # NumberOf(thread'[v].msg)
    BY <1>0, <1>3, <2>2 DEF NumberInv, Numbers
  <2>3. ASSUME NEW q \in Queues, NEW m \in queued'[q]
        PROVE  \/ m \in queued[q]
               \/ Arrives(t, q) /\ Enters(thread[t].msg) /\ m = thread[t].msg
    BY <2>3, ArrivesStep DEF Arrives
  <2>4. ASSUME NEW q \in Queues, NEW m \in queued'[q]
        PROVE  NumberOf(m) \in Nat /\ NumberOf(m) < stores'
    BY <1>0, <1>1, <2>3, <2>4 DEF NumberInv
  <2>5. ASSUME NEW u \in Threads, NEW q \in Queues, Waiting(u, q)', NEW m \in queued'[q]
        PROVE  NumberOf(m) # NumberOf(thread'[u].msg)
    <3>1. CASE queued' = queued /\ stores' = stores + 1
               /\ NumberOf(thread'[u].msg) = stores
      BY <1>0, <2>5, <3>1 DEF NumberInv
    <3>2. CASE /\ Waiting(u, q)
               /\ Enters(thread[u].msg)
               /\ NumberOf(thread'[u].msg) = NumberOf(thread[u].msg)
      <4>1. CASE m \in queued[q]
        BY <3>2, <4>1 DEF NumberInv
      <4>2. CASE Arrives(t, q) /\ Enters(thread[t].msg) /\ m = thread[t].msg
        <5>1. CASE u # t
          BY <3>2, <4>2, <5>1 DEF NumberInv
        <5>2. CASE u = t
          BY <2>5, <4>2, <5>2 DEF Arrives, Waiting, Queues, Idle, Enters
        <5> QED
          BY <5>1, <5>2
      <4> QED
        BY <2>3, <4>1, <4>2
    <3>3. CASE u = t
      BY <1>3, <2>5, <3>1, <3>2, <3>3 DEF Numbers, Waiting
    <3>4. CASE u # t
      BY <1>3, <2>5, <3>2, <3>4 DEF Waiting
    <3> QED
      BY <3>3, <3>4
  <2> QED
    BY <2>1, <2>2, <2>4, <2>5 DEF NumberInv
<1> QED
  BY <1>2, <1>3, NumbersStep

(* So does every step.                                                     *)
LEMMA NumberNext ==
  ASSUME TypeInv, NumberInv, [Next]_vars
  PROVE  NumberInv'
<1>1. CASE UNCHANGED <<stores, thread, queued>>
  BY <1>1 DEF NumberInv, Waiting
<1> QED
  BY <1>1, NumberThread DEF Next, init, vars, appVars, ioVars

-----------------------------------------------------------------------------
(***************************************************************************)
(* What a reader has handed over.                                          *)
(***************************************************************************)
(* EveryMessageDelivered of one queue.                                     *)
Delivered(q) ==
  LET data == {m \in queued[q] : m.type = "A"}
      logs == {m.message_ : m \in {n \in queued[q] : n.type = "L"}}
      got  == reader[q].delivered IN
    /\ reader[q].message_logs_ = SetToBag(logs)
    /\ \A d \in DOMAIN got : got[d] = 2 /\ \E m \in data : m.data.datum = d.datum
    /\ \A m \in data : \E d \in DOMAIN got :
         /\ d.datum = m.data.datum /\ d.series[1] = m.name
         /\ \A e \in DOMAIN got : e.datum = d.datum => e = d

(* A reader's subscriptions are those of the table of types: the one of a  *)
(* msg_id_ has the type with that identifier. The reader keeps the first   *)
(* subscription of a msg_id_, so this is what lets it file the data of the *)
(* later ones.                                                             *)
SubscribedNames(q) ==
  \A i \in DOMAIN reader[q].subscriptions_ :
    LET name == reader[q].subscriptions_[i].name IN
      name \in DOMAIN msg_id_.ids_ /\ msg_id_.ids_[name] = i

(* A reader that has refused nothing has handed over what it should.       *)
DeliveredInv ==
  \A q \in Queues : ~ Broken(reader[q]) => Delivered(q) /\ SubscribedNames(q)

(* An empty queue with a new reader.                                       *)
LEMMA NothingDelivered ==
  ASSUME NEW q \in Queues, queued[q] = {}, reader[q].delivered = EmptyBag,
         reader[q].message_logs_ = EmptyBag, reader[q].subscriptions_ = Nothing
  PROVE  Delivered(q) /\ SubscribedNames(q)
<1>1. {m.message_ : m \in {n \in queued[q] : n.type = "L"}} = {}
  OBVIOUS
<1> QED
  BY <1>1 DEF Delivered, SubscribedNames, EmptyBag, SetToBag, Nothing

(* Initially nothing has been delivered.                                   *)
LEMMA DeliveredInit == Init => DeliveredInv
<1> SUFFICES ASSUME Init, NEW q \in Queues PROVE Delivered(q) /\ SubscribedNames(q)
  BY DEF DeliveredInv
<1> QED
  BY NothingDelivered DEF Init, NewParser

(* The table of types only grows.                                          *)
LEMMA SubscribedKept ==
  ASSUME Kept, NEW q \in Queues, SubscribedNames(q), reader'[q] = reader[q]
  PROVE  SubscribedNames(q)'
BY DEF Kept, Extends, SubscribedNames

(* A step that touches neither the queue nor the reader.                   *)
LEMMA DeliveredSame ==
  ASSUME NEW q \in Queues, Delivered(q), reader'[q] = reader[q], queued'[q] = queued[q]
  PROVE  Delivered(q)'
BY DEF Delivered

(* A log message arrives. Its number is new, so it is delivered once.      *)
LEMMA LogArrives ==
  ASSUME TypeInv, NumberInv, NEW t \in Threads, NEW q \in Queues, Arrives(t, q),
         thread[t].msg.type = "L", Delivered(q), ~ Broken(reader'[q])
  PROVE  Delivered(q)'
<1> DEFINE m == thread[t].msg
           logs == {a.message_ : a \in {n \in queued[q] : n.type = "L"}}
<1>0. IsParser(reader[q]) /\ reader'[q] = check_ulog_valid(reader[q], m)
      /\ m.type = "L" /\ CarriesNoData(m)
  BY DEF CarriesNoData, Arrives, TypeInv, QueueInv
<1>1. /\ reader'[q].delivered = reader[q].delivered
      /\ reader'[q].message_logs_ = Once(reader[q].message_logs_, m.message_)
  <2> HIDE DEF m
  <2> QED
    BY <1>0, OtherDelivered
<1>2. queued'[q] = queued[q] \cup {m} /\ Waiting(t, q)
  BY DEF Arrives, Enters, Waiting
<1>3. m.message_ \notin logs
  BY <1>2 DEF NumberInv, NumberOf
<1>4. /\ {n \in queued'[q] : n.type = "A"} = {n \in queued[q] : n.type = "A"}
      /\ {a.message_ : a \in {n \in queued'[q] : n.type = "L"}} = logs \cup {m.message_}
  BY <1>2
<1>5. reader[q].message_logs_ = SetToBag(logs)
  BY DEF Delivered
<1> HIDE DEF logs, m
<1>6. reader'[q].message_logs_ = SetToBag(logs \cup {m.message_})
  BY <1>1, <1>3, <1>5, BagOfSet
<1>7. reader'[q].message_logs_
        = SetToBag({a.message_ : a \in {n \in queued'[q] : n.type = "L"}})
  BY <1>4, <1>6
<1> QED
  BY <1>1, <1>4, <1>7 DEF Delivered

(* The message of a thread carries data.                                   *)
HoldsData(t) == thread[t].msg \in DataMessage

(* Data arrives. Its subscription is the one of its own type, for the      *)
(* types have different identifiers (TypesApart) and the reader knows them *)
(* by these (SubscribedNames); and its number is new, so that what was     *)
(* delivered before belongs to other messages.                             *)
LEMMA DataArrives ==
  ASSUME TypeInv, CountInv, FewTypes, StampInv, NumberInv, Kept,
         NEW t \in Threads, NEW q \in Queues, Arrives(t, q), HoldsData(t),
         Delivered(q), SubscribedNames(q), ~ Broken(reader'[q])
  PROVE  Delivered(q)' /\ SubscribedNames(q)'
<1> DEFINE m == thread[t].msg
           got == reader[q].delivered
           new == reader'[q].delivered
           subs == reader'[q].subscriptions_
           data == {n \in queued[q] : n.type = "A"}
<1>1. m \in DataMessage /\ m.type = "A"
  BY DEF DataMessage, HoldsData
<1>2. m.data.type = "D" /\ m.data.msg_id_ = m.msg_id_ /\ NumberOf(m) = m.data.datum.number
  BY <1>1 DEF NumberInv, Enters, Linked, DataMessage, NumberOf
<1>3. Stamped(m)
  BY <1>1 DEF StampInv
<1>4. IsParser(reader[q]) /\ reader'[q] = check_ulog_valid(reader[q], m)
  BY DEF Arrives, TypeInv, QueueInv
<1> HIDE DEF m
<1>5. PICK ts :
        /\ ts[1] = subs[m.msg_id_].name
        /\ new = Twice(got, MessageData(ts, m.data))
  BY <1>1, <1>2, <1>4, DataDelivered
<1>6. /\ reader'[q].message_logs_ = reader[q].message_logs_
      /\ \A i \in DOMAIN subs :
           \/ /\ i \in DOMAIN reader[q].subscriptions_
              /\ subs[i] = reader[q].subscriptions_[i]
           \/ i = m.msg_id_ /\ subs[i].name = m.name
      /\ m.msg_id_ \in DOMAIN subs
  BY <1>1, <1>2, <1>4, DataDelivered
<1>7. \A i \in DOMAIN subs :
        subs[i].name \in DOMAIN msg_id_.ids_ /\ msg_id_.ids_[subs[i].name] = i
  BY <1>3, <1>6 DEF SubscribedNames, Stamped
<1>8. SubscribedNames(q)'
  BY <1>7 DEF SubscribedNames, Kept, Extends
<1>9. subs[m.msg_id_].name = m.name
  BY <1>3, <1>6, <1>7, TypesApart DEF Stamped
<1>10. queued'[q] = queued[q] \cup {m} /\ Waiting(t, q)
  BY <1>1 DEF Arrives, Enters, Waiting, m
<1>11. /\ reader[q].message_logs_
            = SetToBag({a.message_ : a \in {n \in queued[q] : n.type = "L"}})
       /\ \A d \in DOMAIN got : got[d] = 2 /\ \E n \in data : n.data.datum = d.datum
       /\ \A n \in data : \E d \in DOMAIN got :
            /\ d.datum = n.data.datum /\ d.series[1] = n.name
            /\ \A e \in DOMAIN got : e.datum = d.datum => e = d
  BY DEF Delivered
<1>12. \A n \in data : n.data.datum # m.data.datum
  BY <1>2, <1>10 DEF NumberInv, NumberOf, m
<1>13. PICK d : d = MessageData(ts, m.data)
  OBVIOUS
<1>14. d.datum = m.data.datum /\ d.series[1] = m.name
  BY <1>5, <1>9, <1>13 DEF MessageData
<1>15. \A e \in DOMAIN got : e.datum # d.datum
  BY <1>11, <1>12, <1>14
<1>16. {a.message_ : a \in {n \in queued'[q] : n.type = "L"}}
         = {a.message_ : a \in {n \in queued[q] : n.type = "L"}}
       /\ {n \in queued'[q] : n.type = "A"} = data \cup {m}
  BY <1>1, <1>10
<1>17. new = Twice(got, d)
  BY <1>5, <1>13
<1> HIDE DEF got, new, subs, data
<1>18. /\ \A y : y \in DOMAIN new <=> y \in DOMAIN got \/ y = d
       /\ new[d] = 2
       /\ \A y \in DOMAIN got : got[y] \in Nat => new[y] = got[y]
  <2>1. d \notin DOMAIN got
    BY <1>15
  <2> QED
    BY <1>17, <2>1, BagTwice
<1>19. \A e \in DOMAIN new : new[e] = 2 /\ \E n \in data \cup {m} : n.data.datum = e.datum
  BY <1>11, <1>14, <1>18
<1>20. \A n \in data \cup {m} : \E x \in DOMAIN new :
         /\ x.datum = n.data.datum /\ x.series[1] = n.name
         /\ \A e \in DOMAIN new : e.datum = x.datum => e = x
  <2>1. ASSUME NEW n \in data
        PROVE  \E x \in DOMAIN new :
                 /\ x.datum = n.data.datum /\ x.series[1] = n.name
                 /\ \A e \in DOMAIN new : e.datum = x.datum => e = x
    <3>1. PICK x \in DOMAIN got :
            /\ x.datum = n.data.datum /\ x.series[1] = n.name
            /\ \A e \in DOMAIN got : e.datum = x.datum => e = x
      BY <1>11, <2>1
    <3>2. \A e \in DOMAIN new : e.datum = x.datum => e = x
      BY <1>15, <1>18, <3>1
    <3> QED
      BY <1>18, <3>1, <3>2
  <2>2. \A e \in DOMAIN new : e.datum = d.datum => e = d
    BY <1>15, <1>18
  <2> QED
    BY <1>14, <1>18, <2>1, <2>2
<1> QED
  BY <1>6, <1>8, <1>11, <1>16, <1>19, <1>20 DEF Delivered, new, got, data

(* A step of a thread keeps the readers as they should be.                 *)
LEMMA DeliveredThread ==
  ASSUME TypeInv, CountInv, FewTypes, StampInv, NumberInv, DeliveredInv, Kept,
         NEW t \in Threads, ThreadStep(t)
  PROVE  DeliveredInv'
<1> SUFFICES ASSUME NEW q \in Queues, ~ Broken(reader'[q])
             PROVE  Delivered(q)' /\ SubscribedNames(q)'
  BY DEF DeliveredInv
<1>1. CASE reader'[q] = reader[q] /\ queued'[q] = queued[q]
  BY <1>1, SubscribedKept, DeliveredSame DEF DeliveredInv
<1>2. CASE Arrives(t, q)
  <2>1. ~ Broken(reader[q])
    BY <1>2, BrokenStays DEF Arrives
  <2>2. Delivered(q) /\ SubscribedNames(q)
    BY <2>1 DEF DeliveredInv
  <2>3. \/ HoldsData(t)
        \/ CarriesNoData(thread[t].msg)
    BY <1>2 DEF CarriesNoData, Arrives, TypeInv, ThreadInv, Messages, DataMessage,
       HoldsData
  <2>4. CASE HoldsData(t)
    BY <1>2, <2>2, <2>4, DataArrives
  <2>5. CASE ~ HoldsData(t)
    <3>1. IsParser(reader[q]) /\ reader'[q] = check_ulog_valid(reader[q], thread[t].msg)
      BY <1>2 DEF Arrives, TypeInv, QueueInv
    <3>2. /\ reader'[q].subscriptions_ = reader[q].subscriptions_
          /\ reader'[q].delivered = reader[q].delivered
          /\ thread[t].msg.type # "L" =>
               reader'[q].message_logs_ = reader[q].message_logs_
      BY <2>3, <2>5, <3>1, OtherDelivered
    <3>3. SubscribedNames(q)'
      BY <2>2, <3>2 DEF SubscribedNames, Kept, Extends
    <3>4. CASE thread[t].msg.type = "L"
      BY <1>2, <2>2, <3>3, <3>4, LogArrives
    <3>5. CASE thread[t].msg.type # "L"
      <4>1. queued'[q] = queued[q]
        BY <1>2, <2>3, <2>5, <3>5 DEF Arrives, Enters, CarriesNoData
      <4> QED
        BY <2>2, <3>2, <3>3, <3>5, <4>1 DEF Delivered
    <3> QED
      BY <3>4, <3>5
  <2> QED
    BY <2>3, <2>4, <2>5
<1> QED
  BY <1>1, <1>2, ArrivesStep

(* init gives the queues new readers.                                      *)
LEMMA DeliveredBoot ==
  ASSUME BootInv, init
  PROVE  DeliveredInv'
<1> SUFFICES ASSUME NEW q \in Queues PROVE Delivered(q)' /\ SubscribedNames(q)'
  BY DEF DeliveredInv
<1>1. queued'[q] = {}
  BY DEF BootInv, init
<1>2. ASSUME NEW p, p \in {NewParser, check_ulog_valid(check_ulog_valid(NewParser,
                             ULogFileHeader), ULogMessageB(FALSE))}
      PROVE  /\ p.delivered = EmptyBag /\ p.message_logs_ = EmptyBag
             /\ p.subscriptions_ = Nothing
  <2> DEFINE a == To(NewParser, "FLAGS")
             b == To(a, "DEFINITION")
  <2>1. check_ulog_valid(NewParser, ULogFileHeader) = a
    BY DEF check_ulog_valid, parse, parse_header, ULogFileHeader, NewParser, To
  <2>2. check_ulog_valid(a, ULogMessageB(FALSE)) = b
    BY DEF check_ulog_valid, parse, parse_flags, ULogMessageB, NewParser, To
  <2>3. /\ a.delivered = NewParser.delivered /\ a.message_logs_ = NewParser.message_logs_
        /\ a.subscriptions_ = NewParser.subscriptions_
        /\ b.delivered = a.delivered /\ b.message_logs_ = a.message_logs_
        /\ b.subscriptions_ = a.subscriptions_
    BY DEF NewParser, To
  <2>4. /\ NewParser.delivered = EmptyBag /\ NewParser.message_logs_ = EmptyBag
        /\ NewParser.subscriptions_ = Nothing
    BY DEF NewParser
  <2> HIDE DEF a, b
  <2> QED
    BY <1>2, <2>1, <2>2, <2>3, <2>4
<1>3. reader'[q] \in {NewParser, check_ulog_valid(check_ulog_valid(NewParser,
                        ULogFileHeader), ULogMessageB(FALSE))}
  BY DEF init
<1>4. /\ reader'[q].delivered = EmptyBag /\ reader'[q].message_logs_ = EmptyBag
      /\ reader'[q].subscriptions_ = Nothing
  BY <1>2, <1>3
<1>5. {m.message_ : m \in {n \in queued'[q] : n.type = "L"}} = {}
  BY <1>1
<1> QED
  BY <1>1, <1>4, <1>5 DEF Delivered, SubscribedNames, EmptyBag, SetToBag, Nothing

(* So does every step.                                                     *)
LEMMA DeliveredNext ==
  ASSUME TypeInv, CountInv, FewTypes, StampInv, BootInv, NumberInv, DeliveredInv,
         [Next]_vars
  PROVE  DeliveredInv'
<1>1. Kept
  BY KeptNext
<1>2. CASE UNCHANGED vars
  <2>1. \A q \in Queues : reader'[q] = reader[q] /\ queued'[q] = queued[q]
    BY <1>2 DEF vars, ioVars
  <2> QED
    BY <1>1, <2>1, SubscribedKept, DeliveredSame DEF DeliveredInv
<1> QED
  BY <1>1, <1>2, DeliveredBoot, DeliveredThread DEF Next

(* Whatever the interleaving of the threads, a reader that has refused     *)
(* nothing (LogStaysValid says when that is) has handed over every log     *)
(* message once, every datum twice and in a series of its own type, and    *)
(* nothing that is not in the queue. With more types than identifiers this *)
(* would be false: the data of two types would go into one series.         *)
THEOREM EveryDelivered ==
  ASSUME FewTypes
  PROVE  Spec => []EveryMessageDelivered
<1>1. Init => LogInv /\ NumberInv /\ DeliveredInv
  BY LogInit, NumberInit, DeliveredInit
<1>2. TypeInv /\ CountInv /\ StampInv /\ LogInv /\ NumberInv /\ DeliveredInv
      /\ [Next]_vars =>
        LogInv' /\ NumberInv' /\ DeliveredInv'
  BY LogNext, NumberNext, DeliveredNext DEF LogInv
<1>3. DeliveredInv => EveryMessageDelivered
  BY DEF DeliveredInv, Delivered, EveryMessageDelivered
<1> QED
  BY <1>1, <1>2, <1>3, IdentifierInvariant, PTL DEF Spec

=============================================================================
