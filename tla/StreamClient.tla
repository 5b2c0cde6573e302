---------------------------- MODULE StreamClient ----------------------------
(***************************************************************************)
(* The streamer and its clients, each with the parser that it gives every  *)
(* message to: definitions that are new (LOGGING_DATA_ACKED) and all data  *)
(* (LOGGING_DATA), which the network may lose, repeat and reorder and      *)
(* discard_loop may have thrown away.                                      *)
(*                                                                         *)
(* The application behaves as tests/mutelemetry_test.cc: it has one type,  *)
(* registers its format behind header and flags, and stores a log message  *)
(* only after data.                                                        *)
(***************************************************************************)
EXTENDS StreamSystem, Parser

VARIABLE parser   \* the MutelemetryParser of each client

allVars == <<vars, parser>>

(* What the messages of Streamer contain.                                  *)
Message(item) ==
  CASE item.id = 1 -> ULogFileHeader
    [] item.id = 2 -> ULogMessageB(FALSE)
    [] item.id = 3 -> ULogMessageF("T", {})
    [] item.id > 3 /\ item.kind \in {"def", "bigdef"}   -> ULogMessageI("info")
    [] item.id > 3 /\ item.kind \in {"data", "bigdata"} -> ULogMessageA("T", 0, 0, item.id)
    [] item.id > 3 /\ item.kind = "log"                 -> ULogMessageL(item.id)

(* Counting what the handlers got would be unbounded: a message on the     *)
(* wire can be received any number of times.                               *)
Read(p, item) ==
  [check_ulog_valid(p, Message(item)) EXCEPT !.delivered = EmptyBag,
                                             !.message_logs_ = EmptyBag]

InitClient ==
  /\ Init
  /\ parser = [c \in Clients |-> NewParser]

-----------------------------------------------------------------------------
FormatFirst(kind) == produced = Preamble => kind = "def"

(* Before discarding_ is set, no data has left the queue.                  *)
DataBeforeLog(kind) ==
  kind = "log" => discarding_ \/ \E i \in DOMAIN net_queue_ :
                                   check_ulog_data_begin(net_queue_[i])

Store(kind) ==
  /\ FormatFirst(kind) /\ DataBeforeLog(kind)
  /\ Enqueue(kind)

(* The handler of LOGGING_DATA_ACKED, with its call of check_ulog_valid.   *)
ReadDefinition(c, m) ==
  /\ ReceiveDefinition(c, m)
  /\ parser' = IF IsNew(c, m) THEN [parser EXCEPT ![c] = Read(@, m.item)] ELSE parser

(* The handler of LOGGING_DATA.                                            *)
ReceiveData(c, m) ==
  /\ m.type = "data" /\ m.dst = c
  /\ parser' = [parser EXCEPT ![c] = Read(@, m.item)]
  /\ UNCHANGED vars

NextClient ==
  \/ /\ \/ \E kind \in Kinds : Store(kind)
        \/ ServerStep
     /\ UNCHANGED <<clientVars, parser>>
  \/ \E c \in Clients :
       \/ ClientControl(c) /\ UNCHANGED parser
       \/ \E m \in wire : ReadDefinition(c, m) \/ ReceiveData(c, m)

SpecClient == InitClient /\ [][NextClient]_allVars

-----------------------------------------------------------------------------
(* No assert(0) behind check_ulog_valid of the client's handlers fails:    *)
(* its parser meets the header, the flags and the formats in this order    *)
(* and once, and never data before them, whatever the network and          *)
(* discard_loop do to the messages and however often they are resent.      *)
ClientParserValid == \A c \in Clients : ~ Broken(parser[c])

=============================================================================
