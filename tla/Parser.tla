------------------------------- MODULE Parser -------------------------------
(***************************************************************************)
(* The ULog parser (MutelemetryParser, mutelemetry_parse.{h,cc}) and the   *)
(* check the client makes of every message it gets (check_ulog_valid).     *)
(*                                                                         *)
(* The parser is a sequential object: its state is a record p with its     *)
(* members, and every operator maps a state and a message to a state.      *)
(* The text of a format is the set of other types among its fields; of a   *)
(* key, the parser sees the word it looks for, or NoKey where the key has  *)
(* no such word; values, field names and timestamps are left out.  fault   *)
(* is set where the code dereferences a null format, reads past the words  *)
(* of a key or lets the exception of formats_.at escape.                   *)
(***************************************************************************)
EXTENDS Naturals, FiniteSets, Bags

Put(f, x, v) == [y \in DOMAIN f \cup {x} |-> IF y = x THEN v ELSE f[y]]

NoFormat == "nullptr"
NoKey == "no key"
Nothing == [x \in {} |-> x]

(* The messages of a log (mutelemetry_ulog.h).  The header of the file has *)
(* no type; S, O and R are read but never written.                         *)
ULogMessageType == {"B", "I", "M", "F", "P", "A", "D", "L", "S", "O", "R"}

ULogFileHeader == [type |-> "header"]
ULogMessageB(unknown) == [type |-> "B", unknown_incompat_bits |-> unknown]
ULogMessageI(key) == [type |-> "I", key |-> key]
ULogMessageM == [type |-> "M"]
ULogMessageF(name, others) == [type |-> "F", name |-> name, others |-> others]
ULogMessageP(key) == [type |-> "P", key |-> key]
ULogMessageD(msg_id, datum) == [type |-> "D", msg_id_ |-> msg_id, datum |-> datum]
ULogMessageL(message) == [type |-> "L", message_ |-> message]

(* A subscription, with the data that follows it in the same buffer.       *)
ULogMessageA(name, msg_id, multi_id, datum) ==
  [type |-> "A", name |-> name, msg_id_ |-> msg_id, multi_id_ |-> multi_id,
   data |-> ULogMessageD(msg_id, datum)]

ParseState == {"HEADER", "FLAGS", "DEFINITION", "DEFINITION_OR_DATA", "INVALID"}

(* The constructor.  delivered and message_logs_ are what the data and the *)
(* log handler have been called with.                                      *)
NewParser ==
  [state_ |-> "HEADER", formats_ |-> Nothing, subscriptions_ |-> Nothing, info_ |-> {},
   parameters_ |-> EmptyBag, message_logs_ |-> EmptyBag, with_multi_id_ |-> {},
   timeseries_ |-> {}, delivered |-> EmptyBag, fault |-> "none"]

To(p, state) == [p EXCEPT !.state_ = state]

(* assert(0) behind check_ulog_valid fails, or the parser has crashed.     *)
Broken(p) == p.state_ = "INVALID" \/ p.fault # "none"

-----------------------------------------------------------------------------
parse_header(p, m) == To(p, IF m.type = "header" THEN "FLAGS" ELSE "INVALID")

(* A file with incompatible flags other than appended data is refused.     *)
parse_flags(p, m) ==
  To(p, IF m.type = "B" /\ ~ m.unknown_incompat_bits THEN "DEFINITION" ELSE "INVALID")

(* info_.insert keeps the first value of a key; key_parts[1] is the word   *)
(* behind the type.                                                        *)
parse_info(p, m) ==
  IF m.key = NoKey THEN [p EXCEPT !.fault = "key_parts"]
                   ELSE [p EXCEPT !.info_ = @ \cup {m.key}]

parse_multi(p, m) == p

(* A format replaces the one of the same name.                             *)
parse_format(p, m) == [p EXCEPT !.formats_ = Put(@, m.name, m.others)]

(* The types of parameters the parser knows.                               *)
ParamTypes == {"int32_t", "float"}

parse_param(p, m) ==
  IF m.key \in ParamTypes
    THEN [p EXCEPT !.parameters_ = @ (+) SetToBag({m.key})]
    ELSE To(p, "INVALID")

(* subscriptions_.insert keeps the first subscription of a msg_id.         *)
parse_add(p, m) ==
  LET sub == [name |-> m.name, multi_id_ |-> m.multi_id_,
              format_ |-> IF m.name \in DOMAIN p.formats_ THEN m.name ELSE NoFormat]
  IN [p EXCEPT
        !.state_ = "DEFINITION_OR_DATA",
        !.subscriptions_ = IF m.msg_id_ \in DOMAIN @ THEN @ ELSE Put(@, m.msg_id_, sub),
        !.with_multi_id_ = IF m.multi_id_ > 0 THEN @ \cup {m.name} ELSE @]

(* The types create_timeseries and parse_data_intl visit: the type itself, *)
(* those of its fields, of their fields and so on, through formats_.at,    *)
(* which is the smallest set that is closed under the fields of a format.  *)
FieldTypes(formats, name) ==
  LET Named == {name} \cup UNION {formats[t] : t \in DOMAIN formats}
      Closed(S) == name \in S /\ \A t \in S \cap DOMAIN formats : formats[t] \subseteq S
  IN {t \in Named : \A S \in SUBSET Named : Closed(S) => t \in S}

(* What goes wrong in either of them.                                      *)
create_timeseries(p, format) ==
  IF format = NoFormat THEN "null_format"
  ELSE IF ~ FieldTypes(p.formats_, format) \subseteq DOMAIN p.formats_ THEN "out_of_range"
  ELSE "none"

(* Timeseries::get_latest_data, what the data handler gets.                *)
MessageData(ts_name, d) == [series |-> ts_name, datum |-> d.datum]

(* The series a datum belongs to: the name of its type, followed by the    *)
(* instance when instances have been told apart.                           *)
SeriesName(p, sub) ==
  IF sub.name \in p.with_multi_id_ THEN <<sub.name, sub.multi_id_>> ELSE <<sub.name>>

(* parse_data(message, size): the data of a message 'D'.                   *)
parse_data_message(p, d) ==
  IF d.msg_id_ \notin DOMAIN p.subscriptions_
    THEN To(p, "DEFINITION_OR_DATA")
    ELSE LET sub == p.subscriptions_[d.msg_id_]
             ts  == SeriesName(p, sub)
             fault == create_timeseries(p, sub.format_)
         IN IF fault # "none" THEN [p EXCEPT !.fault = fault]
            ELSE [p EXCEPT !.state_ = "DEFINITION_OR_DATA",
                           !.timeseries_ = @ \cup {ts},
                           !.delivered = @ (+) SetToBag({MessageData(ts, d)})]

parse_logged(p, m) ==
  [p EXCEPT !.state_ = "DEFINITION_OR_DATA",
            !.message_logs_ = @ (+) SetToBag({m.message_})]

(* parse_sync and parse_dropout.                                           *)
parse_ignored(p, m) == To(p, "DEFINITION_OR_DATA")

parse_remove(p, m) ==
  [p EXCEPT !.state_ = "DEFINITION_OR_DATA",
            !.subscriptions_ = [i \in DOMAIN @ \ {m.msg_id_} |-> @[i]]]

(* A message 'A' is followed in the same buffer by its data.               *)
AddAndData(p, m) == parse_data_message(parse_add(p, m), m.data)

parse_definition(p, m) ==
  CASE m.type = "I" -> parse_info(p, m)
    [] m.type = "M" -> parse_multi(p, m)
    [] m.type = "F" -> parse_format(p, m)
    [] m.type = "P" -> parse_param(p, m)
    [] m.type = "A" -> AddAndData(p, m)
    [] OTHER        -> To(p, "INVALID")

(* Mutant: log messages are not expected among the data.                   *)
parse_data_no_log(p, m) ==
  CASE m.type = "A" -> AddAndData(p, m)
    [] m.type = "D" -> parse_data_message(p, m)
    [] OTHER        -> To(p, "INVALID")

(* parse_data(buffer): anything but a format may follow the first data.    *)
parse_data(p, m) ==
  CASE m.type = "A" -> AddAndData(p, m)
    [] m.type = "D" -> parse_data_message(p, m)
    [] m.type = "L" -> parse_logged(p, m)
    [] m.type = "I" -> parse_info(p, m)
    [] m.type = "M" -> parse_multi(p, m)
    [] m.type = "P" -> parse_param(p, m)
    [] m.type \in {"S", "O"} -> parse_ignored(p, m)
    [] m.type = "R" -> parse_remove(p, m)
    [] OTHER        -> To(p, "INVALID")

parse(p, m) ==
  CASE p.state_ = "HEADER"             -> parse_header(p, m)
    [] p.state_ = "FLAGS"              -> parse_flags(p, m)
    [] p.state_ = "DEFINITION"         -> parse_definition(p, m)
    [] p.state_ = "DEFINITION_OR_DATA" -> parse_data(p, m)
    [] OTHER                           -> p

(* check_ulog_valid: the data behind an 'A' is parsed a second time.  A    *)
(* fault ends the program.                                                 *)
check_ulog_valid(p, m) ==
  IF p.fault # "none" THEN p
  ELSE LET q == parse(p, m) IN
       IF q.fault = "none" /\ q.state_ # "INVALID" /\ m.type = "A"
         THEN parse(q, m.data) ELSE q

=============================================================================
