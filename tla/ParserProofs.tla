---------------------------- MODULE ParserProofs -----------------------------
(***************************************************************************)
(* What the parser does with a log that is put together as the application *)
(* of muTelemetry does it: header, flags, formats in front, then data      *)
(* whose formats are complete. Under these conditions the parser never     *)
(* refuses a message, never throws, and stays as it was: these are the     *)
(* facts about Parser that the proofs about the log (TelemetryProofs) and  *)
(* about the client (StreamClientProofs) need, for every set of types and  *)
(* nesting of their formats.                                               *)
(***************************************************************************)
EXTENDS Parser, TLAPS

-----------------------------------------------------------------------------
(***************************************************************************)
(* Every handler returns a parser.                                         *)
(***************************************************************************)
(* The shape of a parser: what every handler keeps, whatever it is given.  *)
IsParser(p) == DOMAIN p = DOMAIN NewParser /\ p.state_ \in ParseState

(* parse_data_message keeps the shape.                                     *)
LEMMA DataParsed ==
  ASSUME NEW p, IsParser(p), NEW d
  PROVE  IsParser(parse_data_message(p, d))
<1>1. \A s \in ParseState : IsParser(To(p, s))
  BY DEF IsParser, To, NewParser
<1>2. \A s : IsParser([p EXCEPT !.fault = s])
  BY DEF IsParser, NewParser
<1>3. \A a, b : IsParser([p EXCEPT !.state_ = "DEFINITION_OR_DATA", !.timeseries_ = a,
                                   !.delivered = b])
  BY DEF IsParser, NewParser, ParseState
<1> QED
  BY <1>1, <1>2, <1>3 DEF parse_data_message, ParseState

(* parse_add with the data behind it keeps the shape.                      *)
LEMMA AddParsed ==
  ASSUME NEW p, IsParser(p), NEW m
  PROVE  IsParser(AddAndData(p, m))
<1>1. \A a, b : IsParser([p EXCEPT !.state_ = "DEFINITION_OR_DATA", !.subscriptions_ = a,
                                   !.with_multi_id_ = b])
  BY DEF IsParser, NewParser, ParseState
<1>2. IsParser(parse_add(p, m))
  BY <1>1 DEF parse_add
<1> QED
  BY <1>2, DataParsed DEF AddAndData

(* parse keeps the shape, in every state and for every message.            *)
LEMMA ParseType ==
  ASSUME NEW p, IsParser(p), NEW m
  PROVE  IsParser(parse(p, m))
<1>1. \A s \in ParseState : IsParser(To(p, s))
  BY DEF IsParser, To, NewParser
<1>2. \A v : /\ IsParser([p EXCEPT !.fault = v])
             /\ IsParser([p EXCEPT !.info_ = v])
             /\ IsParser([p EXCEPT !.formats_ = v])
             /\ IsParser([p EXCEPT !.parameters_ = v])
             /\ IsParser([p EXCEPT !.state_ = "DEFINITION_OR_DATA", !.message_logs_ = v])
             /\ IsParser([p EXCEPT !.state_ = "DEFINITION_OR_DATA", !.subscriptions_ = v])
  BY DEF IsParser, NewParser, ParseState
<1>3. IsParser(AddAndData(p, m)) /\ IsParser(parse_data_message(p, m))
  BY AddParsed, DataParsed
<1>4. IsParser(parse_header(p, m)) /\ IsParser(parse_flags(p, m))
      /\ IsParser(parse_ignored(p, m))
  BY <1>1 DEF parse_header, parse_flags, parse_ignored, ParseState
<1>5. IsParser(parse_info(p, m)) /\ IsParser(parse_multi(p, m))
      /\ IsParser(parse_format(p, m))
  BY <1>2 DEF parse_info, parse_multi, parse_format
<1>6. IsParser(parse_param(p, m)) /\ IsParser(parse_logged(p, m))
      /\ IsParser(parse_remove(p, m))
  BY <1>1, <1>2 DEF parse_param, parse_logged, parse_remove, ParseState
<1>7. IsParser(parse_definition(p, m))
  BY <1>1, <1>3, <1>5, <1>6 DEF parse_definition, ParseState
<1>8. IsParser(parse_data(p, m))
  BY <1>1, <1>3, <1>4, <1>5, <1>6 DEF parse_data, ParseState
<1> QED
  BY <1>4, <1>7, <1>8 DEF parse

(* check_ulog_valid keeps the shape.                                       *)
LEMMA CheckType ==
  ASSUME NEW p, IsParser(p), NEW m
  PROVE  IsParser(check_ulog_valid(p, m))
  BY ParseType DEF check_ulog_valid

(* A new parser has the shape.                                             *)
LEMMA NewIsParser == IsParser(NewParser)
  BY DEF IsParser, NewParser, ParseState

-----------------------------------------------------------------------------
(***************************************************************************)
(* The healthy parser.                                                     *)
(***************************************************************************)
(* The formats a parser knows are those the application means: others      *)
(* names the types of the fields of each type.                             *)
Formatted(p, others) ==
  \A t \in DOMAIN p.formats_ : t \in DOMAIN others /\ p.formats_[t] = others[t]

(* Data of a type can be decoded: the formats of the type, of its fields,  *)
(* of their fields and so on are known.                                    *)
Decodable(p, others, format) ==
  format # NoFormat /\ FieldTypes(others, format) \subseteq DOMAIN p.formats_

(* The data of every subscription can be decoded.                          *)
Subscribed(p, others) ==
  \A i \in DOMAIN p.subscriptions_ : Decodable(p, others, p.subscriptions_[i].format_)

(* A parser that has taken all messages so far and will take the next      *)
(* ones: it is past header and flags, nothing went wrong, and it can       *)
(* decode the data of all subscriptions. This is the invariant of the      *)
(* reader of a log that is put together in the right order.                *)
Healthy(p, others) ==
  /\ IsParser(p) /\ p.state_ \in {"DEFINITION", "DEFINITION_OR_DATA"} /\ p.fault = "none"
  /\ Formatted(p, others) /\ Subscribed(p, others)

-----------------------------------------------------------------------------
(***************************************************************************)
(* The types that the data of a type is made of.                           *)
(***************************************************************************)
(* FieldTypes is the smallest set with the type that is closed under the   *)
(* fields of its members.                                                  *)
LEMMA FieldTypesLeast ==
  ASSUME NEW formats, NEW name, NEW S, name \in S,
         \A t \in S \cap DOMAIN formats : formats[t] \subseteq S
  PROVE  FieldTypes(formats, name) \subseteq S
<1> DEFINE Named == {name} \cup UNION {formats[t] : t \in DOMAIN formats}
           U == S \cap Named
<1>1. name \in U /\ U \in SUBSET Named
  OBVIOUS
<1>2. \A t \in U \cap DOMAIN formats : formats[t] \subseteq U
  OBVIOUS
<1> QED
  BY <1>1, <1>2 DEF FieldTypes

(* FieldTypes has the type, and with each type the types of its fields.    *)
LEMMA FieldTypesClosed ==
  ASSUME NEW formats, NEW name
  PROVE  /\ name \in FieldTypes(formats, name)
         /\ \A t \in FieldTypes(formats, name) \cap DOMAIN formats :
              formats[t] \subseteq FieldTypes(formats, name)
<1>1. name \in FieldTypes(formats, name)
  BY DEF FieldTypes
<1>2. ASSUME NEW t \in FieldTypes(formats, name) \cap DOMAIN formats, NEW x \in formats[t]
      PROVE  x \in FieldTypes(formats, name)
  BY DEF FieldTypes
<1> QED
  BY <1>1, <1>2

(* When all the formats a type needs are known, create_timeseries finds    *)
(* each of them: what it visits in the parser's formats is not more than   *)
(* what the application meant.                                             *)
LEMMA FieldTypesAgree ==
  ASSUME NEW p, NEW others, Formatted(p, others), NEW name,
         FieldTypes(others, name) \subseteq DOMAIN p.formats_
  PROVE  FieldTypes(p.formats_, name) \subseteq DOMAIN p.formats_
<1> DEFINE S == FieldTypes(others, name)
<1>1. name \in S /\ \A t \in S \cap DOMAIN others : others[t] \subseteq S
  BY FieldTypesClosed
<1> HIDE DEF S
<1>2. \A t \in S \cap DOMAIN p.formats_ : p.formats_[t] \subseteq S
  BY <1>1 DEF Formatted
<1>3. FieldTypes(p.formats_, name) \subseteq S
  BY <1>1, <1>2, FieldTypesLeast
<1> QED
  BY <1>3 DEF S

-----------------------------------------------------------------------------
(***************************************************************************)
(* What a healthy parser takes without becoming INVALID or throwing.       *)
(***************************************************************************)
(* A healthy parser takes data: without throwing, into the state           *)
(* DEFINITION_OR_DATA, and stays healthy.                                  *)
LEMMA HealthyDatum ==
  ASSUME NEW p, NEW others, Healthy(p, others), NEW d
  PROVE  LET q == parse_data_message(p, d) IN
           /\ Healthy(q, others) /\ q.state_ = "DEFINITION_OR_DATA"
           /\ q.formats_ = p.formats_
<1>1. ASSUME d.msg_id_ \in DOMAIN p.subscriptions_
      PROVE  create_timeseries(p, p.subscriptions_[d.msg_id_].format_) = "none"
  BY <1>1, FieldTypesAgree DEF Healthy, Subscribed, Decodable, create_timeseries
<1>2. \A a, b :
        LET q == [p EXCEPT !.state_ = "DEFINITION_OR_DATA", !.timeseries_ = a,
                           !.delivered = b] IN
          /\ Healthy(q, others) /\ q.state_ = "DEFINITION_OR_DATA"
          /\ q.formats_ = p.formats_
  BY DEF Healthy, Formatted, Subscribed, Decodable, IsParser, NewParser, ParseState
<1>3. LET q == To(p, "DEFINITION_OR_DATA") IN
        /\ Healthy(q, others) /\ q.state_ = "DEFINITION_OR_DATA"
        /\ q.formats_ = p.formats_
  BY DEF To, Healthy, Formatted, Subscribed, Decodable, IsParser, NewParser, ParseState
<1>4. CASE d.msg_id_ \in DOMAIN p.subscriptions_
  BY <1>1, <1>2, <1>4 DEF parse_data_message
<1>5. CASE d.msg_id_ \notin DOMAIN p.subscriptions_
  BY <1>3, <1>5 DEF parse_data_message
<1> QED
  BY <1>4, <1>5

(* A healthy parser takes a subscription whose data it can decode.         *)
LEMMA HealthyAdd ==
  ASSUME NEW p, NEW others, Healthy(p, others), NEW m, Decodable(p, others, m.name)
  PROVE  LET q == parse_add(p, m) IN
           Healthy(q, others) /\ q.formats_ = p.formats_
<1> DEFINE sub == [name |-> m.name, multi_id_ |-> m.multi_id_,
                   format_ |-> IF m.name \in DOMAIN p.formats_ THEN m.name ELSE NoFormat]
           subs == IF m.msg_id_ \in DOMAIN p.subscriptions_ THEN p.subscriptions_
                   ELSE Put(p.subscriptions_, m.msg_id_, sub)
           multi == IF m.multi_id_ > 0 THEN p.with_multi_id_ \cup {m.name}
                    ELSE p.with_multi_id_
           q == [p EXCEPT !.state_ = "DEFINITION_OR_DATA", !.subscriptions_ = subs,
                          !.with_multi_id_ = multi]
<1>1. parse_add(p, m) = q
  BY DEF parse_add
<1>2. m.name \in DOMAIN p.formats_
  BY FieldTypesClosed DEF Decodable
<1>3. sub.format_ = m.name
  BY <1>2
<1>4. \A i \in DOMAIN subs : Decodable(p, others, subs[i].format_)
  BY <1>3 DEF Put, Healthy, Subscribed
<1> HIDE DEF subs, multi
<1>5. /\ q.state_ = "DEFINITION_OR_DATA" /\ q.subscriptions_ = subs /\ q.fault = "none"
      /\ q.formats_ = p.formats_ /\ IsParser(q)
  BY DEF Healthy, IsParser, NewParser, ParseState
<1> HIDE DEF q
<1> QED
  BY <1>1, <1>4, <1>5 DEF Healthy, Formatted, Subscribed, Decodable

(* A healthy parser takes a message 'A' and the data behind it, which      *)
(* check_ulog_valid gives it twice.                                        *)
LEMMA HealthyData ==
  ASSUME NEW p, NEW others, Healthy(p, others), NEW m, m.type = "A", m.data.type = "D",
         Decodable(p, others, m.name)
  PROVE  LET q == check_ulog_valid(p, m) IN
           /\ Healthy(q, others) /\ q.state_ = "DEFINITION_OR_DATA"
           /\ q.formats_ = p.formats_
<1> DEFINE a == parse_add(p, m)
           b == parse_data_message(a, m.data)
           c == parse_data_message(b, m.data)
<1>1. Healthy(a, others) /\ a.formats_ = p.formats_
  BY HealthyAdd
<1> HIDE DEF a
<1>2. Healthy(b, others) /\ b.state_ = "DEFINITION_OR_DATA" /\ b.formats_ = p.formats_
  BY <1>1, HealthyDatum
<1> HIDE DEF b
<1>3. Healthy(c, others) /\ c.state_ = "DEFINITION_OR_DATA" /\ c.formats_ = p.formats_
  BY <1>2, HealthyDatum
<1>4. parse(p, m) = b
  BY DEF parse, parse_definition, parse_data, AddAndData, Healthy, a, b
<1>5. parse(b, m.data) = c
  BY <1>2 DEF parse, parse_data
<1>6. check_ulog_valid(p, m) = c
  BY <1>2, <1>4, <1>5 DEF check_ulog_valid, Healthy
<1> QED
  BY <1>3, <1>6

(* check_ulog_valid is parse for everything but a message 'A'.             *)
LEMMA HealthyOther ==
  ASSUME NEW p, NEW others, Healthy(p, others), NEW m, m.type # "A",
         Healthy(parse(p, m), others)
  PROVE  check_ulog_valid(p, m) = parse(p, m)
  BY DEF check_ulog_valid, Healthy

(* A healthy parser takes an info message that has a key, a parameter of a *)
(* type it knows, and any multi info message, in both of its states.       *)
LEMMA HealthyKeyed ==
  ASSUME NEW p, NEW others, Healthy(p, others), NEW m,
         \/ m.type = "I" /\ m.key # NoKey
         \/ m.type = "P" /\ m.key \in ParamTypes
         \/ m.type = "M"
  PROVE  LET q == check_ulog_valid(p, m) IN
           /\ Healthy(q, others) /\ q.state_ = p.state_
           /\ q.formats_ = p.formats_
<1>1. \A v : LET q == [p EXCEPT !.info_ = v] IN
               Healthy(q, others) /\ q.state_ = p.state_ /\ q.formats_ = p.formats_
  BY DEF Healthy, Formatted, Subscribed, Decodable, IsParser, NewParser, ParseState
<1>2. \A v : LET q == [p EXCEPT !.parameters_ = v] IN
               Healthy(q, others) /\ q.state_ = p.state_ /\ q.formats_ = p.formats_
  BY DEF Healthy, Formatted, Subscribed, Decodable, IsParser, NewParser, ParseState
<1> DEFINE r == parse(p, m)
<1>3. CASE m.type = "I" /\ m.key # NoKey
  <2>1. r = parse_info(p, m)
    BY <1>3 DEF parse, parse_definition, parse_data, Healthy
  <2>2. Healthy(r, others) /\ r.state_ = p.state_ /\ r.formats_ = p.formats_
    BY <1>1, <1>3, <2>1 DEF parse_info
  <2> QED
    BY <1>3, <2>2, HealthyOther
<1>4. CASE m.type = "P" /\ m.key \in ParamTypes
  <2>1. r = parse_param(p, m)
    BY <1>4 DEF parse, parse_definition, parse_data, Healthy
  <2>2. Healthy(r, others) /\ r.state_ = p.state_ /\ r.formats_ = p.formats_
    BY <1>2, <1>4, <2>1 DEF parse_param
  <2> QED
    BY <1>4, <2>2, HealthyOther
<1>5. CASE m.type = "M"
  <2>1. r = p
    BY <1>5 DEF parse, parse_definition, parse_data, parse_multi, Healthy
  <2> QED
    BY <1>5, <2>1, HealthyOther
<1> QED
  BY <1>3, <1>4, <1>5

(* A healthy parser takes a log message when data has come before it.      *)
(* (Before the first data it would become INVALID.)                        *)
LEMMA HealthyLogged ==
  ASSUME NEW p, NEW others, Healthy(p, others), NEW m, m.type = "L",
         p.state_ = "DEFINITION_OR_DATA"
  PROVE  LET q == check_ulog_valid(p, m) IN
           /\ Healthy(q, others) /\ q.state_ = "DEFINITION_OR_DATA"
           /\ q.formats_ = p.formats_
<1>1. \A v : LET q == [p EXCEPT !.state_ = "DEFINITION_OR_DATA", !.message_logs_ = v] IN
               Healthy(q, others) /\ q.state_ = "DEFINITION_OR_DATA"
               /\ q.formats_ = p.formats_
  BY DEF Healthy, Formatted, Subscribed, Decodable, IsParser, NewParser, ParseState
<1> DEFINE r == parse(p, m)
<1>2. r = parse_logged(p, m)
  BY DEF parse, parse_data
<1>3. Healthy(r, others) /\ r.state_ = "DEFINITION_OR_DATA" /\ r.formats_ = p.formats_
  BY <1>1, <1>2 DEF parse_logged
<1>4. check_ulog_valid(p, m) = r
  BY <1>3, HealthyOther
<1> QED
  BY <1>3, <1>4

(* A healthy parser takes a format that comes before the first data, and   *)
(* knows it from then on.                                                  *)
LEMMA HealthyFormat ==
  ASSUME NEW p, NEW others, Healthy(p, others), NEW m, m.type = "F",
         p.state_ = "DEFINITION",
         m.name \in DOMAIN others, m.others = others[m.name]
  PROVE  LET q == check_ulog_valid(p, m) IN
           /\ Healthy(q, others) /\ q.state_ = "DEFINITION"
           /\ DOMAIN q.formats_ = DOMAIN p.formats_ \cup {m.name}
<1> DEFINE formats == Put(p.formats_, m.name, m.others)
           q == [p EXCEPT !.formats_ = formats]
<1>1. parse(p, m) = q
  BY DEF parse, parse_definition, parse_format
<1>2. /\ DOMAIN formats = DOMAIN p.formats_ \cup {m.name}
      /\ \A t \in DOMAIN formats : t \in DOMAIN others /\ formats[t] = others[t]
  BY DEF Put, Healthy, Formatted
<1> HIDE DEF formats
<1>3. /\ q.state_ = "DEFINITION" /\ q.subscriptions_ = p.subscriptions_
      /\ q.fault = "none"
      /\ q.formats_ = formats /\ IsParser(q)
  BY DEF Healthy, IsParser, NewParser, ParseState
<1> HIDE DEF q
<1>4. Healthy(q, others)
  BY <1>2, <1>3 DEF Healthy, Formatted, Subscribed, Decodable
<1> QED
  BY <1>1, <1>2, <1>3, <1>4, HealthyOther

(* Header and flags make a new parser healthy: it waits for definitions    *)
(* and knows no format.                                                    *)
LEMMA HealthyStart ==
  ASSUME NEW others
  PROVE  LET q == check_ulog_valid(check_ulog_valid(NewParser, ULogFileHeader),
                                   ULogMessageB(FALSE)) IN
           Healthy(q, others) /\ q.state_ = "DEFINITION" /\ q.formats_ = Nothing
<1> DEFINE a == To(NewParser, "FLAGS")
           b == To(a, "DEFINITION")
<1>1. check_ulog_valid(NewParser, ULogFileHeader) = a
  BY DEF check_ulog_valid, parse, parse_header, ULogFileHeader, NewParser, To
<1>2. check_ulog_valid(a, ULogMessageB(FALSE)) = b
  BY DEF check_ulog_valid, parse, parse_flags, ULogMessageB, NewParser, To
<1>3. Healthy(b, others) /\ b.state_ = "DEFINITION" /\ b.formats_ = Nothing
  BY DEF Healthy, Formatted, Subscribed, IsParser, NewParser, ParseState, To, Nothing
<1> QED
  BY <1>1, <1>2, <1>3

-----------------------------------------------------------------------------
(***************************************************************************)
(* What the handlers of data and of log messages are called with.          *)
(***************************************************************************)
(* A bag with one more of something.                                       *)
Once(B, x) == B (+) SetToBag({x})

(* And with two more.                                                      *)
Twice(B, x) == Once(Once(B, x), x)

(* What is in it.                                                          *)
LEMMA BagOnce ==
  ASSUME NEW B, NEW x
  PROVE  /\ \A y : y \in DOMAIN Once(B, x) <=> y \in DOMAIN B \/ y = x
         /\ x \notin DOMAIN B => Once(B, x)[x] = 1
         /\ x \in DOMAIN B => Once(B, x)[x] = B[x] + 1
         /\ \A y \in DOMAIN B : y # x /\ B[y] \in Nat => Once(B, x)[y] = B[y]
<1> DEFINE S == SetToBag({x})
<1>1. DOMAIN S = {x} /\ S[x] = 1
  BY DEF SetToBag
<1> HIDE DEF S
<1>2. Once(B, x) = B (+) S
  BY DEF Once, S
<1> QED
  BY <1>1, <1>2 DEF (+)

(* Something new that is added twice is there twice, and the rest as       *)
(* before.                                                                 *)
LEMMA BagTwice ==
  ASSUME NEW B, NEW x, x \notin DOMAIN B
  PROVE  /\ \A y : y \in DOMAIN Twice(B, x) <=> y \in DOMAIN B \/ y = x
         /\ Twice(B, x)[x] = 2
         /\ \A y \in DOMAIN B : B[y] \in Nat => Twice(B, x)[y] = B[y]
<1> DEFINE C == Once(B, x)
<1>1. /\ \A y : y \in DOMAIN C <=> y \in DOMAIN B \/ y = x
      /\ C[x] = 1
      /\ \A y \in DOMAIN B : B[y] \in Nat => C[y] = B[y]
  BY BagOnce
<1> HIDE DEF C
<1>2. /\ \A y : y \in DOMAIN Once(C, x) <=> y \in DOMAIN C \/ y = x
      /\ Once(C, x)[x] = C[x] + 1
      /\ \A y \in DOMAIN C : y # x /\ C[y] \in Nat => Once(C, x)[y] = C[y]
  BY <1>1, BagOnce
<1>3. Twice(B, x) = Once(C, x)
  BY DEF Twice, C
<1> QED
  BY <1>1, <1>2, <1>3

(* Something new that is added to the bag of a set.                        *)
LEMMA BagOfSet ==
  ASSUME NEW S, NEW x, x \notin S
  PROVE  Once(SetToBag(S), x) = SetToBag(S \cup {x})
BY DEF (+), SetToBag, Once

(* parse_data_message hands a datum with a subscription to the handler, in *)
(* the series of that subscription, unless its format is incomplete. It    *)
(* leaves the subscriptions alone.                                         *)
LEMMA DatumParsed ==
  ASSUME NEW p, IsParser(p), NEW d, d.msg_id_ \in DOMAIN p.subscriptions_
  PROVE  LET q == parse_data_message(p, d)
             ts == SeriesName(p, p.subscriptions_[d.msg_id_]) IN
           /\ q.subscriptions_ = p.subscriptions_
           /\ q.with_multi_id_ = p.with_multi_id_
           /\ q.message_logs_ = p.message_logs_
           /\ q.fault = "none" =>
                /\ q.state_ = "DEFINITION_OR_DATA"
                /\ q.delivered = Once(p.delivered, MessageData(ts, d))
<1>1. \A a, b : LET q == [p EXCEPT !.state_ = "DEFINITION_OR_DATA", !.timeseries_ = a,
                                   !.delivered = b] IN
        /\ q.subscriptions_ = p.subscriptions_
        /\ q.with_multi_id_ = p.with_multi_id_
        /\ q.message_logs_ = p.message_logs_
        /\ q.state_ = "DEFINITION_OR_DATA"
        /\ q.delivered = b
  BY DEF IsParser, NewParser
<1>2. \A f : LET q == [p EXCEPT !.fault = f] IN
        /\ q.subscriptions_ = p.subscriptions_
        /\ q.with_multi_id_ = p.with_multi_id_
        /\ q.message_logs_ = p.message_logs_
        /\ q.fault = f
  BY DEF IsParser, NewParser
<1> QED
  BY <1>1, <1>2 DEF parse_data_message, Once

(* parse_add keeps the first subscription of a msg_id_, or makes one for   *)
(* the type of the message.                                                *)
LEMMA AddKeeps ==
  ASSUME NEW p, IsParser(p), NEW m
  PROVE  LET q == parse_add(p, m) IN
           /\ IsParser(q) /\ q.fault = p.fault
           /\ q.delivered = p.delivered /\ q.message_logs_ = p.message_logs_
           /\ m.msg_id_ \in DOMAIN q.subscriptions_
           /\ \A i \in DOMAIN q.subscriptions_ :
                \/ /\ i \in DOMAIN p.subscriptions_
                   /\ q.subscriptions_[i] = p.subscriptions_[i]
                \/ i = m.msg_id_ /\ q.subscriptions_[i].name = m.name
<1> DEFINE sub == [name |-> m.name, multi_id_ |-> m.multi_id_,
                   format_ |-> IF m.name \in DOMAIN p.formats_ THEN m.name ELSE NoFormat]
           subs == IF m.msg_id_ \in DOMAIN p.subscriptions_ THEN p.subscriptions_
                   ELSE Put(p.subscriptions_, m.msg_id_, sub)
<1>1. sub.name = m.name
  OBVIOUS
<1> HIDE DEF sub
<1>2. /\ m.msg_id_ \in DOMAIN subs
      /\ \A i \in DOMAIN subs :
           \/ i \in DOMAIN p.subscriptions_ /\ subs[i] = p.subscriptions_[i]
           \/ i = m.msg_id_ /\ subs[i].name = m.name
  BY <1>1 DEF Put
<1>3. parse_add(p, m) = [p EXCEPT !.state_ = "DEFINITION_OR_DATA", !.subscriptions_ = subs,
        !.with_multi_id_ = IF m.multi_id_ > 0 THEN @ \cup {m.name} ELSE @]
  BY DEF parse_add, sub
<1> HIDE DEF subs
<1>4. LET q == parse_add(p, m) IN
        /\ IsParser(q) /\ q.fault = p.fault
        /\ q.delivered = p.delivered /\ q.message_logs_ = p.message_logs_
        /\ q.subscriptions_ = subs
  BY <1>3 DEF IsParser, NewParser, ParseState
<1> QED
  BY <1>2, <1>4

(* A parser that has refused a message, or failed, stays that way.         *)
LEMMA BrokenStays ==
  ASSUME NEW p, NEW m, Broken(p)
  PROVE  Broken(check_ulog_valid(p, m))
BY DEF Broken, check_ulog_valid, parse

(* check_ulog_valid parses a message 'A' and then the 'D' behind it once   *)
(* more: unless something is wrong, the datum is handed over twice, both   *)
(* times in one series, the one of the subscription of its msg_id_.        *)
LEMMA DataDelivered ==
  ASSUME NEW p, IsParser(p), NEW m, m.type = "A", m.data.type = "D",
         m.data.msg_id_ = m.msg_id_, ~ Broken(check_ulog_valid(p, m))
  PROVE  LET q == check_ulog_valid(p, m) IN
           /\ q.message_logs_ = p.message_logs_
           /\ \A i \in DOMAIN q.subscriptions_ :
                \/ /\ i \in DOMAIN p.subscriptions_
                   /\ q.subscriptions_[i] = p.subscriptions_[i]
                \/ i = m.msg_id_ /\ q.subscriptions_[i].name = m.name
           /\ m.msg_id_ \in DOMAIN q.subscriptions_
           /\ \E ts :
                /\ ts[1] = q.subscriptions_[m.msg_id_].name
                /\ q.delivered = Twice(p.delivered, MessageData(ts, m.data))
<1> DEFINE a == parse_add(p, m)
           b == parse_data_message(a, m.data)
           c == parse_data_message(b, m.data)
           ts == SeriesName(a, a.subscriptions_[m.msg_id_])
<1>1. p.fault = "none" /\ p.state_ # "INVALID"
  BY BrokenStays DEF Broken
<1>2. p.state_ \in {"DEFINITION", "DEFINITION_OR_DATA"} /\ parse(p, m) = b
  <2>1. CASE p.state_ = "HEADER"
    <3>1. parse(p, m) = To(p, "INVALID")
      BY <2>1 DEF parse, parse_header
    <3>2. To(p, "INVALID").state_ = "INVALID"
      BY DEF To, IsParser, NewParser
    <3> QED
      BY <1>1, <3>1, <3>2 DEF check_ulog_valid, Broken
  <2>2. CASE p.state_ = "FLAGS"
    <3>1. parse(p, m) = To(p, "INVALID")
      BY <2>2 DEF parse, parse_flags
    <3>2. To(p, "INVALID").state_ = "INVALID"
      BY DEF To, IsParser, NewParser
    <3> QED
      BY <1>1, <3>1, <3>2 DEF check_ulog_valid, Broken
  <2>3. CASE p.state_ \in {"DEFINITION", "DEFINITION_OR_DATA"}
    BY <2>3 DEF parse, parse_definition, parse_data, AddAndData
  <2> QED
    BY <1>1, <2>1, <2>2, <2>3 DEF IsParser, ParseState
<1>3. /\ IsParser(a) /\ m.msg_id_ \in DOMAIN a.subscriptions_
      /\ a.delivered = p.delivered /\ a.message_logs_ = p.message_logs_
      /\ \A i \in DOMAIN a.subscriptions_ :
           \/ i \in DOMAIN p.subscriptions_ /\ a.subscriptions_[i] = p.subscriptions_[i]
           \/ i = m.msg_id_ /\ a.subscriptions_[i].name = m.name
  BY AddKeeps
<1> HIDE DEF a
<1>4. /\ b.subscriptions_ = a.subscriptions_ /\ b.with_multi_id_ = a.with_multi_id_
      /\ b.message_logs_ = a.message_logs_
      /\ b.fault = "none" =>
           /\ b.state_ = "DEFINITION_OR_DATA"
           /\ b.delivered = Once(a.delivered, MessageData(ts, m.data))
  BY <1>3, DatumParsed
<1>5. IsParser(b)
  BY <1>3, DataParsed
<1> HIDE DEF b
<1>6. b.fault = "none" /\ check_ulog_valid(p, m) = parse(b, m.data)
  BY <1>1, <1>2, <1>4 DEF check_ulog_valid, Broken
<1>7. parse(b, m.data) = c
  BY <1>4, <1>6 DEF parse, parse_data
<1>8. SeriesName(b, b.subscriptions_[m.msg_id_]) = ts
  BY <1>4 DEF SeriesName
<1>9. /\ c.subscriptions_ = b.subscriptions_ /\ c.message_logs_ = b.message_logs_
      /\ c.fault = "none" =>
           c.delivered = Once(b.delivered, MessageData(ts, m.data))
  BY <1>3, <1>4, <1>5, <1>8, DatumParsed
<1> HIDE DEF c
<1>10. c.fault = "none"
  BY <1>6, <1>7 DEF Broken
<1>11. ts[1] = a.subscriptions_[m.msg_id_].name
  BY DEF SeriesName
<1> HIDE DEF ts
<1>12. c.delivered = Twice(p.delivered, MessageData(ts, m.data))
  BY <1>3, <1>4, <1>6, <1>9, <1>10 DEF Twice
<1> QED
  BY <1>3, <1>4, <1>6, <1>7, <1>9, <1>11, <1>12

(* The messages muTelemetry writes besides those with data.                *)
CarriesNoData(m) == m.type \in {"F", "P", "I", "L", "M"}

(* They hand nothing to the handler of data and leave the subscriptions    *)
(* alone; a log message is handed over once.                               *)
LEMMA OtherDelivered ==
  ASSUME NEW p, IsParser(p), NEW m, CarriesNoData(m),
         ~ Broken(check_ulog_valid(p, m))
  PROVE  LET q == check_ulog_valid(p, m) IN
           /\ q.delivered = p.delivered
           /\ q.subscriptions_ = p.subscriptions_
           /\ m.type = "L" => q.message_logs_ = Once(p.message_logs_, m.message_)
           /\ m.type # "L" => q.message_logs_ = p.message_logs_
<1> DEFINE Same(q) == /\ q.delivered = p.delivered
                      /\ q.subscriptions_ = p.subscriptions_
                      /\ q.message_logs_ = p.message_logs_
<1>1. /\ \A s : Same(To(p, s))
      /\ \A v : Same([p EXCEPT !.info_ = v])
      /\ \A v : Same([p EXCEPT !.formats_ = v])
      /\ \A v : Same([p EXCEPT !.parameters_ = v])
      /\ \A v : Same([p EXCEPT !.fault = v])
      /\ \A s : To(p, s).state_ = s
      /\ \A v : LET q == [p EXCEPT !.state_ = "DEFINITION_OR_DATA", !.message_logs_ = v] IN
               /\ q.delivered = p.delivered
               /\ q.subscriptions_ = p.subscriptions_
               /\ q.message_logs_ = v
  BY DEF IsParser, NewParser, To
<1> USE DEF CarriesNoData
<1>2. p.fault = "none" /\ p.state_ # "INVALID"
  BY BrokenStays DEF Broken
<1>3. check_ulog_valid(p, m) = parse(p, m) /\ parse(p, m).state_ # "INVALID"
  BY <1>2 DEF check_ulog_valid, Broken
<1>4. p.state_ # "HEADER" /\ p.state_ # "FLAGS"
  BY <1>1, <1>3 DEF parse, parse_header, parse_flags
<1>5. CASE m.type = "L"
  <2>1. p.state_ = "DEFINITION_OR_DATA"
    BY <1>1, <1>2, <1>3, <1>4, <1>5 DEF IsParser, ParseState, parse, parse_definition
  <2>2. parse(p, m) = parse_logged(p, m)
    BY <1>5, <2>1 DEF parse, parse_data
  <2>3. PICK v : v = Once(p.message_logs_, m.message_)
    OBVIOUS
  <2>4. parse_logged(p, m) = [p EXCEPT !.state_ = "DEFINITION_OR_DATA", !.message_logs_ = v]
    BY <2>3 DEF parse_logged, Once
  <2> QED
    BY <1>1, <1>3, <1>5, <2>2, <2>3, <2>4
<1>6. CASE m.type = "F"
  <2>1. parse(p, m) \in {To(p, "INVALID"), parse_format(p, m)}
    BY <1>2, <1>4, <1>6 DEF IsParser, ParseState, parse, parse_definition, parse_data
  <2>2. Same(parse_format(p, m))
    BY <1>1 DEF parse_format
  <2>3. Same(parse(p, m))
    BY <1>1, <2>1, <2>2
  <2> QED
    BY <1>3, <1>6, <2>3
<1>7. CASE m.type \in {"P", "I", "M"}
  <2>1. parse(p, m) = CASE m.type = "P" -> parse_param(p, m)
                        [] m.type = "I" -> parse_info(p, m)
                        [] OTHER        -> p
    BY <1>2, <1>4, <1>7
       DEF IsParser, ParseState, parse, parse_definition, parse_data, parse_multi
  <2>2. Same(parse_param(p, m)) /\ Same(parse_info(p, m)) /\ Same(p)
    BY <1>1 DEF parse_param, parse_info
  <2> QED
    BY <1>3, <1>7, <2>1, <2>2
<1> QED
  BY <1>5, <1>6, <1>7

=============================================================================
