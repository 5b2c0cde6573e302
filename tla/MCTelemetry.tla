---------------------------- MODULE MCTelemetry ----------------------------
(* Constants of Telemetry that a configuration file cannot write.          *)
EXTENDS Telemetry, TLC

(* A type whose fields are of basic types, and one with fields of it, as   *)
(* DataType4 of the test program has fields of DataType3.                  *)
Nested == [n \in Types |-> IF n = "DataType4" THEN {"DataType3"} ELSE {}]

(* "int32_t param1", a key with one character too many for its value, the  *)
(* first two lengths that do not fit into a byte and leave no blank or a   *)
(* blank, a key without a blank, and one of a type that the parser does    *)
(* not take.                                                               *)
SomeParamKeys ==
  {[type |-> "int32_t", name |-> "param", space |-> s, len |-> l, value_len |-> 4] :
     <<s, l>> \in {<<7, 14>>, <<7, 250>>, <<7, 251>>, <<7, 256>>, <<7, 264>>, <<6, 6>>}}
  \cup {[type |-> "double", name |-> "param", space |-> 6, len |-> 12, value_len |-> 4]}

(* "char[8] company", a value that does not fit behind the longest key, a  *)
(* key that wraps around, and an empty key.                                *)
SomeInfoKeys ==
  {[type |-> "char", name |-> "info", space |-> 7, len |-> l, value_len |-> 8] :
     l \in {15, 247, 256, 8}}

Symmetry == Permutations(Threads) \cup Permutations(Annotations)

=============================================================================
