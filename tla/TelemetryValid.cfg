\* Threads that register, store data and store messages in any order.
SPECIFICATION Spec

CONSTANTS
  Threads = {t1, t2}
  Nobody = Nobody
  Types = {"DataType3", "DataType4"}
  Annotations = {a, b, c}
  ParamKeys <- SomeParamKeys
  InfoKeys <- SomeInfoKeys
  MaxRegister = 1
  MaxStores = 3
  MsgIdMod = 2
  MultiIdMod = 2
  Others <- Nested

INVARIANTS
  TypeOK
  LogIsValid
  EveryMessageDelivered
  IdsConsistent

SYMMETRY Symmetry

CHECK_DEADLOCK FALSE
