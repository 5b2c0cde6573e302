\* Two instances of one type.
SPECIFICATION Spec

CONSTANTS
  Threads = {t1, t2}
  Nobody = Nobody
  Types = {"DataType3"}
  Annotations = {a, b}
  ParamKeys <- SomeParamKeys
  InfoKeys <- SomeInfoKeys
  MaxRegister = 1
  MaxStores = 3
  MsgIdMod = 65536
  MultiIdMod = 256
  Others <- Nested

INVARIANTS
  InstancesSeparate

SYMMETRY Symmetry

CHECK_DEADLOCK FALSE
