CONSTANTS
  BlockSize = 3
  BulkBlocks = 2
  CtrMod = 5
  MaxAad = 4
  MaxMsg = 9
  Alterable = {1, 9}
  Backends = {"scalar", "pclmul", "pmull"}
  AnyAadSplit = TRUE
SPECIFICATION Spec
INVARIANTS TagCoversAad
CHECK_DEADLOCK FALSE
